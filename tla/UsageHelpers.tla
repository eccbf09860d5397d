---------------------------- MODULE UsageHelpers ----------------------------
(***************************************************************************)
(* The connectors that UsageAuthority and UsageHandover are about, and     *)
(* what the cloud reads of them when it decides which one's usage reports  *)
(* are deducted.                                                           *)
(***************************************************************************)
CONSTANTS
    Helpers,  \* connectors of one material system that report consumption
    None      \* no connector

ASSUME NoneAssumption == None \notin Helpers

VARIABLES
    silent,   \* committed: those whose last_seen_at is six minutes old
    revoked   \* committed: those that are not active
=============================================================================
