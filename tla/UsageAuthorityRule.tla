-------------------------- MODULE UsageAuthorityRule --------------------------
(***************************************************************************)
(* Which helper's usage reports are deducted: the rule the cloud promises. *)
(*                                                                         *)
(* Of the connectors of one material system at most one holds the usage    *)
(* authority.  Another takes it only when nobody has it, or when the one   *)
(* that has it is revoked or has been silent for six minutes.              *)
(***************************************************************************)
CONSTANTS
    Helpers,  \* connectors of one material system that report consumption
    None      \* nobody holds the authority

VARIABLES holder, silent, revoked

vars == <<holder, silent, revoked>>

Init == holder = None /\ silent = Helpers /\ revoked = {}

\* The holder no longer keeps the others out.
Vacant == holder \in {None} \union silent \union revoked

Take(h) ==
    /\ h # holder /\ h \notin revoked /\ Vacant
    /\ holder' = h
    /\ silent' \in {silent, silent \ {h}}
    /\ UNCHANGED revoked

Contact(h) ==
    /\ h \notin revoked
    /\ silent' = silent \ {h}
    /\ UNCHANGED <<holder, revoked>>

\* An accepted observation, even of a connector that was revoked meanwhile.
Observe(h) ==
    /\ silent' = silent \ {h} /\ revoked' = revoked \ {h}
    /\ UNCHANGED holder

FallSilent(h) ==
    /\ silent' = silent \union {h}
    /\ UNCHANGED <<holder, revoked>>

\* The owner's revocation takes the authority away, the device's own does not.
Revoke(h) ==
    /\ revoked' = revoked \union {h}
    /\ holder' \in {holder} \union (IF holder = h THEN {None} ELSE {})
    /\ UNCHANGED silent

PairAgain(h) ==
    /\ revoked' = revoked \ {h}
    /\ UNCHANGED <<holder, silent>>

Next ==
    \E h \in Helpers :
        \/ Take(h) \/ Contact(h) \/ Observe(h) \/ FallSilent(h) \/ Revoke(h) \/ PairAgain(h)

Spec == Init /\ [][Next]_vars
=============================================================================
