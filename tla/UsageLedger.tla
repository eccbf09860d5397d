---------------------------- MODULE UsageLedger ----------------------------
(***************************************************************************)
(* What one Edge connection promises the spool ledger of the cloud.        *)
(*                                                                         *)
(* `printed' is the amount of attributed filament the printer has produced *)
(* and `ledger' the sequence of intervals of it that were deducted.  Each  *)
(* deduction starts where the one before it ended and reaches no further   *)
(* than what was printed: nothing is deducted twice, nothing is skipped,   *)
(* nothing is invented, and no deduction is taken back or rewritten.       *)
(***************************************************************************)
EXTENDS Naturals, Sequences

VARIABLES printed, ledger

vars == <<printed, ledger>>

\* Where the deductions of a ledger end.
EndOf(l) == IF l = <<>> THEN 0 ELSE l[Len(l)].hi

Init == printed = 0 /\ ledger = <<>>

Extrude == printed' = printed + 1 /\ UNCHANGED ledger

Charge ==
    /\ \E hi \in (EndOf(ledger) + 1)..printed :
          ledger' = Append(ledger, [lo |-> EndOf(ledger), hi |-> hi])
    /\ UNCHANGED printed

Next == Extrude \/ Charge

Spec == Init /\ [][Next]_vars
=============================================================================
