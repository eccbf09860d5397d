---------------------------- MODULE UsageHandover ----------------------------
(***************************************************************************)
(* Several helpers watch one printer and report the same print.  Each has a *)
(* queue of segments of its own; the cloud deducts those of the holder of   *)
(* the usage authority and only acknowledges the others                     *)
(* (record_printer_bridge_usage_batch, process_printer_usage_event).        *)
(*                                                                         *)
(* The authority follows module UsageAuthorityRule, which UsageAuthority    *)
(* implements.  A delivery is one step here: that it is made once and in    *)
(* order is the subject of module UsageDelivery.  One print, one event in   *)
(* each batch, and a segment covers one interval (lo, hi] of its filament.  *)
(*                                                                         *)
(* Edge delivers its observation of the printer before anything else, and   *)
(* the cloud takes only those of the connector with the lowest id: another  *)
(* Edge of the same printer gets a 401 and stops there (run_cycle).         *)
(***************************************************************************)
EXTENDS Naturals, Sequences, FiniteSets, UsageHelpers

CONSTANTS
    Observers,   \* helpers the observation does not stop: that of the lowest connector id,
                 \* and clients that report consumption and observe nothing
    Burst,       \* batches a helper sends in one go: four
    MaxPrinted,  \* bound: filament printed
    MaxOutages,  \* bound: losses of a connection to the cloud
    MaxRevoked,  \* bound: revoked connectors
    MaxTenures   \* bound: takings of the authority by reading the desired snapshot

ASSUME ObserversAssumption == Observers \subseteq Helpers
ASSUME BurstAssumption == Burst \in Nat \ {0}

VARIABLES
    holder,     \* with silent and revoked: see UsageAuthorityRule
    printed,    \* filament printed so far
    offline,    \* helpers that do not reach the cloud
    pending,    \* helpers with a pending observation that the cloud will refuse
    queue,      \* each helper's usage outbox
    seen,       \* each helper's counter at its last segment
    made,       \* segments each helper has made of this print
    applied,    \* segments of each helper the cloud has recorded for the print job
    deducted,   \* for each unit of filament, how often it was deducted
    outages,    \* losses of a connection so far
    tenures     \* history: how often a helper took the authority

authorityState == <<holder, silent, revoked>>
helper == <<queue, seen, made>>
ledger == <<applied, deducted>>
handoverVars == <<authorityState, helper, ledger, printed, offline, pending, outages, tenures>>

Authority == INSTANCE UsageAuthorityRule

HandoverInit ==
    /\ Authority!Init
    /\ printed = 0
    /\ offline = {} /\ pending = {}
    /\ queue = [h \in Helpers |-> <<>>]
    /\ seen = [h \in Helpers |-> 0]
    /\ made = [h \in Helpers |-> 0]
    /\ applied = [h \in Helpers |-> 0]
    /\ deducted = [n \in 1..MaxPrinted |-> 0]
    /\ outages = 0
    /\ tenures = 0

-----------------------------------------------------------------------------
(* The printer and the helpers. *)

Extrude ==
    /\ printed < MaxPrinted
    /\ printed' = printed + 1
    /\ UNCHANGED <<authorityState, helper, ledger, offline, pending, outages, tenures>>

\* The observation of the printer is put by for the next delivery.
Observe(h) == pending' = pending \union ({h} \ Observers)

\* A refused observation ends the cycle before the printer is asked; without the cloud
\* the cycle goes on.
Samples(h) == h \in pending => h \in offline

\* A sample that is worth no checkpoint.
Sample(h) ==
    /\ Samples(h) /\ Observe(h)
    /\ UNCHANGED <<authorityState, helper, ledger, printed, offline, outages, tenures>>

\* A checkpoint of the print is put into the helper's outbox.
Capture(h) ==
    /\ Samples(h) /\ seen[h] < printed
    /\ queue' = [queue EXCEPT ![h] =
                    Append(@, [segment |-> made[h] + 1, lo |-> seen[h], hi |-> printed])]
    /\ seen' = [seen EXCEPT ![h] = printed]
    /\ made' = [made EXCEPT ![h] = @ + 1]
    /\ Observe(h)
    /\ UNCHANGED <<authorityState, ledger, printed, offline, outages, tenures>>

LoseConnection(h) ==
    /\ h \notin offline /\ outages < MaxOutages
    /\ offline' = offline \union {h}
    /\ outages' = outages + 1
    /\ UNCHANGED <<authorityState, helper, ledger, printed, pending, tenures>>

Reconnect(h) ==
    /\ h \in offline
    /\ offline' = offline \ {h}
    /\ UNCHANGED <<authorityState, helper, ledger, printed, pending, outages, tenures>>

\* A helper that gets through to the cloud sends a heartbeat in every cycle; only one that
\* does not is silent for six minutes.
GoSilent(h) ==
    /\ h \in offline \union pending
    /\ Authority!FallSilent(h)
    /\ UNCHANGED <<helper, ledger, printed, offline, pending, outages, tenures>>

Revoke(h) ==
    /\ h \notin revoked /\ Cardinality(revoked) < MaxRevoked
    /\ Authority!Revoke(h)
    /\ UNCHANGED <<helper, ledger, printed, offline, pending, outages, tenures>>

-----------------------------------------------------------------------------
(* The requests of a helper. *)

Reaches(h) == h \notin offline \union revoked

\* Nothing else is sent before the pending observation is taken.
GetsThrough(h) == Reaches(h) /\ h \notin pending

SendHeartbeat(h) ==
    /\ GetsThrough(h) /\ h \in silent
    /\ Authority!Contact(h)
    /\ UNCHANGED <<helper, ledger, printed, offline, pending, outages, tenures>>

\* Slip: silence is not asked for, an authority is taken from any holder.
Applies_Always(h) == TRUE

\* hold_usage_authority answers True.
Applies(h) == holder = h \/ Authority!Vacant

\* Slip: the connector applies its reports, but is not recorded as the holder.
Hold_NotRecorded(h) == UNCHANGED <<holder, tenures>>

Hold(h) ==
    /\ holder' = h
    /\ tenures' = IF holder = h THEN tenures ELSE tenures + 1

\* Slip: an acknowledged batch stays in the outbox.
Pop_Kept(h) == UNCHANGED queue

\* _flush_usage_outbox after a 200 answer.
Pop(h) == queue' = [queue EXCEPT ![h] = Tail(@)]

\* Slip: the segment sequence is not compared.
Expected_Any(h) == TRUE

\* process_printer_usage_event takes a job's segments in order, counting those it has
\* recorded.
Expected(h) == Head(queue[h]).segment = applied[h] + 1

\* The batch is deducted, by the holder or by a helper that takes the authority with
\* it.  Any other segment than the expected one is refused and the transaction is
\* rolled back, the taking of the authority included.
Deduct(h) ==
    /\ GetsThrough(h) /\ queue[h] # <<>> /\ Applies(h) /\ Expected(h)
    /\ Hold(h) /\ silent' = silent \ {h} /\ UNCHANGED revoked
    /\ deducted' = [n \in DOMAIN deducted |->
                       IF n \in (Head(queue[h]).lo + 1)..Head(queue[h]).hi
                          THEN deducted[n] + 1 ELSE deducted[n]]
    /\ applied' = [applied EXCEPT ![h] = @ + 1]
    /\ Pop(h)
    /\ UNCHANGED <<seen, made, printed, offline, pending, outages>>

\* Somebody else holds the authority: the batch is acknowledged and not deducted.
Acknowledge(h) ==
    /\ GetsThrough(h) /\ queue[h] # <<>> /\ ~Applies(h)
    /\ Authority!Contact(h)
    /\ Pop(h)
    /\ UNCHANGED <<seen, made, ledger, printed, offline, pending, outages, tenures>>

\* build_printer_bridge_desired_snapshot: reading the desired snapshot may take the
\* authority.  Edge reads it after it has sent a burst of batches; the rest stays queued
\* (run_cycle).  Here a helper with a queue reads it whenever it has sent so many at all.
PullDesired(h) ==
    /\ GetsThrough(h) /\ tenures < MaxTenures
    /\ queue[h] # <<>> => made[h] - Len(queue[h]) >= Burst
    /\ h # holder /\ Applies(h)
    /\ Hold(h) /\ UNCHANGED <<silent, revoked>>
    /\ UNCHANGED <<helper, ledger, printed, offline, pending, outages>>

-----------------------------------------------------------------------------
HandoverNext ==
    \/ Extrude
    \/ \E h \in Helpers :
          \/ Sample(h) \/ Capture(h)
          \/ LoseConnection(h) \/ Reconnect(h) \/ GoSilent(h) \/ Revoke(h)
          \/ SendHeartbeat(h) \/ Deduct(h) \/ Acknowledge(h) \/ PullDesired(h)

HandoverSpec == HandoverInit /\ [][HandoverNext]_handoverVars

\* A helper that runs goes through its cycle again and again, and one that gets through
\* delivers in it.
HandoverFairness ==
    \A h \in Helpers :
        /\ WF_handoverVars(SendHeartbeat(h))
        /\ WF_handoverVars(Deduct(h)) /\ WF_handoverVars(Acknowledge(h))

HandoverFairSpec == HandoverSpec /\ HandoverFairness

-----------------------------------------------------------------------------
(* Properties. *)

Segment == [segment : Nat, lo : Nat, hi : Nat]

\* The values of the variables; a helper's segments are recorded at most once each.
HandoverTypeOK ==
    /\ holder \in Helpers \union {None} /\ silent \subseteq Helpers /\ revoked \subseteq Helpers
    /\ printed \in Nat /\ outages \in Nat /\ tenures \in Nat
    /\ offline \subseteq Helpers /\ pending \subseteq Helpers \ Observers
    /\ queue \in [Helpers -> Seq(Segment)]
    /\ seen \in [Helpers -> Nat] /\ made \in [Helpers -> Nat] /\ applied \in [Helpers -> Nat]
    /\ \A h \in Helpers : applied[h] + Len(queue[h]) <= made[h]
    /\ deducted \in [1..MaxPrinted -> Nat]

\* Batches and reads of the desired snapshot move the authority only as the rule allows
\* that UsageAuthority implements: this joins the two modules.
FollowsRule == Authority!Spec

\* Filament is deducted again only after the authority has passed to another helper: once
\* at most for each time a helper took it.
OncePerTenure == \A n \in DOMAIN deducted : deducted[n] <= tenures

\* A helper that had a segment acknowledged without deduction never has a later one of
\* that print deducted: what is recorded for its print job has no gap.
NoGapInJob ==
    [][\A h \in Helpers :
          applied'[h] > applied[h] => made[h] - Len(queue[h]) = applied[h]]_handoverVars

\* A second helper's queue drains, as long as its requests get through and the holder
\* stays in contact and is not revoked (the comment in record_printer_bridge_usage_batch).
SecondDrains ==
    \A h \in Helpers :
        <>[](GetsThrough(h) /\ ~Applies(h)) => []<>(queue[h] = <<>>)

\* The same comment without the condition on the holder, for a helper whose observations
\* are taken: its queue drains whenever it reaches the cloud.
QueueDrains == \A h \in Observers : <>[]Reaches(h) => []<>(queue[h] = <<>>)

\* "so two helpers watching one printer never deduct the same print twice" (the
\* docstring of hold_usage_authority).
NeverDeductTwice == \A n \in DOMAIN deducted : deducted[n] <= 1
=============================================================================
