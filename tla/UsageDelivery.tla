--------------------------- MODULE UsageDelivery ---------------------------
(***************************************************************************)
(* The usage path of one Edge connection: the runtime's memory, its state  *)
(* file, the HTTP exchange, and the receipts and spool ledger of the cloud *)
(* (edge-agent runtime.py, state.py, storage.py, node.py, cloud.py; backend *)
(* printer_bridge_service.record_printer_bridge_usage_batch).              *)
(*                                                                         *)
(* A batch carries one interval (lo, hi] of the filament the tracker has   *)
(* attributed to a spool; several events of one batch are one interval     *)
(* here.  `stamp' stands for observed_at: two captures never have the same *)
(* payload, even when they cover the same interval.  The helper holds the  *)
(* usage authority throughout (module UsageAuthority is about the rest).   *)
(***************************************************************************)
EXTENDS Naturals, Sequences

CONSTANTS
    MaxOutbox,    \* MAX_USAGE_OUTBOX_BATCHES of state.py (1024)
    MaxSequence,  \* bound: batches (MAX_SNAPSHOT_SEQUENCE, 2^63 - 1, is never reached)
    MaxPrinted,   \* bound: filament produced
    MaxCrashes,   \* bound: process crashes
    SaveCanFail,  \* whether StateStore.save may raise StateError
    NoCall        \* no request is waiting for its answer

ASSUME BoundsAssumption ==
    /\ MaxOutbox \in Nat /\ MaxSequence \in Nat
    /\ MaxPrinted \in Nat /\ MaxCrashes \in Nat
    /\ SaveCanFail \in BOOLEAN

Batch == [sequence : Nat, lo : Nat, hi : Nat, stamp : Nat]

ASSUME NoCallAssumption == NoCall \notin Batch

VARIABLES
    printed,   \* filament the printer has produced (attributed part)
    up,        \* the Edge process runs
    mem,       \* EdgeState in memory: sequence, outbox and usage mark
    disk,      \* the same fields in the state file
    call,      \* the batch of the request being waited for, or NoCall
    answer,    \* what the cloud has answered to it so far
    late,      \* abandoned requests the cloud may still process
    receipts,  \* cloud: batch receipts, by sequence
    ledger,    \* cloud: deductions
    stamp,     \* the clock behind observed_at
    crashes    \* crashes so far

edge == <<up, mem, disk, stamp, crashes>>
wire == <<call, answer, late>>
cloud == <<receipts, ledger>>
vars == <<printed, edge, wire, cloud>>

\* The part of EdgeState the usage path keeps.  `mark' is how far the tracker
\* has turned filament into events (its counter less its pending length).
EdgeState == [sequence : Nat, outbox : Seq(Batch), mark : Nat]

EmptyState == [sequence |-> 0, outbox |-> <<>>, mark |-> 0]

Init ==
    /\ printed = 0
    /\ up = TRUE
    /\ mem = EmptyState
    /\ disk = EmptyState
    /\ call = NoCall
    /\ answer = "none"
    /\ late = {}
    /\ receipts = <<>>
    /\ ledger = <<>>
    /\ stamp = 0
    /\ crashes = 0

-----------------------------------------------------------------------------
(* The printer. *)

Extrude ==
    /\ printed < MaxPrinted
    /\ printed' = printed + 1
    /\ UNCHANGED <<edge, wire, cloud>>

-----------------------------------------------------------------------------
(* The Edge runtime.  It has one thread per connection and a synchronous    *)
(* client: while a request is out, nothing else runs.                       *)

Idle == up /\ call = NoCall

\* StateStore.save: the file is replaced atomically, or it is left alone.
Save(state) == disk' = state \/ (SaveCanFail /\ disk' = disk)

\* Slip: the sequence is taken from the queue instead of the durable watermark.
NewBatch_QueueLength(state) ==
    [sequence |-> Len(state.outbox) + 1, lo |-> state.mark,
     hi |-> printed, stamp |-> stamp]

NewBatch(state) ==
    [sequence |-> state.sequence + 1, lo |-> state.mark,
     hi |-> printed, stamp |-> stamp]

\* Slip: the limit of the queue is not checked before capturing.
Capture_Unlimited ==
    /\ Idle
    /\ printed > mem.mark
    /\ mem.sequence < MaxSequence
    /\ mem' = [sequence |-> mem.sequence + 1,
               outbox   |-> Append(mem.outbox, NewBatch(mem)),
               mark     |-> printed]
    /\ Save(mem')
    /\ stamp' = stamp + 1
    /\ UNCHANGED <<printed, up, crashes, wire, cloud>>

\* Slip: the new batch is saved only at the end of the cycle.
Capture_SavedLater ==
    /\ Idle
    /\ printed > mem.mark
    /\ Len(mem.outbox) < MaxOutbox
    /\ mem.sequence < MaxSequence
    /\ mem' = [sequence |-> mem.sequence + 1,
               outbox   |-> Append(mem.outbox, NewBatch(mem)),
               mark     |-> printed]
    /\ stamp' = stamp + 1
    /\ UNCHANGED <<printed, up, disk, crashes, wire, cloud>>

\* run_cycle, _checkpoint_without_provider and _enqueue_usage_batch.  The state in
\* memory is advanced before it is saved, and stays advanced if saving fails.
Capture ==
    /\ Idle
    /\ printed > mem.mark
    /\ Len(mem.outbox) < MaxOutbox
    /\ mem.sequence < MaxSequence
    /\ mem' = [sequence |-> mem.sequence + 1,
               outbox   |-> Append(mem.outbox, NewBatch(mem)),
               mark     |-> printed]
    /\ Save(mem')
    /\ stamp' = stamp + 1
    /\ UNCHANGED <<printed, up, crashes, wire, cloud>>

\* The save at the end of every cycle (node._cycle), and of a cycle without events.
EndCycle ==
    /\ Idle
    /\ disk # mem
    /\ disk' = mem
    /\ UNCHANGED <<printed, up, mem, stamp, crashes, wire, cloud>>

\* _flush_usage_outbox: the head of the queue is sent.
Send ==
    /\ Idle
    /\ mem.outbox # <<>>
    /\ call' = Head(mem.outbox)
    /\ answer' = "none"
    /\ UNCHANGED <<printed, edge, late, cloud>>

\* A 200 answer that names this batch: it leaves the queue, and that is saved.
ReceiveAck ==
    /\ up /\ call # NoCall /\ answer = "ack"
    /\ mem' = [mem EXCEPT !.outbox = Tail(@)]
    /\ Save(mem')
    /\ call' = NoCall
    /\ answer' = "none"
    /\ UNCHANGED <<printed, up, stamp, crashes, late, cloud>>

\* Slip: a refused batch is dropped so that the queue moves on.
ReceiveRefusal_Dropped ==
    /\ up /\ call # NoCall /\ answer = "refused"
    /\ mem' = [mem EXCEPT !.outbox = Tail(@)]
    /\ Save(mem')
    /\ call' = NoCall
    /\ answer' = "none"
    /\ UNCHANGED <<printed, up, stamp, crashes, late, cloud>>

\* Any other status raises HttpRequestError: the batch stays at the head.
ReceiveRefusal ==
    /\ up /\ call # NoCall /\ answer = "refused"
    /\ call' = NoCall
    /\ answer' = "none"
    /\ UNCHANGED <<printed, edge, late, cloud>>

\* What becomes of a request nobody waits for any longer: if the cloud has not
\* processed it, it is lost or will still arrive.
Abandon ==
    /\ late' \in IF call # NoCall /\ answer = "none"
                    THEN {late, late \union {call}} ELSE {late}
    /\ call' = NoCall
    /\ answer' = "none"

\* The request or its answer was lost, or came too late for the client.
Timeout ==
    /\ up /\ call # NoCall
    /\ Abandon
    /\ UNCHANGED <<printed, edge, cloud>>

Crash ==
    /\ up
    /\ crashes < MaxCrashes
    /\ up' = FALSE
    /\ crashes' = crashes + 1
    /\ Abandon
    /\ UNCHANGED <<printed, mem, disk, stamp, cloud>>

\* node._build: the state is what StateStore.load reads, and it is saved again.
Restart ==
    /\ ~up
    /\ up' = TRUE
    /\ mem' = disk
    /\ UNCHANGED <<printed, disk, stamp, crashes, wire, cloud>>

-----------------------------------------------------------------------------
(* The cloud: record_printer_bridge_usage_batch is one transaction under a  *)
(* row lock on the connector, so each request is one step.                  *)

ExpectedSequence == Len(receipts) + 1

Known(b) == b.sequence \in DOMAIN receipts

\* Slip: a known sequence is acknowledged whatever its payload.
Verdict_AnyPayload(b) ==
    IF Known(b) \/ b.sequence = ExpectedSequence THEN "ack" ELSE "refused"

\* Slip: a replay is not answered from its receipt.
Verdict_NoReplay(b) ==
    IF b.sequence = ExpectedSequence THEN "ack" ELSE "refused"

\* A replay is answered from its receipt, a changed payload under a known
\* sequence is a conflict, and a new batch must be the next one.
Verdict(b) ==
    IF Known(b)
       THEN IF receipts[b.sequence] = b THEN "ack" ELSE "refused"
       ELSE IF b.sequence = ExpectedSequence THEN "ack" ELSE "refused"

\* Slip: the receipts are not consulted before the deduction.
RecordBatch_NoReceiptCheck(b) ==
    /\ receipts' = Append(receipts, b)
    /\ ledger' = Append(ledger, [lo |-> b.lo, hi |-> b.hi])

RecordBatch(b) ==
    IF ~Known(b) /\ b.sequence = ExpectedSequence
       THEN /\ receipts' = Append(receipts, b)
            /\ ledger' = Append(ledger, [lo |-> b.lo, hi |-> b.hi])
       ELSE UNCHANGED cloud

Serve ==
    /\ call # NoCall /\ answer = "none"
    /\ RecordBatch(call)
    /\ answer' = Verdict(call)
    /\ UNCHANGED <<printed, edge, call, late>>

\* An abandoned request arrives after all; nobody reads its answer.
ServeLate ==
    /\ \E b \in late : RecordBatch(b) /\ late' = late \ {b}
    /\ UNCHANGED <<printed, edge, call, answer>>

-----------------------------------------------------------------------------
Next ==
    \/ Extrude
    \/ Capture \/ EndCycle \/ Send \/ ReceiveAck \/ ReceiveRefusal
    \/ Timeout \/ Crash \/ Restart
    \/ Serve \/ ServeLate

Spec == Init /\ [][Next]_vars

\* The worker loop retries for ever (node._worker) and the supervisor restarts the
\* process.  A request that is sent again and again is served and answered in time
\* again and again: the network and the cloud recover.
Fairness ==
    /\ WF_vars(Capture) /\ WF_vars(Send) /\ WF_vars(Restart)
    /\ SF_vars(Serve) /\ SF_vars(ReceiveAck) /\ WF_vars(ReceiveRefusal)

FairSpec == Spec /\ Fairness

-----------------------------------------------------------------------------
(* Properties. *)

\* The values of the variables, and the limits of state.py.
TypeOK ==
    /\ printed \in Nat /\ stamp \in Nat /\ crashes \in Nat
    /\ up \in BOOLEAN
    /\ mem \in EdgeState /\ disk \in EdgeState
    /\ Len(mem.outbox) <= MaxOutbox /\ Len(disk.outbox) <= MaxOutbox
    /\ mem.sequence <= MaxSequence /\ disk.sequence <= MaxSequence
    /\ call \in Batch \union {NoCall}
    /\ answer \in {"none", "ack", "refused"}
    /\ late \subseteq Batch
    /\ receipts \in Seq(Batch)
    /\ ledger \in Seq([lo : Nat, hi : Nat])

\* Deductions follow each other without overlap or gap and stay within what was
\* printed, whatever was lost, sent twice, crashed or not saved (the batch and
\* sequence receipts of printer_bridge_service.py).
LedgerInOrder ==
    /\ \A i \in 1..Len(ledger) :
          /\ ledger[i].lo = (IF i = 1 THEN 0 ELSE ledger[i - 1].hi)
          /\ ledger[i].lo < ledger[i].hi
          /\ ledger[i].hi <= printed

Covers(b, n) == b.lo < n /\ n <= b.hi

\* All filament the state file has turned into events is deducted or still in
\* the file's queue: no lost answer, refusal or crash discards evidence.
EvidenceConserved ==
    \A n \in 1..disk.mark :
        \/ \E i \in 1..Len(ledger) : Covers(ledger[i], n)
        \/ \E i \in 1..Len(disk.outbox) : Covers(disk.outbox[i], n)

\* The state file always passes the outbox checks of StateStore.load, so that a
\* restart never finds a file its own process wrote to be invalid.
DiskLoads ==
    \A i \in 1..Len(disk.outbox) :
        /\ disk.outbox[i].sequence > (IF i = 1 THEN 0 ELSE disk.outbox[i - 1].sequence)
        /\ disk.outbox[i].sequence <= disk.sequence

\* As long as saving works, the cloud takes the batch at the head of the queue: no
\* sequence of losses, timeouts, late requests and restarts leaves the queue stuck
\* behind a batch that is refused for ever.
HeadNeverRefused ==
    (up /\ mem.outbox # <<>>) => Verdict(Head(mem.outbox)) = "ack"

\* What was captured durably is deducted in the end: the worker's retries drain the
\* queue after any number of lost requests and answers, and across restarts.
Delivered ==
    \A n \in 1..MaxPrinted :
        (disk.mark >= n) ~> (\E i \in 1..Len(ledger) : Covers(ledger[i], n))

\* The delivery path implements the abstract ledger: seen from the spool, the retries,
\* crashes, late requests and failed saves of runtime.py and the receipts of the cloud
\* come to deductions made once each and in order.
Ledger == INSTANCE UsageLedger
ImplementsLedger == Ledger!Spec
=============================================================================
