------------------------ MODULE UsageDeliveryProofs ------------------------
(***************************************************************************)
(* Proofs about UsageDelivery for every value of its constants.            *)
(***************************************************************************)
EXTENDS UsageDelivery, Induction, SequenceTheorems, TLAPS

-----------------------------------------------------------------------------
(* Type correctness, together with the fact that a request is only out while *)
(* the process runs and its queue is not empty.                             *)

TypeInv ==
    /\ TypeOK
    /\ call # NoCall => up /\ mem.outbox # <<>>

\* An image of EdgeState within the limits of state.py.
Image == {p \in EdgeState : Len(p.outbox) <= MaxOutbox /\ p.sequence <= MaxSequence}

Interval == [lo : Nat, hi : Nat]

\* Saving leaves either the new image or the old one in the file.
LEMMA SaveType ==
    ASSUME NEW state \in Image, disk \in Image, Save(state)
    PROVE  disk' \in Image
BY DEF Save

\* Abandoning a request only moves it to the late ones.
LEMMA AbandonType ==
    ASSUME TypeOK, Abandon
    PROVE  /\ call' = NoCall /\ answer' = "none"
           /\ late' \subseteq Batch
           /\ late' \subseteq late \union (IF call = NoCall THEN {} ELSE {call})
BY DEF Abandon, TypeOK

\* A step of the cloud keeps the types of the receipts and the ledger.
LEMMA RecordBatchType ==
    ASSUME receipts \in Seq(Batch), ledger \in Seq(Interval),
           NEW b \in Batch, RecordBatch(b)
    PROVE  receipts' \in Seq(Batch) /\ ledger' \in Seq(Interval)
<1>1. [lo |-> b.lo, hi |-> b.hi] \in Interval
  BY DEF Batch, Interval
<1>2. CASE ~Known(b) /\ b.sequence = ExpectedSequence
  <2>1. receipts' = Append(receipts, b) /\ ledger' = Append(ledger, [lo |-> b.lo, hi |-> b.hi])
    BY <1>2 DEF RecordBatch
  <2>2. receipts' \in Seq(Batch)
    BY <2>1
  <2>3. ledger' \in Seq(Interval)
    BY <2>1, <1>1
  <2> QED BY <2>2, <2>3
<1>3. CASE ~(~Known(b) /\ b.sequence = ExpectedSequence)
  BY <1>3 DEF RecordBatch, cloud
<1> QED BY <1>2, <1>3

\* The batch a capture creates.
LEMMA NewBatchType ==
    ASSUME TypeOK
    PROVE  NewBatch(mem) \in Batch
BY DEF TypeOK, NewBatch, Batch, EdgeState

LEMMA TypeInit == Init => TypeInv
BY BoundsAssumption DEF Init, TypeInv, TypeOK, EmptyState, EdgeState

LEMMA TypeStep == TypeInv /\ [Next]_vars => TypeInv'
<1> SUFFICES ASSUME TypeInv, [Next]_vars PROVE TypeInv'
  OBVIOUS
<1> USE BoundsAssumption
<1>0. TypeOK /\ mem \in Image /\ disk \in Image
  BY DEF TypeInv, TypeOK, Image
<1>1. CASE Extrude
  BY <1>1 DEF Extrude, TypeInv, TypeOK, edge, wire, cloud
<1>2. CASE Capture
  <2> DEFINE q == Append(mem.outbox, NewBatch(mem))
  <2>a. mem.outbox \in Seq(Batch) /\ mem.sequence \in Nat /\ printed \in Nat
    BY <1>0 DEF TypeOK, EdgeState
  <2>b. q \in Seq(Batch) /\ Len(q) = Len(mem.outbox) + 1
    BY <2>a, <1>0, NewBatchType
  <2>1. q # <<>>
    BY <2>a, <2>b, SMTT(30)
  <2>2. mem' \in Image
    <3>1. mem' = [sequence |-> mem.sequence + 1, outbox |-> q, mark |-> printed]
      BY <1>2 DEF Capture
    <3>2. mem.sequence + 1 <= MaxSequence /\ Len(mem.outbox) + 1 <= MaxOutbox
      BY <1>2, <2>a DEF Capture
    <3>3. mem' \in EdgeState
      BY <2>a, <2>b, <3>1 DEF EdgeState
    <3> QED BY <2>b, <3>1, <3>2, <3>3 DEF Image
  <2>3. disk' \in Image
    BY <1>0, <1>2, <2>2, SaveType DEF Capture
  <2>4. stamp' \in Nat /\ UNCHANGED <<printed, up, crashes, wire, cloud>>
    BY <1>2 DEF Capture, TypeInv, TypeOK
  <2>5. mem'.outbox # <<>>
    BY <1>2, <2>1 DEF Capture
  <2> QED BY <1>0, <2>2, <2>3, <2>4, <2>5 DEF TypeInv, TypeOK, Image, wire, cloud
<1>3. CASE EndCycle
  BY <1>3 DEF EndCycle, TypeInv, TypeOK, wire, cloud
<1>4. CASE Send
  <2>1. Head(mem.outbox) \in Batch
    BY <1>0, <1>4 DEF Send, TypeOK, EdgeState
  <2> QED BY <1>4, <2>1 DEF Send, Idle, TypeInv, TypeOK, edge, cloud
<1>5. CASE ReceiveAck
  <2>1. /\ Tail(mem.outbox) \in Seq(Batch)
        /\ Len(Tail(mem.outbox)) = Len(mem.outbox) - 1
    BY <1>5 DEF ReceiveAck, TypeInv, TypeOK, EdgeState
  <2>2. mem' \in Image
    <3>1. mem' = [mem EXCEPT !.outbox = Tail(@)]
      BY <1>5 DEF ReceiveAck
    <3>2. mem' \in EdgeState /\ mem'.outbox = Tail(mem.outbox) /\ mem'.sequence = mem.sequence
      BY <1>0, <2>1, <3>1 DEF EdgeState, Image
    <3>3. Len(mem.outbox) <= MaxOutbox /\ mem.sequence <= MaxSequence /\ Len(mem.outbox) \in Nat
      BY <1>0 DEF EdgeState, Image
    <3>4. Len(mem'.outbox) <= MaxOutbox /\ mem'.sequence <= MaxSequence
      BY <2>1, <3>2, <3>3
    <3> QED BY <3>2, <3>4 DEF Image
  <2>3. disk' \in Image
    BY <1>0, <1>5, <2>2, SaveType DEF ReceiveAck
  <2>4. call' = NoCall /\ answer' = "none" /\ UNCHANGED <<printed, up, stamp, crashes, late, cloud>>
    BY <1>5 DEF ReceiveAck
  <2> QED BY <1>0, <2>2, <2>3, <2>4 DEF TypeInv, TypeOK, Image, cloud
<1>6. CASE ReceiveRefusal
  BY <1>6 DEF ReceiveRefusal, TypeInv, TypeOK, edge, cloud
<1>7. CASE Timeout
  BY <1>0, <1>7, AbandonType DEF Timeout, TypeInv, TypeOK, edge, cloud
<1>8. CASE Crash
  <2>1. call' = NoCall /\ answer' = "none" /\ late' \subseteq Batch
    BY <1>0, <1>8, AbandonType DEF Crash
  <2>2. /\ UNCHANGED <<printed, mem, disk, stamp, cloud>>
        /\ crashes' \in Nat
    BY <1>0, <1>8 DEF Crash, TypeOK
  <2>3. up' \in BOOLEAN
    BY <1>8, Zenon DEF Crash
  <2> QED BY <1>0, <2>1, <2>2, <2>3 DEF TypeInv, TypeOK, cloud
<1>9. CASE Restart
  BY <1>0, <1>9 DEF Restart, TypeInv, TypeOK, Idle, wire, cloud
<1>10. CASE Serve
  <2>1. call \in Batch
    BY <1>0, <1>10 DEF Serve, TypeOK
  <2>2. receipts' \in Seq(Batch) /\ ledger' \in Seq(Interval)
    BY <1>0, <1>10, <2>1, RecordBatchType DEF Serve, TypeOK, Interval
  <2>3. answer' \in {"none", "ack", "refused"}
    BY <1>10 DEF Serve, Verdict
  <2> QED BY <1>10, <2>2, <2>3 DEF Serve, TypeInv, TypeOK, edge, Interval
<1>11. CASE ServeLate
  <2>1. PICK b \in late : RecordBatch(b) /\ late' = late \ {b}
    BY <1>11 DEF ServeLate
  <2>2. receipts' \in Seq(Batch) /\ ledger' \in Seq(Interval)
    BY <1>0, <2>1, RecordBatchType DEF TypeOK, Interval
  <2> QED BY <1>11, <2>1, <2>2 DEF ServeLate, TypeInv, TypeOK, edge, Interval
<1>12. CASE UNCHANGED vars
  BY <1>12 DEF TypeInv, TypeOK, vars, edge, wire, cloud
<1> QED
  BY <1>1, <1>2, <1>3, <1>4, <1>5, <1>6, <1>7, <1>8, <1>9, <1>10, <1>11, <1>12 DEF Next

\* The variables keep their types and the queue never exceeds the limit of state.py,
\* in memory and in the state file, whatever is lost, crashes or is not saved.
THEOREM TypeCorrect == Spec => []TypeOK
<1>1. TypeInv => TypeOK
  BY DEF TypeInv
<1> QED BY <1>1, TypeInit, TypeStep, PTL DEF Spec

-----------------------------------------------------------------------------
(* The inductive invariant.  The receipts 1..s of the cloud are a chain of  *)
(* intervals, and everything that may still be sent continues that chain at *)
(* the place its sequence says.                                            *)

\* Receipts 1..s of r exist and end at n.
Link(r, s, n) ==
    /\ s \in 0..Len(r)
    /\ n = IF s = 0 THEN 0 ELSE r[s].hi

\* Batch b continues the chain of receipts r, within what was printed.
Continues(b, r, n) ==
    /\ b.sequence >= 1
    /\ Link(r, b.sequence - 1, b.lo)
    /\ b.lo < b.hi
    /\ b.hi <= n

\* The sequence of the last batch that has left the queue of p.
Acked(p) == p.sequence - Len(p.outbox)

\* The queue of p is a chain that starts where the acknowledged receipts end and
\* ends at the mark of p.
QueueChained(p, r, n) ==
    /\ Len(p.outbox) <= p.sequence
    /\ p.mark <= n
    /\ Link(r, Acked(p), IF p.outbox = <<>> THEN p.mark ELSE p.outbox[1].lo)
    /\ \A i \in 1..Len(p.outbox) :
          /\ p.outbox[i].sequence = Acked(p) + i
          /\ p.outbox[i].lo < p.outbox[i].hi
          /\ p.outbox[i].hi <= n
          /\ i < Len(p.outbox) => p.outbox[i].hi = p.outbox[i + 1].lo
          /\ i = Len(p.outbox) => p.outbox[i].hi = p.mark

ReceiptsChained(r, n) ==
    \A i \in 1..Len(r) : r[i].sequence = i /\ Continues(r[i], r, n)

\* Every deduction has its receipt.
LedgerHasReceipts(l, r) ==
    /\ Len(l) = Len(r)
    /\ \A i \in 1..Len(l) : l[i] = [lo |-> r[i].lo, hi |-> r[i].hi]

\* The request that is out is the head of the queue, and an acknowledged one has
\* its receipt.
CallIsHead ==
    call # NoCall =>
        /\ call = Head(mem.outbox)
        /\ answer = "ack" => Known(call) /\ receipts[call.sequence] = call

IInv ==
    /\ TypeInv
    /\ ReceiptsChained(receipts, printed)
    /\ LedgerHasReceipts(ledger, receipts)
    /\ QueueChained(mem, receipts, printed)
    /\ QueueChained(disk, receipts, printed)
    /\ CallIsHead
    /\ \A b \in late : Continues(b, receipts, printed)

-----------------------------------------------------------------------------
(* Lemmas about chains. *)

Extends(r, r2) == Len(r) <= Len(r2) /\ \A i \in 1..Len(r) : r2[i] = r[i]

\* A link to the receipts stays one when receipts are added.
LEMMA LinkGrows ==
    ASSUME NEW r \in Seq(Batch), NEW r2 \in Seq(Batch), Extends(r, r2),
           NEW s, NEW n, Link(r, s, n)
    PROVE  Link(r2, s, n)
BY DEF Extends, Link

LEMMA ContinuesGrows ==
    ASSUME NEW r \in Seq(Batch), NEW r2 \in Seq(Batch), Extends(r, r2),
           NEW m \in Nat, NEW n \in Nat, m <= n,
           NEW b \in Batch, Continues(b, r, m)
    PROVE  Continues(b, r2, n)
BY LinkGrows DEF Continues, Batch

LEMMA QueueGrows ==
    ASSUME NEW r \in Seq(Batch), NEW r2 \in Seq(Batch), Extends(r, r2),
           NEW m \in Nat, NEW n \in Nat, m <= n,
           NEW p \in EdgeState, QueueChained(p, r, m)
    PROVE  QueueChained(p, r2, n)
<1>1. Link(r2, Acked(p), IF p.outbox = <<>> THEN p.mark ELSE p.outbox[1].lo)
  BY LinkGrows DEF QueueChained
<1>2. p.mark <= n
  BY DEF QueueChained, EdgeState
<1>3. ASSUME NEW i \in 1..Len(p.outbox) PROVE p.outbox[i].hi <= n
  <2>1. p.outbox[i].hi <= m
    BY DEF QueueChained
  <2>2. p.outbox[i] \in Batch
    BY DEF EdgeState
  <2>3. p.outbox[i].hi \in Nat
    BY <2>2 DEF Batch
  <2> QED BY <2>1, <2>3
<1> QED BY <1>1, <1>2, <1>3 DEF QueueChained

\* The head of a chained queue continues the receipts.
LEMMA HeadContinues ==
    ASSUME NEW r \in Seq(Batch), NEW n \in Nat,
           NEW p \in EdgeState, QueueChained(p, r, n), p.outbox # <<>>
    PROVE  /\ Head(p.outbox) \in Batch /\ Head(p.outbox) = p.outbox[1]
           /\ Head(p.outbox).sequence = Acked(p) + 1
           /\ Continues(Head(p.outbox), r, n)
<1>1. p.outbox \in Seq(Batch) /\ Len(p.outbox) \in Nat /\ Len(p.outbox) >= 1 /\ p.sequence \in Nat
  BY DEF EdgeState
<1>2. Head(p.outbox) = p.outbox[1] /\ p.outbox[1] \in Batch /\ 1 \in 1..Len(p.outbox)
  BY <1>1
<1>3. /\ p.outbox[1].sequence = Acked(p) + 1
      /\ p.outbox[1].lo < p.outbox[1].hi
      /\ p.outbox[1].hi <= n
      /\ Link(r, Acked(p), p.outbox[1].lo)
  BY <1>2 DEF QueueChained
<1>4. Acked(p) \in Nat
  BY <1>3 DEF Link
<1> QED BY <1>2, <1>3, <1>4 DEF Continues

\* Removing an acknowledged head keeps the queue chained to the receipts.
LEMMA PopChained ==
    ASSUME NEW r \in Seq(Batch), NEW n \in Nat,
           NEW p \in EdgeState, QueueChained(p, r, n), p.outbox # <<>>,
           NEW q \in EdgeState,
           q.sequence = p.sequence, q.mark = p.mark, q.outbox = Tail(p.outbox),
           Head(p.outbox).sequence \in 1..Len(r),
           r[Head(p.outbox).sequence] = Head(p.outbox)
    PROVE  QueueChained(q, r, n)
<1>1. /\ p.outbox \in Seq(Batch) /\ Len(p.outbox) \in Nat /\ Len(p.outbox) >= 1
      /\ p.sequence \in Nat /\ p.mark \in Nat
  BY DEF EdgeState
<1>2. /\ Len(q.outbox) = Len(p.outbox) - 1
      /\ \A i \in 1..Len(q.outbox) : q.outbox[i] = p.outbox[i + 1]
      /\ q.outbox = <<>> <=> Len(q.outbox) = 0
  <2>1. q.outbox \in Seq(Batch) /\ Len(q.outbox) = Len(p.outbox) - 1
    BY <1>1
  <2>2. \A i \in 1..Len(q.outbox) : q.outbox[i] = p.outbox[i + 1]
    BY <1>1
  <2>3. q.outbox = <<>> <=> Len(q.outbox) = 0
    BY <2>1, EmptySeq
  <2> QED BY <2>1, <2>2, <2>3
<1>3. Acked(q) = Acked(p) + 1
  BY <1>1, <1>2 DEF Acked
<1>4. Head(p.outbox) = p.outbox[1] /\ Head(p.outbox).sequence = Acked(p) + 1 /\ Acked(p) \in Nat
  BY HeadContinues DEF QueueChained, Link
<1>5. Link(r, Acked(q), p.outbox[1].hi)
  BY <1>3, <1>4 DEF Link
<1>6. p.outbox[1].hi = IF q.outbox = <<>> THEN q.mark ELSE q.outbox[1].lo
  BY <1>1, <1>2 DEF QueueChained
<1>7. ASSUME NEW i \in 1..Len(q.outbox)
      PROVE  /\ q.outbox[i].sequence = Acked(q) + i
             /\ q.outbox[i].lo < q.outbox[i].hi
             /\ q.outbox[i].hi <= n
             /\ i < Len(q.outbox) => q.outbox[i].hi = q.outbox[i + 1].lo
             /\ i = Len(q.outbox) => q.outbox[i].hi = q.mark
  <2>1. i + 1 \in 1..Len(p.outbox) /\ q.outbox[i] = p.outbox[i + 1]
    BY <1>1, <1>2
  <2>2. i < Len(q.outbox) => q.outbox[i + 1] = p.outbox[i + 2] /\ i + 1 < Len(p.outbox)
    BY <1>1, <1>2
  <2>3. i = Len(q.outbox) => i + 1 = Len(p.outbox)
    BY <1>1, <1>2
  <2> DEFINE j == i + 1
  <2>4. j \in 1..Len(p.outbox) /\ q.outbox[i] = p.outbox[j]
    BY <2>1
  <2>5. /\ p.outbox[j].sequence = Acked(p) + j
        /\ p.outbox[j].lo < p.outbox[j].hi
        /\ p.outbox[j].hi <= n
        /\ j < Len(p.outbox) => p.outbox[j].hi = p.outbox[j + 1].lo
        /\ j = Len(p.outbox) => p.outbox[j].hi = p.mark
    BY <2>4 DEF QueueChained
  <2>6. q.outbox[i].sequence = Acked(q) + i
    BY <1>3, <1>4, <2>4, <2>5
  <2>7. i < Len(q.outbox) => q.outbox[i].hi = q.outbox[i + 1].lo
    BY <2>2, <2>4, <2>5
  <2>8. i = Len(q.outbox) => q.outbox[i].hi = q.mark
    BY <2>3, <2>4, <2>5
  <2> QED BY <2>4, <2>5, <2>6, <2>7, <2>8
<1>8. Len(q.outbox) <= q.sequence /\ q.mark <= n
  BY <1>1, <1>2 DEF QueueChained
<1> QED BY <1>5, <1>6, <1>7, <1>8 DEF QueueChained

\* Appending the next batch, from the mark to what is printed, keeps the queue chained.
LEMMA CaptureChained ==
    ASSUME NEW r \in Seq(Batch), NEW n \in Nat,
           NEW p \in EdgeState, QueueChained(p, r, n), p.mark < n,
           NEW b \in Batch, b.sequence = p.sequence + 1, b.lo = p.mark, b.hi = n,
           NEW q \in EdgeState,
           q.sequence = p.sequence + 1, q.mark = n, q.outbox = Append(p.outbox, b)
    PROVE  QueueChained(q, r, n)
<1>1. /\ p.outbox \in Seq(Batch) /\ Len(p.outbox) \in Nat
      /\ p.sequence \in Nat /\ p.mark \in Nat
  BY DEF EdgeState
<1>2. /\ Len(q.outbox) = Len(p.outbox) + 1
      /\ \A i \in 1..Len(p.outbox) : q.outbox[i] = p.outbox[i]
      /\ q.outbox[Len(p.outbox) + 1] = b
      /\ q.outbox # <<>>
  BY <1>1, SMTT(30)
<1>3. Acked(q) = Acked(p)
  <2>1. Acked(q) = (p.sequence + 1) - (Len(p.outbox) + 1)
    BY <1>2 DEF Acked
  <2>2. \A x, y \in Nat : (x + 1) - (y + 1) = x - y
    OBVIOUS
  <2> QED BY <1>1, <2>1, <2>2 DEF Acked
<1>4. Link(r, Acked(q), q.outbox[1].lo)
  <2>1. CASE p.outbox = <<>>
    BY <1>1, <1>2, <1>3, <2>1 DEF QueueChained
  <2>2. CASE p.outbox # <<>>
    <3>1. 1 \in 1..Len(p.outbox)
      BY <1>1, <2>2
    <3> QED BY <1>2, <1>3, <2>2, <3>1 DEF QueueChained
  <2> QED BY <2>1, <2>2
<1>5. ASSUME NEW i \in 1..Len(q.outbox)
      PROVE  /\ q.outbox[i].sequence = Acked(q) + i
             /\ q.outbox[i].lo < q.outbox[i].hi
             /\ q.outbox[i].hi <= n
             /\ i < Len(q.outbox) => q.outbox[i].hi = q.outbox[i + 1].lo
             /\ i = Len(q.outbox) => q.outbox[i].hi = q.mark
  <2>1. CASE i = Len(p.outbox) + 1
    BY <1>1, <1>2, <1>3, <2>1 DEF QueueChained, Acked
  <2>2. CASE i \in 1..Len(p.outbox)
    BY <1>1, <1>2, <1>3, <2>2 DEF QueueChained
  <2> QED BY <1>1, <1>2, <2>1, <2>2
<1>6. Len(q.outbox) <= q.sequence /\ q.mark <= n
  BY <1>1, <1>2 DEF QueueChained
<1> QED BY <1>2, <1>4, <1>5, <1>6 DEF QueueChained

\* Recording the next batch keeps receipts and ledger chained and only adds to them.
LEMMA RecordChained ==
    ASSUME NEW r \in Seq(Batch), NEW l \in Seq(Interval), NEW n \in Nat,
           ReceiptsChained(r, n), LedgerHasReceipts(l, r),
           NEW b \in Batch, Continues(b, r, n), b.sequence = Len(r) + 1
    PROVE  /\ Extends(r, Append(r, b))
           /\ ReceiptsChained(Append(r, b), n)
           /\ LedgerHasReceipts(Append(l, [lo |-> b.lo, hi |-> b.hi]), Append(r, b))
<1> DEFINE r2 == Append(r, b)
           l2 == Append(l, [lo |-> b.lo, hi |-> b.hi])
<1>0. [lo |-> b.lo, hi |-> b.hi] \in Interval
  BY DEF Batch, Interval
<1>1. /\ r2 \in Seq(Batch) /\ Len(r2) = Len(r) + 1 /\ Len(r) \in Nat
      /\ \A i \in 1..Len(r) : r2[i] = r[i]
      /\ r2[Len(r) + 1] = b
  OBVIOUS
<1>2. /\ Len(l2) = Len(l) + 1 /\ Len(l) \in Nat
      /\ \A i \in 1..Len(l) : l2[i] = l[i]
      /\ l2[Len(l) + 1] = [lo |-> b.lo, hi |-> b.hi]
  BY <1>0
<1>3. Extends(r, r2)
  BY <1>1 DEF Extends
<1>a. n <= n
  OBVIOUS
<1> HIDE DEF r2, l2
<1>4. ReceiptsChained(r2, n)
  <2> SUFFICES ASSUME NEW i \in 1..Len(r2)
               PROVE  r2[i].sequence = i /\ Continues(r2[i], r2, n)
    BY DEF ReceiptsChained
  <2>1. CASE i \in 1..Len(r)
    <3>1. r[i] \in Batch /\ r[i].sequence = i /\ Continues(r[i], r, n)
      BY <2>1 DEF ReceiptsChained
    <3>2. Continues(r[i], r2, n)
      BY <1>1, <1>3, <1>a, <3>1, ContinuesGrows
    <3> QED BY <1>1, <2>1, <3>1, <3>2
  <2>2. CASE i = Len(r) + 1
    <3>1. Continues(b, r2, n)
      BY <1>1, <1>3, <1>a, ContinuesGrows
    <3> QED BY <1>1, <2>2, <3>1
  <2> QED BY <1>1, <2>1, <2>2
<1>5. LedgerHasReceipts(l2, r2)
  <2> SUFFICES ASSUME NEW i \in 1..Len(l2)
               PROVE  l2[i] = [lo |-> r2[i].lo, hi |-> r2[i].hi]
    BY <1>1, <1>2 DEF LedgerHasReceipts
  <2>1. Len(l) = Len(r)
    BY DEF LedgerHasReceipts
  <2>2. CASE i \in 1..Len(l)
    BY <1>1, <1>2, <2>1, <2>2 DEF LedgerHasReceipts
  <2>3. CASE i = Len(l) + 1
    BY <1>1, <1>2, <2>1, <2>3
  <2>4. i \in 1..Len(l) \/ i = Len(l) + 1
    BY <1>2
  <2> QED BY <2>2, <2>3, <2>4
<1> QED BY <1>3, <1>4, <1>5 DEF r2, l2

-----------------------------------------------------------------------------
(* The invariant holds initially and every step keeps it. *)

LEMMA InvInit == Init => IInv
<1> SUFFICES ASSUME Init PROVE IInv
  OBVIOUS
<1>1. TypeInv
  BY TypeInit
<1>2. QueueChained(EmptyState, <<>>, 0)
  BY DEF QueueChained, Link, Acked, EmptyState
<1> QED
  BY <1>1, <1>2 DEF Init, IInv, ReceiptsChained, LedgerHasReceipts, CallIsHead

\* What IInv says of queues and late requests survives a longer chain of receipts and
\* a longer printed amount.
LEMMA ChainsGrow ==
    ASSUME IInv, TypeInv', Extends(receipts, receipts'), printed <= printed'
    PROVE  /\ \A p \in EdgeState :
                 QueueChained(p, receipts, printed) => QueueChained(p, receipts', printed')
           /\ \A b \in Batch :
                 Continues(b, receipts, printed) => Continues(b, receipts', printed')
<1>1. /\ receipts \in Seq(Batch) /\ receipts' \in Seq(Batch)
      /\ printed \in Nat /\ printed' \in Nat
  BY DEF IInv, TypeInv, TypeOK
<1> QED BY <1>1, QueueGrows, ContinuesGrows

\* A step of the cloud on a batch that continues the receipts.
LEMMA RecordStep ==
    ASSUME IInv, TypeInv', NEW b \in Batch, Continues(b, receipts, printed),
           RecordBatch(b), printed' = printed
    PROVE  /\ Extends(receipts, receipts')
           /\ ReceiptsChained(receipts', printed')
           /\ LedgerHasReceipts(ledger', receipts')
           /\ Verdict(b) = "ack" =>
                 b.sequence \in DOMAIN receipts' /\ receipts'[b.sequence] = b
<1>1. /\ receipts \in Seq(Batch) /\ ledger \in Seq(Interval) /\ printed \in Nat
      /\ ReceiptsChained(receipts, printed) /\ LedgerHasReceipts(ledger, receipts)
  BY DEF IInv, TypeInv, TypeOK, Interval
<1>2. CASE ~Known(b) /\ b.sequence = ExpectedSequence
  <2>1. /\ receipts' = Append(receipts, b)
        /\ ledger' = Append(ledger, [lo |-> b.lo, hi |-> b.hi])
        /\ b.sequence = Len(receipts) + 1
    BY <1>2 DEF RecordBatch, ExpectedSequence
  <2>2. b.sequence \in DOMAIN receipts' /\ receipts'[b.sequence] = b
    BY <1>1, <2>1
  <2> QED BY <1>1, <2>1, <2>2, RecordChained
<1>3. CASE ~(~Known(b) /\ b.sequence = ExpectedSequence)
  <2>1. receipts' = receipts /\ ledger' = ledger
    BY <1>3 DEF RecordBatch, cloud
  <2>2. Extends(receipts, receipts')
    BY <1>1, <2>1 DEF Extends
  <2>3. Verdict(b) = "ack" => b.sequence \in DOMAIN receipts /\ receipts[b.sequence] = b
    BY <1>3 DEF Verdict, Known
  <2> QED BY <1>1, <2>1, <2>2, <2>3
<1> QED BY <1>2, <1>3

LEMMA InvStep == IInv /\ [Next]_vars => IInv'
<1> SUFFICES ASSUME IInv, [Next]_vars PROVE IInv'
  OBVIOUS
<1>0. TypeInv'
  BY TypeStep DEF IInv
<1>t. /\ receipts \in Seq(Batch) /\ ledger \in Seq(Interval) /\ printed \in Nat
      /\ mem \in EdgeState /\ disk \in EdgeState /\ late \subseteq Batch
      /\ call \in Batch \union {NoCall}
      /\ call # NoCall => up /\ mem.outbox # <<>>
  BY DEF IInv, TypeInv, TypeOK, Interval
<1>e. Extends(receipts, receipts)
  BY <1>t DEF Extends
<1>1. CASE Extrude
  <2>1. printed' = printed + 1 /\ UNCHANGED <<edge, wire, cloud>>
    BY <1>1 DEF Extrude
  <2>2. Extends(receipts, receipts') /\ printed <= printed'
    BY <1>t, <1>e, <2>1 DEF cloud
  <2>3. ReceiptsChained(receipts', printed')
    <3> SUFFICES ASSUME NEW i \in 1..Len(receipts)
                 PROVE  receipts[i].sequence = i /\ Continues(receipts[i], receipts', printed')
      BY <2>1 DEF ReceiptsChained, cloud
    <3>1. receipts[i] \in Batch
      BY <1>t
    <3>2. receipts[i].sequence = i /\ Continues(receipts[i], receipts, printed)
      BY DEF IInv, ReceiptsChained
    <3> QED BY <1>0, <2>2, <3>1, <3>2, ChainsGrow
  <2>4. QueueChained(mem, receipts', printed') /\ QueueChained(disk, receipts', printed')
    BY <1>0, <1>t, <2>2, ChainsGrow DEF IInv
  <2>5. \A b \in late : Continues(b, receipts', printed')
    BY <1>0, <1>t, <2>2, ChainsGrow DEF IInv
  <2> QED BY <1>0, <2>1, <2>3, <2>4, <2>5 DEF IInv, CallIsHead, Known, edge, wire, cloud
<1>2. CASE Capture
  <2>1. /\ mem' = [sequence |-> mem.sequence + 1,
                   outbox   |-> Append(mem.outbox, NewBatch(mem)),
                   mark     |-> printed]
        /\ mem.mark < printed /\ call = NoCall
        /\ UNCHANGED <<printed, wire, cloud>>
        /\ disk' = mem' \/ disk' = disk
    BY <1>2, <1>t DEF Capture, Idle, Save, EdgeState
  <2>2. NewBatch(mem) \in Batch
    BY NewBatchType DEF IInv, TypeInv
  <2>3. mem' \in EdgeState
    BY <1>0 DEF TypeInv, TypeOK
  <2>4. QueueChained(mem', receipts, printed)
    <3> DEFINE b == NewBatch(mem)
    <3>1. b.sequence = mem.sequence + 1 /\ b.lo = mem.mark /\ b.hi = printed
      BY DEF NewBatch
    <3>2. /\ mem'.sequence = mem.sequence + 1 /\ mem'.mark = printed
          /\ mem'.outbox = Append(mem.outbox, b)
      BY <2>1
    <3> HIDE DEF b
    <3> QED BY <1>t, <2>1, <2>2, <2>3, <3>1, <3>2, CaptureChained DEF IInv, b
  <2>5. QueueChained(disk', receipts, printed)
    BY <2>1, <2>4 DEF IInv
  <2> QED BY <1>0, <2>1, <2>4, <2>5 DEF IInv, CallIsHead, wire, cloud
<1>3. CASE EndCycle
  BY <1>0, <1>3 DEF EndCycle, Idle, IInv, CallIsHead, wire, cloud
<1>4. CASE Send
  BY <1>0, <1>4 DEF Send, IInv, CallIsHead, edge, cloud
<1>5. CASE ReceiveAck
  <2>1. /\ call # NoCall /\ answer = "ack"
        /\ mem' = [mem EXCEPT !.outbox = Tail(@)]
        /\ disk' = mem' \/ disk' = disk
        /\ call' = NoCall
        /\ UNCHANGED <<printed, late, cloud>>
    BY <1>5 DEF ReceiveAck, Save
  <2>2. mem' \in EdgeState
    BY <1>0 DEF TypeInv, TypeOK
  <2>3. /\ mem'.sequence = mem.sequence /\ mem'.mark = mem.mark
        /\ mem'.outbox = Tail(mem.outbox)
    BY <1>t, <2>1 DEF EdgeState
  <2>4. /\ Head(mem.outbox).sequence \in 1..Len(receipts)
        /\ receipts[Head(mem.outbox).sequence] = Head(mem.outbox)
        /\ mem.outbox # <<>>
    BY <1>t, <2>1 DEF IInv, CallIsHead, Known
  <2>5. QueueChained(mem', receipts, printed)
    BY <1>t, <2>2, <2>3, <2>4, PopChained DEF IInv
  <2>6. QueueChained(disk', receipts, printed)
    BY <2>1, <2>5 DEF IInv
  <2> QED BY <1>0, <2>1, <2>5, <2>6 DEF IInv, CallIsHead, cloud
<1>6. CASE ReceiveRefusal
  BY <1>0, <1>6 DEF ReceiveRefusal, IInv, CallIsHead, edge, cloud
<1>h. call # NoCall => call \in Batch /\ Continues(call, receipts, printed)
  <2> SUFFICES ASSUME call # NoCall PROVE call \in Batch /\ Continues(call, receipts, printed)
    OBVIOUS
  <2>1. call = Head(mem.outbox) /\ mem.outbox # <<>> /\ QueueChained(mem, receipts, printed)
    BY <1>t DEF IInv, CallIsHead
  <2>2. Head(mem.outbox) \in Batch /\ Continues(Head(mem.outbox), receipts, printed)
    BY <1>t, <2>1, HeadContinues
  <2> QED BY <2>1, <2>2
<1>a. ASSUME Abandon
      PROVE  /\ call' = NoCall
             /\ \A b \in late' : Continues(b, receipts, printed)
  BY <1>h, <1>a, AbandonType DEF IInv, TypeInv
<1>7. CASE Timeout
  BY <1>0, <1>7, <1>a DEF Timeout, IInv, CallIsHead, edge, cloud
<1>8. CASE Crash
  BY <1>0, <1>8, <1>a DEF Crash, IInv, CallIsHead, cloud
<1>9. CASE Restart
  <2>1. call' = NoCall /\ mem' = disk /\ UNCHANGED <<printed, disk, wire, cloud>>
    BY <1>t, <1>9 DEF Restart, wire
  <2> QED BY <1>0, <2>1 DEF IInv, CallIsHead, wire, cloud
<1>10. CASE Serve
  <2>1. /\ call # NoCall /\ RecordBatch(call) /\ answer' = Verdict(call)
        /\ UNCHANGED <<printed, edge, call, late>>
    BY <1>10 DEF Serve
  <2>2. /\ Extends(receipts, receipts')
        /\ ReceiptsChained(receipts', printed')
        /\ LedgerHasReceipts(ledger', receipts')
        /\ Verdict(call) = "ack" =>
              call.sequence \in DOMAIN receipts' /\ receipts'[call.sequence] = call
    BY <1>0, <1>h, <2>1, RecordStep
  <2>3. printed <= printed'
    BY <1>t, <2>1
  <2>4. /\ QueueChained(mem, receipts', printed') /\ QueueChained(disk, receipts', printed')
        /\ \A b \in late : Continues(b, receipts', printed')
    BY <1>0, <1>t, <2>2, <2>3, ChainsGrow DEF IInv
  <2> QED BY <1>0, <2>1, <2>2, <2>4 DEF IInv, CallIsHead, Known, edge
<1>11. CASE ServeLate
  <2>1. /\ UNCHANGED <<printed, edge, call, answer>>
        /\ \E b \in late : RecordBatch(b) /\ late' = late \ {b}
    BY <1>11 DEF ServeLate
  <2>2. PICK b \in late : RecordBatch(b) /\ late' = late \ {b}
    BY <2>1
  <2>3. b \in Batch /\ Continues(b, receipts, printed)
    BY <1>t, <2>2 DEF IInv
  <2>4. /\ Extends(receipts, receipts')
        /\ ReceiptsChained(receipts', printed')
        /\ LedgerHasReceipts(ledger', receipts')
    BY <1>0, <2>1, <2>2, <2>3, RecordStep
  <2>5. printed <= printed'
    BY <1>t, <2>1
  <2>6. /\ QueueChained(mem, receipts', printed') /\ QueueChained(disk, receipts', printed')
        /\ \A c \in late' : Continues(c, receipts', printed')
    BY <1>0, <1>t, <2>2, <2>4, <2>5, ChainsGrow DEF IInv
  <2>7. CallIsHead'
    <3>1. receipts' \in Seq(Batch)
      BY <1>0 DEF TypeInv, TypeOK
    <3> QED BY <1>t, <2>1, <2>4, <3>1 DEF IInv, CallIsHead, Known, Extends, edge
  <2> QED BY <1>0, <2>1, <2>4, <2>6, <2>7 DEF IInv, edge
<1>12. CASE UNCHANGED vars
  BY <1>0, <1>12 DEF IInv, CallIsHead, Known, vars, edge, wire, cloud
<1> QED
  BY <1>1, <1>2, <1>3, <1>4, <1>5, <1>6, <1>7, <1>8, <1>9, <1>10, <1>11, <1>12 DEF Next

LEMMA Invariance == Spec => []IInv
BY InvInit, InvStep, PTL DEF Spec

-----------------------------------------------------------------------------
(* Theorems. *)

LEMMA LedgerFollows == IInv => LedgerInOrder
<1> SUFFICES ASSUME IInv, NEW i \in 1..Len(ledger)
             PROVE  /\ ledger[i].lo = (IF i = 1 THEN 0 ELSE ledger[i - 1].hi)
                    /\ ledger[i].lo < ledger[i].hi
                    /\ ledger[i].hi <= printed
  BY DEF LedgerInOrder
<1>1. /\ receipts \in Seq(Batch) /\ Len(ledger) = Len(receipts)
      /\ i \in 1..Len(receipts)
      /\ \A j \in 1..Len(ledger) :
            ledger[j] = [lo |-> receipts[j].lo, hi |-> receipts[j].hi]
  BY DEF IInv, TypeInv, TypeOK, LedgerHasReceipts
<1>2. receipts[i].sequence = i /\ Continues(receipts[i], receipts, printed)
  BY <1>1 DEF IInv, ReceiptsChained
<1>3. ledger[i].lo = receipts[i].lo /\ ledger[i].hi = receipts[i].hi
  <2>1. ledger[i] = [lo |-> receipts[i].lo, hi |-> receipts[i].hi]
    BY <1>1
  <2> QED BY <2>1
<1>4. i # 1 => ledger[i - 1].hi = receipts[i - 1].hi
  <2> SUFFICES ASSUME i # 1 PROVE ledger[i - 1].hi = receipts[i - 1].hi
    OBVIOUS
  <2>1. i - 1 \in 1..Len(ledger)
    BY <1>1
  <2>2. ledger[i - 1] = [lo |-> receipts[i - 1].lo, hi |-> receipts[i - 1].hi]
    BY <1>1, <2>1
  <2> QED BY <2>2
<1>5. receipts[i].lo = IF i - 1 = 0 THEN 0 ELSE receipts[i - 1].hi
  BY <1>2 DEF Continues, Link
<1>6. ledger[i].lo < ledger[i].hi /\ ledger[i].hi <= printed
  BY <1>2, <1>3 DEF Continues
<1> QED BY <1>3, <1>4, <1>5, <1>6

\* No retry, late request, crash or failed save makes the cloud deduct filament twice,
\* skip some, or deduct more than was printed.
THEOREM ChargedInOrder == Spec => []LedgerInOrder
BY LedgerFollows, Invariance, PTL

\* A file the process wrote always passes the outbox checks of StateStore.load.
THEOREM FileLoads == Spec => []DiskLoads
<1>1. IInv => DiskLoads
  <2> SUFFICES ASSUME IInv, NEW i \in 1..Len(disk.outbox)
               PROVE  /\ disk.outbox[i].sequence >
                            (IF i = 1 THEN 0 ELSE disk.outbox[i - 1].sequence)
                      /\ disk.outbox[i].sequence <= disk.sequence
    BY DEF DiskLoads
  <2>1. /\ disk.sequence \in Nat /\ Len(disk.outbox) \in Nat
        /\ Len(disk.outbox) <= disk.sequence
        /\ \A j \in 1..Len(disk.outbox) : disk.outbox[j].sequence = Acked(disk) + j
    BY DEF IInv, TypeInv, TypeOK, EdgeState, QueueChained
  <2>2. Acked(disk) = disk.sequence - Len(disk.outbox) /\ Acked(disk) \in Nat
    BY <2>1 DEF Acked
  <2>3. disk.outbox[i].sequence = Acked(disk) + i
    BY <2>1
  <2>4. i # 1 => disk.outbox[i - 1].sequence = Acked(disk) + (i - 1)
    <3> SUFFICES ASSUME i # 1 PROVE disk.outbox[i - 1].sequence = Acked(disk) + (i - 1)
      OBVIOUS
    <3>1. i - 1 \in 1..Len(disk.outbox)
      BY <2>1
    <3> QED BY <2>1, <3>1
  <2> QED BY <2>1, <2>2, <2>3, <2>4
<1> QED BY <1>1, Invariance, PTL

\* Intervals that follow each other from a up to n or further have one that covers n.
LEMMA ChainCovers ==
    ASSUME NEW l, NEW k \in Nat \ {0}, NEW a \in Nat, NEW n \in Nat,
           \A i \in 1..k : /\ l[i].hi \in Nat
                          /\ l[i].lo = IF i = 1 THEN a ELSE l[i - 1].hi,
           a < n, n <= l[k].hi
    PROVE  \E i \in 1..k : Covers(l[i], n)
<1> DEFINE Reach == {i \in 1..k : n <= l[i].hi}
<1>1. Reach \in SUBSET Nat /\ Reach # {}
  BY k \in Reach
<1>2. PICK i \in Reach : \A j \in Reach : i <= j
  BY <1>1, Least
<1>3. l[i].lo < n
  <2>1. CASE i = 1
    BY <2>1
  <2>2. CASE i # 1
    <3>1. i - 1 \in 1..k /\ i - 1 \notin Reach
      BY <1>2, <2>2
    <3> QED BY <2>2, <3>1
  <2> QED BY <2>1, <2>2
<1> QED BY <1>2, <1>3 DEF Covers

\* Whatever is refused, lost or not saved, filament the state file has turned into events is
\* deducted or still in its queue.
THEOREM EvidenceKept == Spec => []EvidenceConserved
<1>1. IInv => EvidenceConserved
  <2> SUFFICES ASSUME IInv, NEW n \in 1..disk.mark
               PROVE  \/ \E i \in 1..Len(ledger) : Covers(ledger[i], n)
                      \/ \E i \in 1..Len(disk.outbox) : Covers(disk.outbox[i], n)
    BY DEF EvidenceConserved
  <2> DEFINE q == disk.outbox
             start == IF q = <<>> THEN disk.mark ELSE q[1].lo
  <2>1. /\ receipts \in Seq(Batch) /\ ledger \in Seq(Interval) /\ n \in Nat
        /\ disk.sequence \in Nat /\ disk.mark \in Nat /\ q \in Seq(Batch)
        /\ Len(ledger) = Len(receipts)
        /\ \A i \in 1..Len(ledger) : ledger[i] = [lo |-> receipts[i].lo, hi |-> receipts[i].hi]
    BY DEF IInv, TypeInv, TypeOK, EdgeState, LedgerHasReceipts, Interval
  <2>2. Link(receipts, Acked(disk), start)
    BY DEF IInv, QueueChained
  <2>3. CASE n <= start
    <3> DEFINE k == Acked(disk)
    <3>1. k \in Nat \ {0} /\ k <= Len(ledger) /\ start = receipts[k].hi
      BY <2>1, <2>2, <2>3 DEF Link
    <3>2. start = ledger[k].hi
      <4>1. ledger[k] = [lo |-> receipts[k].lo, hi |-> receipts[k].hi]
        BY <2>1, <3>1
      <4>2. ledger[k].hi = receipts[k].hi
        BY <4>1
      <4> QED BY <3>1, <4>2
    <3>3. \A i \in 1..k : /\ ledger[i].hi \in Nat
                         /\ ledger[i].lo = IF i = 1 THEN 0 ELSE ledger[i - 1].hi
      <4> SUFFICES ASSUME NEW i \in 1..k
                   PROVE  /\ ledger[i].hi \in Nat
                          /\ ledger[i].lo = IF i = 1 THEN 0 ELSE ledger[i - 1].hi
        OBVIOUS
      <4>1. i \in 1..Len(ledger)
        BY <2>1, <3>1
      <4>2. ledger[i] \in Interval /\ LedgerInOrder
        BY <2>1, <4>1, LedgerFollows
      <4> QED BY <4>1, <4>2 DEF LedgerInOrder, Interval
    <3>4. n <= ledger[k].hi /\ 0 < n
      BY <2>3, <3>2
    <3> HIDE DEF start, k
    <3>5. \E i \in 1..k : Covers(ledger[i], n)
      BY <2>1, <3>1, <3>3, <3>4, ChainCovers
    <3> QED BY <2>1, <3>1, <3>5
  <2>4. CASE ~(n <= start)
    <3> DEFINE k == Len(q)
    <3>1. q # <<>> /\ k \in Nat \ {0} /\ start = q[1].lo
      BY <2>1, <2>4
    <3>2. \A i \in 1..k : /\ q[i].hi \in Nat
                         /\ q[i].lo = IF i = 1 THEN start ELSE q[i - 1].hi
      <4> SUFFICES ASSUME NEW i \in 1..k
                   PROVE  /\ q[i].hi \in Nat
                          /\ q[i].lo = IF i = 1 THEN start ELSE q[i - 1].hi
        OBVIOUS
      <4>1. q[i] \in Batch
        BY <2>1
      <4>2. i # 1 => q[i - 1].hi = q[i].lo
        <5> SUFFICES ASSUME i # 1 PROVE q[i - 1].hi = q[i].lo
          OBVIOUS
        <5> DEFINE j == i - 1
        <5>1. j \in 1..Len(disk.outbox) /\ j < Len(disk.outbox) /\ j + 1 = i
          BY <3>1
        <5>2. disk.outbox[j].hi = disk.outbox[j + 1].lo
          BY <5>1 DEF IInv, QueueChained
        <5> QED BY <5>1, <5>2
      <4> QED BY <3>1, <4>1, <4>2 DEF Batch
    <3>3. start \in Nat /\ start < n /\ n <= q[k].hi
      <4>1. q[1] \in Batch
        BY <2>1, <3>1
      <4>2. q[k].hi = disk.mark
        BY <3>1 DEF IInv, QueueChained
      <4> QED BY <2>1, <2>4, <3>1, <4>1, <4>2 DEF Batch
    <3> HIDE DEF start, k, q
    <3>4. \E i \in 1..k : Covers(q[i], n)
      BY <2>1, <3>1, <3>2, <3>3, ChainCovers
    <3> QED BY <3>4 DEF k, q
  <2> QED BY <2>3, <2>4
<1> QED BY <1>1, Invariance, PTL

-----------------------------------------------------------------------------
(* When the state file can always be written. *)

\* b is the batch the queue of p holds under its sequence, unless that is acknowledged.
Agrees(b, p) ==
    b.sequence > Acked(p) =>
        /\ b.sequence - Acked(p) \in 1..Len(p.outbox)
        /\ b = p.outbox[b.sequence - Acked(p)]

\* Memory and file do not part, so no sequence is ever given to two batches: all that the
\* cloud has recorded or may still receive agrees with the queue.
NoFork ==
    /\ disk = mem
    /\ \A b \in late : Agrees(b, mem)
    /\ \A i \in 1..Len(receipts) : Agrees(receipts[i], mem)

LEMMA AgreesGrows ==
    ASSUME NEW p \in EdgeState, NEW q \in EdgeState, NEW b \in Batch, NEW c \in Batch,
           q.sequence = p.sequence + 1, q.outbox = Append(p.outbox, c), Agrees(b, p)
    PROVE  Agrees(b, q)
<1>1. /\ p.outbox \in Seq(Batch) /\ Len(p.outbox) \in Nat /\ p.sequence \in Nat
      /\ b.sequence \in Nat
  BY DEF EdgeState, Batch
<1>2. /\ Len(q.outbox) = Len(p.outbox) + 1
      /\ \A i \in 1..Len(p.outbox) : q.outbox[i] = p.outbox[i]
  BY <1>1
<1>3. Acked(q) = Acked(p) /\ Acked(p) \in Int
  <2>1. \A x, y \in Nat : (x + 1) - (y + 1) = x - y /\ x - y \in Int
    OBVIOUS
  <2> QED BY <1>1, <1>2, <2>1 DEF Acked
<1> QED BY <1>1, <1>2, <1>3 DEF Agrees

LEMMA AgreesPops ==
    ASSUME NEW p \in EdgeState, NEW q \in EdgeState, NEW b \in Batch,
           q.sequence = p.sequence, p.outbox # <<>>, q.outbox = Tail(p.outbox), Agrees(b, p)
    PROVE  Agrees(b, q)
<1>1. /\ p.outbox \in Seq(Batch) /\ Len(p.outbox) \in Nat /\ Len(p.outbox) >= 1
      /\ p.sequence \in Nat /\ b.sequence \in Nat
  BY DEF EdgeState, Batch
<1>2. /\ Len(q.outbox) = Len(p.outbox) - 1
      /\ \A i \in 1..Len(q.outbox) : q.outbox[i] = p.outbox[i + 1]
  BY <1>1
<1>3. Acked(q) = Acked(p) + 1 /\ Acked(p) \in Int
  BY <1>1, <1>2 DEF Acked
<1>4. SUFFICES ASSUME b.sequence > Acked(q)
               PROVE  /\ b.sequence - Acked(q) \in 1..Len(q.outbox)
                      /\ b = q.outbox[b.sequence - Acked(q)]
  BY DEF Agrees
<1> DEFINE i == b.sequence - Acked(q)
<1>5. /\ i + 1 = b.sequence - Acked(p) /\ i \in 1..Len(q.outbox) /\ b = p.outbox[i + 1]
  BY <1>1, <1>2, <1>3, <1>4 DEF Agrees
<1> QED BY <1>2, <1>5

\* The head of the queue agrees with the queue.
LEMMA HeadAgrees ==
    ASSUME NEW p \in EdgeState, NEW r \in Seq(Batch), NEW n \in Nat,
           QueueChained(p, r, n), p.outbox # <<>>
    PROVE  Agrees(Head(p.outbox), p)
<1>1. Head(p.outbox) = p.outbox[1] /\ Head(p.outbox).sequence = Acked(p) + 1 /\ Acked(p) \in Nat
  BY HeadContinues DEF QueueChained, Link
<1>2. p.outbox \in Seq(Batch) /\ 1 \in 1..Len(p.outbox)
  BY DEF EdgeState
<1>3. Head(p.outbox).sequence - Acked(p) = 1
  BY <1>1
<1> QED BY <1>1, <1>2, <1>3 DEF Agrees

LEMMA NoForkStep ==
    ASSUME SaveCanFail = FALSE, IInv, IInv', NoFork, [Next]_vars
    PROVE  NoFork'
<1>t. /\ receipts \in Seq(Batch) /\ late \subseteq Batch /\ printed \in Nat
      /\ mem \in EdgeState /\ mem' \in EdgeState /\ QueueChained(mem, receipts, printed)
      /\ call # NoCall => mem.outbox # <<>> /\ call = Head(mem.outbox)
  BY DEF IInv, TypeInv, TypeOK, CallIsHead
<1>r. \A i \in 1..Len(receipts) : receipts[i] \in Batch
  BY <1>t
<1>h. call # NoCall => call \in Batch /\ Agrees(call, mem)
  BY <1>t, HeadAgrees, HeadContinues
<1>s. ASSUME NEW b \in Batch, Agrees(b, mem), RecordBatch(b)
      PROVE  \A i \in 1..Len(receipts') : Agrees(receipts'[i], mem)
  <2>1. receipts' \in {receipts, Append(receipts, b)}
    BY <1>s DEF RecordBatch, cloud
  <2>2. \A i \in 1..Len(receipts) : Agrees(receipts[i], mem)
    BY DEF NoFork
  <2>3. CASE receipts' = Append(receipts, b)
    <3>1. /\ Len(receipts') = Len(receipts) + 1 /\ Len(receipts) \in Nat
          /\ \A i \in 1..Len(receipts) : receipts'[i] = receipts[i]
          /\ receipts'[Len(receipts) + 1] = b
      BY <1>t, <2>3
    <3> QED BY <1>s, <2>2, <3>1
  <2> QED BY <2>1, <2>2, <2>3
<1>1. CASE Capture
  <2>1. /\ mem' = [sequence |-> mem.sequence + 1,
                   outbox   |-> Append(mem.outbox, NewBatch(mem)),
                   mark     |-> printed]
        /\ disk' = mem' /\ UNCHANGED <<late, receipts>>
    BY <1>1 DEF Capture, Save, wire, cloud
  <2>2. NewBatch(mem) \in Batch
    BY NewBatchType DEF IInv, TypeInv
  <2>3. /\ mem'.sequence = mem.sequence + 1
        /\ mem'.outbox = Append(mem.outbox, NewBatch(mem))
    BY <2>1
  <2>4. \A b \in Batch : Agrees(b, mem) => Agrees(b, mem')
    BY <1>t, <2>2, <2>3, AgreesGrows
  <2> QED BY <1>t, <1>r, <2>1, <2>4 DEF NoFork
<1>2. CASE ReceiveAck
  <2>1. /\ mem' = [mem EXCEPT !.outbox = Tail(@)]
        /\ disk' = mem' /\ UNCHANGED <<late, receipts>> /\ call # NoCall
    BY <1>2 DEF ReceiveAck, Save, cloud
  <2>2. mem'.sequence = mem.sequence /\ mem'.outbox = Tail(mem.outbox)
    BY <1>t, <2>1 DEF EdgeState
  <2>3. \A b \in Batch : Agrees(b, mem) => Agrees(b, mem')
    BY <1>t, <2>1, <2>2, AgreesPops
  <2> QED BY <1>t, <1>r, <2>1, <2>3 DEF NoFork
<1>3. CASE Timeout \/ Crash
  <2>1. /\ UNCHANGED <<mem, disk, receipts>>
        /\ late' \subseteq late \union (IF call = NoCall THEN {} ELSE {call})
    BY <1>3, AbandonType DEF Timeout, Crash, IInv, TypeInv, edge, cloud
  <2> QED BY <1>h, <2>1 DEF NoFork
<1>4. CASE Serve
  <2>1. call # NoCall /\ RecordBatch(call) /\ UNCHANGED <<mem, disk, late>>
    BY <1>4 DEF Serve, edge
  <2> QED BY <1>h, <1>s, <2>1 DEF NoFork
<1>5. CASE ServeLate
  <2>1. PICK b \in late : RecordBatch(b) /\ late' = late \ {b}
    BY <1>5 DEF ServeLate
  <2>2. UNCHANGED <<mem, disk>>
    BY <1>5 DEF ServeLate, edge
  <2> QED BY <1>s, <1>t, <2>1, <2>2 DEF NoFork
<1>6. CASE Restart \/ EndCycle
  BY <1>6 DEF Restart, EndCycle, wire, cloud, NoFork
<1>7. CASE Extrude \/ Send \/ ReceiveRefusal \/ UNCHANGED vars
  BY <1>7 DEF Extrude, Send, ReceiveRefusal, vars, edge, wire, cloud, NoFork
<1> QED BY <1>1, <1>2, <1>3, <1>4, <1>5, <1>6, <1>7 DEF Next

\* If the state file can always be written, the cloud takes the batch at the head of the
\* queue: no loss, timeout, late request or restart leaves the queue stuck.
THEOREM HeadTaken ==
    ASSUME SaveCanFail = FALSE
    PROVE  Spec => []HeadNeverRefused
<1>1. Init => NoFork
  <2> SUFFICES ASSUME Init PROVE NoFork
    OBVIOUS
  <2>1. late = {} /\ mem = disk /\ Len(receipts) = 0
    BY DEF Init
  <2> QED BY <2>1 DEF NoFork
<1>2. IInv /\ IInv' /\ NoFork /\ [Next]_vars => NoFork'
  BY NoForkStep
<1>3. IInv /\ NoFork => HeadNeverRefused
  <2> SUFFICES ASSUME IInv, NoFork, mem.outbox # <<>>
               PROVE  Verdict(Head(mem.outbox)) = "ack"
    BY DEF HeadNeverRefused
  <2> DEFINE b == Head(mem.outbox)
  <2>1. /\ receipts \in Seq(Batch) /\ mem \in EdgeState /\ printed \in Nat
        /\ QueueChained(mem, receipts, printed)
    BY DEF IInv, TypeInv, TypeOK
  <2>2. b \in Batch /\ b = mem.outbox[1] /\ b.sequence = Acked(mem) + 1
    BY <2>1, HeadContinues
  <2>3. Acked(mem) \in 0..Len(receipts)
    BY <2>1 DEF QueueChained, Link
  <2> HIDE DEF b
  <2>4. CASE Acked(mem) = Len(receipts)
    <3>1. b.sequence = ExpectedSequence /\ ~Known(b)
      BY <2>1, <2>2, <2>4 DEF ExpectedSequence, Known
    <3> QED BY <3>1 DEF Verdict, b
  <2>5. CASE Acked(mem) # Len(receipts)
    <3>1. b.sequence \in 1..Len(receipts)
      BY <2>1, <2>2, <2>3, <2>5
    <3>2. receipts[b.sequence].sequence = b.sequence /\ Agrees(receipts[b.sequence], mem)
      BY <3>1 DEF IInv, ReceiptsChained, NoFork
    <3>3. b.sequence - Acked(mem) = 1 /\ b.sequence > Acked(mem)
      BY <2>2, <2>3
    <3>4. receipts[b.sequence] = b
      BY <2>2, <3>2, <3>3 DEF Agrees
    <3>5. Known(b)
      BY <2>1, <3>1 DEF Known
    <3> QED BY <3>4, <3>5 DEF Verdict, b
  <2> QED BY <2>4, <2>5
<1> QED BY <1>1, <1>2, <1>3, Invariance, PTL DEF Spec

-----------------------------------------------------------------------------
(* Refinement. *)

\* Seen from the spool, the whole delivery path is the abstract ledger.
THEOREM Implements == Spec => ImplementsLedger
<1>1. Init => Ledger!Init
  BY DEF Init, Ledger!Init
<1>2. IInv /\ IInv' /\ [Next]_vars => [Ledger!Next]_(Ledger!vars)
  <2> SUFFICES ASSUME IInv, IInv', [Next]_vars PROVE [Ledger!Next]_(Ledger!vars)
    OBVIOUS
  <2>t. receipts \in Seq(Batch) /\ ledger \in Seq(Interval) /\ printed \in Nat
    BY DEF IInv, TypeInv, TypeOK, Interval
  <2>r. ASSUME NEW b \in Batch, Continues(b, receipts, printed), RecordBatch(b), printed' = printed
        PROVE  Ledger!Charge \/ ledger' = ledger
    <3>1. CASE ~Known(b) /\ b.sequence = ExpectedSequence
      <4>1. /\ ledger' = Append(ledger, [lo |-> b.lo, hi |-> b.hi])
            /\ b.sequence = Len(receipts) + 1
        BY <2>r, <3>1 DEF RecordBatch, ExpectedSequence
      <4>2. /\ Len(ledger) = Len(receipts)
            /\ Len(ledger) # 0 => ledger[Len(ledger)].hi = receipts[Len(receipts)].hi
        <5>1. /\ Len(ledger) = Len(receipts)
              /\ \A i \in 1..Len(ledger) :
                    ledger[i] = [lo |-> receipts[i].lo, hi |-> receipts[i].hi]
          BY DEF IInv, LedgerHasReceipts
        <5>2. Len(ledger) # 0 => Len(ledger) \in 1..Len(ledger)
          BY <2>t
        <5>3. Len(ledger) # 0 =>
                 ledger[Len(ledger)] = [lo |-> receipts[Len(ledger)].lo,
                                        hi |-> receipts[Len(ledger)].hi]
          BY <5>1, <5>2
        <5> QED BY <5>1, <5>3
      <4>3. /\ b.lo = IF Len(receipts) = 0 THEN 0 ELSE receipts[Len(receipts)].hi
            /\ b.lo < b.hi /\ b.hi <= printed /\ b.hi \in Nat /\ b.lo \in Nat
        BY <2>r, <2>t, <4>1 DEF Continues, Link, Batch
      <4>4. b.lo = Ledger!EndOf(ledger)
        BY <2>t, <4>2, <4>3, EmptySeq DEF Ledger!EndOf
      <4>5. b.hi \in (Ledger!EndOf(ledger) + 1)..printed
        BY <2>t, <4>3, <4>4
      <4> QED BY <2>r, <4>1, <4>4, <4>5 DEF Ledger!Charge
    <3>2. CASE ~(~Known(b) /\ b.sequence = ExpectedSequence)
      BY <2>r, <3>2 DEF RecordBatch, cloud
    <3> QED BY <3>1, <3>2
  <2>1. CASE Extrude
    BY <2>1 DEF Extrude, Ledger!Next, Ledger!Extrude, cloud
  <2>2. CASE Serve
    <3>1. call \in Batch /\ Continues(call, receipts, printed)
      <4>1. /\ mem \in EdgeState /\ mem.outbox # <<>> /\ call = Head(mem.outbox)
            /\ QueueChained(mem, receipts, printed)
        BY <2>2 DEF Serve, IInv, TypeInv, TypeOK, CallIsHead
      <4> QED BY <2>t, <4>1, HeadContinues
    <3> QED BY <2>2, <2>r, <3>1 DEF Serve, Ledger!Next, Ledger!vars
  <2>3. CASE ServeLate
    <3>1. PICK b \in late : RecordBatch(b)
      BY <2>3 DEF ServeLate
    <3>2. b \in Batch /\ Continues(b, receipts, printed)
      BY <3>1 DEF IInv, TypeInv, TypeOK
    <3> QED BY <2>3, <2>r, <3>1, <3>2 DEF ServeLate, Ledger!Next, Ledger!vars
  <2>4. CASE UNCHANGED <<printed, ledger>>
    BY <2>4 DEF Ledger!vars
  <2>5. Capture \/ EndCycle \/ Send \/ ReceiveAck \/ ReceiveRefusal \/ Timeout \/ Crash
           \/ Restart \/ UNCHANGED vars => UNCHANGED <<printed, ledger>>
    BY DEF Capture, EndCycle, Send, ReceiveAck, ReceiveRefusal, Timeout, Crash, Restart,
           vars, edge, cloud
  <2> QED BY <2>1, <2>2, <2>3, <2>4, <2>5 DEF Next
<1> QED BY <1>1, <1>2, Invariance, PTL DEF Spec, ImplementsLedger, Ledger!Spec
=============================================================================
