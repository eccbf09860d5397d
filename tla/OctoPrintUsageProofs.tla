------------------------ MODULE OctoPrintUsageProofs ------------------------
(***************************************************************************)
(* Proofs about module OctoPrintUsage, for any finite number of slots and   *)
(* spools and any number of prints, reports, connections and changes.       *)
(***************************************************************************)
EXTENDS OctoPrintUsage, Induction

-----------------------------------------------------------------------------
(* The inductive invariant. *)

\* What a report says, whether it waits in the outbox or is recorded in the cloud.
Content(x) ==
    [job |-> x.job, sequence |-> x.sequence, status |-> x.status, amounts |-> x.amounts,
     binding |-> x.binding]

ContentsOf(p) == {Content(p[i]) : i \in DOMAIN p}

Queued == ContentsOf(outbox)
Recorded == {Content(r) : r \in receipts}
Facts == Queued \union Recorded

\* Made up to now; of the print under way a checkpoint, and no later than the last one.
Begun(x) ==
    /\ x.job <= started
    /\ Printing /\ x.job = print.job =>
         x.sequence <= print.sequence /\ x.status \notin Terminal /\ x.binding = print.binding

\* Job and sequence identify a report, a print is reported through one connection, its
\* checkpoints hold filament and its terminal report is its last.
FactsAgree ==
    /\ \A x \in Facts : Begun(x) /\ (x.status \notin Terminal => x.amounts # NoFilament)
    /\ \A x, y \in Facts : x.job = y.job =>
          /\ x.binding = y.binding
          /\ x.sequence = y.sequence => x = y
          /\ x.sequence < y.sequence => x.status \notin Terminal

\* No report of a print is missing,
NoneMissing ==
    /\ \A x \in Facts : \A m \in 1..(x.sequence - 1) :
          \E y \in Facts : y.job = x.job /\ y.sequence = m
    /\ Printing => \A m \in 1..print.sequence :
          \E y \in Facts : y.job = print.job /\ y.sequence = m

\* and the cloud has recorded a print's reports from the first on.
RecordedInOrder ==
    \A x \in Recorded : \A m \in 1..(x.sequence - 1) :
        \E y \in Recorded : y.job = x.job /\ y.sequence = m

Earlier(a, b) == a.job < b.job \/ (a.job = b.job /\ a.sequence < b.sequence)

Ordered(p) == \A i, j \in DOMAIN p : i < j => Earlier(p[i], p[j])

OutboxOrdered == Ordered(outbox)

\* What has been recorded takes no more additions.
SealedIn(p, rec) == \A i \in DOMAIN p : Content(p[i]) \in rec => p[i].sealed

RecordedSealed == SealedIn(outbox, Recorded)

\* The report under way is in the outbox, as it was sent, and for the present connection.
SentFrom(p, x) == \E i \in DOMAIN p : p[i].sealed /\ Content(p[i]) = Content(x)

FlightQueued ==
    flight # None =>
        /\ SentFrom(outbox, flight.report)
        /\ flight.report.binding = binding /\ binding \in Bindings
        /\ flight.answer = "accepted" => Content(flight.report) \in Recorded

Payloads == [sequence : 1..MaxSequence, amounts : Amounts]

\* A job that has ended was closed by its owner, or by a report the cloud has.
JobsFollow ==
    \A j \in Jobs : jobs[j] # NoJob =>
        /\ jobs[j] \in [status : {"printing", "paused"} \union Terminal,
                        payload : Payloads \union {NoPayload}]
        /\ jobs[j].status \notin Terminal => jobs[j].payload = NoPayload
        /\ jobs[j].status \in Terminal =>
             \/ jobs[j].payload = NoPayload /\ j \in closed
             \/ \E x \in Recorded : x.job = j /\ x.status \in Terminal
                                    /\ jobs[j].payload = Payload(x)

ReceiptSet ==
    [job : Jobs, sequence : 1..MaxSequence, status : {"printing", "paused"} \union Outcomes,
     amounts : Amounts, binding : Bindings \union {None}, connection : Bindings \union {None}]

MoreTypes ==
    /\ outbox \in Seq(Report) /\ receipts \subseteq ReceiptSet
    /\ started \in 0..MaxJobs /\ DOMAIN jobs = Jobs
    /\ Printing => print.job = started /\ print.sequence < MaxSequence
    /\ SumFunction(fed) <= MaxFed

IInv ==
    /\ TypeOK /\ MoreTypes
    /\ FactsAgree /\ NoneMissing /\ RecordedInOrder
    /\ OutboxOrdered /\ RecordedSealed /\ FlightQueued
    /\ JobsFollow
    /\ FilamentAccounted

-----------------------------------------------------------------------------
(* The operators of the model. *)

LEMMA PlusIs ==
    ASSUME NEW a, NEW b
    PROVE  Plus(a, b) = [s \in DOMAIN a |-> a[s] + b[s]]
BY DEF Plus, Pointwise

\* The slots that feed spool s are finitely many, and the tracker holds no less than nothing.
LEMMA FedThroughNat ==
    ASSUME NEW t \in [Slots -> Nat], NEW routes, NEW s
    PROVE  SumFunctionOnSet(t, {slot \in Slots : routes[slot] = s}) \in Nat
<1>1. IsFiniteSet({slot \in Slots : routes[slot] = s})
  BY BoundsAssumption, FS_Subset
<1> QED BY <1>1, SumNat

LEMMA AttributedIs ==
    ASSUME TypeOK
    PROVE  Attributed \in [Spools -> Nat]
<1>1. tracker \in [Slots -> Nat]
  BY BoundsAssumption DEF TypeOK
<1>2. ASSUME NEW s \in Spools
      PROVE  SumFunctionOnSet(tracker, {slot \in Slots : print.routes[slot] = s}) \in Nat
  BY <1>1, FedThroughNat
<1> QED BY <1>2 DEF Attributed, Printing, NoFilament

\* An empty tracker attributes nothing.
LEMMA NothingAttributed ==
    ASSUME NEW t \in [Slots -> Nat], NEW A \in SUBSET Slots, \A slot \in A : t[slot] = 0
    PROVE  SumFunctionOnSet(t, A) = 0
<1>1. IsFiniteSet(A)
  BY BoundsAssumption, FS_Subset
<1> QED BY <1>1, SumZero

LEMMA PendingIs ==
    ASSUME MoreTypes
    PROVE  /\ Pending \in 0..Len(outbox)
           /\ Pending # 0 => Pending \in DOMAIN outbox /\ Mergeable(outbox[Pending])
<1> DEFINE I == {i \in 1..Len(outbox) : Mergeable(outbox[i])}
<1>1. Pending = IF I # {} THEN Max(I) ELSE 0
  BY Zenon DEF Pending, SelectLastInSeq
<1>2. Len(outbox) \in Nat /\ DOMAIN outbox = 1..Len(outbox)
  BY DEF MoreTypes
<1>3. CASE I # {}
  <2>1. I \in SUBSET (0..Len(outbox))
    BY <1>2
  <2>2. Max(I) \in I
    BY <1>2, <1>3, <2>1, Greatest
  <2> QED BY <1>1, <1>2, <1>3, <2>2
<1>4. CASE I = {}
  BY <1>1, <1>2, <1>4
<1> QED BY <1>3, <1>4

LEMMA HeadIs ==
    ASSUME MoreTypes
    PROVE  /\ HeadIndex \in 0..Len(outbox)
           /\ HeadIndex # 0 => HeadIndex \in DOMAIN outbox /\ Matches(outbox[HeadIndex])
           /\ \A i \in DOMAIN outbox : Matches(outbox[i]) => HeadIndex # 0 /\ HeadIndex <= i
<1> DEFINE I == {i \in 1..Len(outbox) : Matches(outbox[i])}
<1>1. HeadIndex = IF I # {} THEN Min(I) ELSE 0
  BY Zenon DEF HeadIndex, SelectInSeq
<1>2. Len(outbox) \in Nat /\ DOMAIN outbox = 1..Len(outbox)
  BY DEF MoreTypes
<1>3. CASE I # {}
  <2>1. I \in SUBSET Nat
    BY <1>2
  <2>2. Min(I) \in I /\ \A y \in I : Min(I) <= y
    BY <1>3, <2>1, MinIs
  <2> QED BY <1>1, <1>2, <1>3, <2>2
<1>4. CASE I = {}
  BY <1>1, <1>2, <1>4
<1> QED BY <1>3, <1>4

-----------------------------------------------------------------------------
(* What an outbox still owes a spool. *)

Delivered(rec, x) == \E r \in rec : Same(r, x)

Owed(p, rec, s) == [i \in DOMAIN p |-> IF Delivered(rec, p[i]) THEN 0 ELSE p[i].amounts[s]]

Held(p, rec, s) == SumFunctionOnSet(Owed(p, rec, s), DOMAIN p)

LEMMA WaitingIs == ASSUME NEW s PROVE Waiting(s) = Held(outbox, receipts, s)
BY DEF Waiting, SumFunction, Held, Owed, Delivered

LEMMA WaitingIsNext == ASSUME NEW s PROVE Waiting(s)' = Held(outbox', receipts', s)
BY DEF Waiting, SumFunction, Held, Owed, Delivered, Same

LEMMA OwedIs ==
    ASSUME NEW p \in Seq(Report), NEW rec, NEW s \in Spools
    PROVE  /\ DOMAIN p = 1..Len(p) /\ Len(p) \in Nat /\ IsFiniteSet(DOMAIN p)
           /\ \A i \in DOMAIN p : p[i] \in Report
           /\ \A i \in DOMAIN p : p[i].amounts[s] \in Nat /\ Owed(p, rec, s)[i] \in Nat
           /\ Held(p, rec, s) \in Nat
<1>1. DOMAIN p = 1..Len(p) /\ Len(p) \in Nat /\ \A i \in DOMAIN p : p[i] \in Report
  OBVIOUS
<1>2. IsFiniteSet(DOMAIN p)
  BY <1>1, FS_Interval
<1>3. \A i \in DOMAIN p : p[i].amounts[s] \in Nat
  BY <1>1, BoundsAssumption DEF Report, Amounts
<1>4. \A i \in DOMAIN p : Owed(p, rec, s)[i] \in Nat
  BY <1>3 DEF Owed
<1>5. Held(p, rec, s) \in Nat
  BY <1>2, <1>4, SumNat DEF Held
<1> QED BY <1>1, <1>2, <1>3, <1>4, <1>5

\* A report that is in the outbox and not recorded is part of it.
LEMMA OwedPart ==
    ASSUME NEW p \in Seq(Report), NEW rec, NEW s \in Spools, NEW i \in DOMAIN p,
           ~ Delivered(rec, p[i])
    PROVE  p[i].amounts[s] <= Held(p, rec, s)
<1>1. Owed(p, rec, s)[i] = p[i].amounts[s]
  BY DEF Owed
<1> QED BY <1>1, OwedIs, SumAtLeast DEF Held

\* Marks do not change it,
Marked(p, q) ==
    /\ DOMAIN q = DOMAIN p
    /\ \A i \in DOMAIN p : Content(q[i]) = Content(p[i]) /\ (p[i].sealed => q[i].sealed)

LEMMA SameContent ==
    ASSUME NEW x, NEW y, Content(x) = Content(y)
    PROVE  /\ x.job = y.job /\ x.sequence = y.sequence /\ x.status = y.status
           /\ x.amounts = y.amounts /\ x.binding = y.binding
BY DEF Content

LEMMA HeldMarked ==
    ASSUME NEW p \in Seq(Report), NEW q, NEW rec, NEW s \in Spools, Marked(p, q)
    PROVE  Held(q, rec, s) = Held(p, rec, s)
<1>1. \A i \in DOMAIN p : Owed(q, rec, s)[i] = Owed(p, rec, s)[i]
  BY SameContent DEF Marked, Owed, Delivered, Same
<1>2. Owed(q, rec, s) = Owed(p, rec, s)
  BY <1>1 DEF Marked, Owed
<1> QED BY <1>2 DEF Held, Marked

\* a new report adds what it says,
LEMMA HeldAppended ==
    ASSUME NEW p \in Seq(Report), NEW x \in Report, NEW rec, NEW s \in Spools,
           ~ Delivered(rec, x)
    PROVE  Held(Append(p, x), rec, s) = Held(p, rec, s) + x.amounts[s]
<1> DEFINE q == Append(p, x)
           n == Len(p) + 1
<1>1. q \in Seq(Report) /\ Len(q) = n /\ Len(p) \in Nat
      /\ (\A i \in 1..Len(p) : q[i] = p[i]) /\ q[n] = x
  OBVIOUS
<1>2. DOMAIN q = DOMAIN p \union {n} /\ n \notin DOMAIN p /\ DOMAIN p = 1..Len(p)
  BY <1>1
<1>3. \A i \in DOMAIN p : Owed(q, rec, s)[i] = Owed(p, rec, s)[i]
  BY <1>1, <1>2 DEF Owed
<1>4. Owed(q, rec, s)[n] = x.amounts[s]
  BY <1>1, <1>2 DEF Owed
<1>5. \A i \in DOMAIN q : Owed(q, rec, s)[i] \in Int
  <2> HIDE DEF q
  <2> QED BY <1>1, OwedIs
<1> HIDE DEF q, n
<1>6. Held(q, rec, s) = SumFunctionOnSet(Owed(q, rec, s), DOMAIN p) + Owed(q, rec, s)[n]
  BY <1>2, <1>5, OwedIs, SumPut DEF Held
<1>7. SumFunctionOnSet(Owed(q, rec, s), DOMAIN p) = Held(p, rec, s)
  BY <1>3, OwedIs, SumSame DEF Held
<1> QED BY <1>4, <1>6, <1>7 DEF q

\* an addition to an unrecorded report adds itself,
LEMMA HeldMerged ==
    ASSUME NEW p \in Seq(Report), NEW q \in Seq(Report), NEW rec, NEW s \in Spools,
           DOMAIN q = DOMAIN p, NEW i \in DOMAIN p, \A j \in DOMAIN p : j # i => q[j] = p[j],
           Same(q[i], p[i]), ~ Delivered(rec, p[i])
    PROVE  Held(q, rec, s) = Held(p, rec, s) + q[i].amounts[s] - p[i].amounts[s]
<1>1. \A j \in DOMAIN p : j # i => Owed(q, rec, s)[j] = Owed(p, rec, s)[j]
  BY DEF Owed
<1>2. Owed(q, rec, s)[i] = q[i].amounts[s] /\ Owed(p, rec, s)[i] = p[i].amounts[s]
  BY DEF Owed, Delivered, Same
<1>3. \A j \in DOMAIN p : Owed(q, rec, s)[j] \in Int /\ Owed(p, rec, s)[j] \in Int
  BY OwedIs
<1> QED BY <1>1, <1>2, <1>3, OwedIs, SumChange DEF Held

\* a recorded report may be taken out,
LEMMA HeldRemoved ==
    ASSUME NEW p \in Seq(Report), NEW k \in DOMAIN p, NEW rec, NEW s \in Spools,
           Delivered(rec, p[k])
    PROVE  Held(RemoveAt(p, k), rec, s) = Held(p, rec, s)
<1> DEFINE q == RemoveAt(p, k)
           D == DOMAIN p \ {k}
           m == [j \in DOMAIN q |-> IF j < k THEN j ELSE j + 1]
<1>1. /\ q \in Seq(Report) /\ DOMAIN q = 1..(Len(p) - 1)
      /\ \A j \in DOMAIN q : q[j] = IF j < k THEN p[j] ELSE p[j + 1]
  <2>1. k \in 1..Len(p)
    OBVIOUS
  <2> QED BY <2>1, Removed
<1>2. DOMAIN p = 1..Len(p) /\ Len(p) \in Nat
  OBVIOUS
<1>3. /\ m \in [DOMAIN q -> D]
      /\ \A x, y \in DOMAIN q : m[x] = m[y] => x = y
      /\ \A y \in D : \E x \in DOMAIN q : m[x] = y
  <2>1. m \in [DOMAIN q -> D]
    BY <1>1, <1>2
  <2>2. \A x, y \in DOMAIN q : m[x] = m[y] => x = y
    BY <1>1, <1>2
  <2>3. ASSUME NEW y \in D PROVE \E x \in DOMAIN q : m[x] = y
    <3> DEFINE x == IF y < k THEN y ELSE y - 1
    <3>1. x \in DOMAIN q /\ m[x] = y
      BY <1>1, <1>2
    <3> QED BY <3>1
  <2> QED BY <2>1, <2>2, <2>3
<1>4. \A x \in DOMAIN q : Owed(q, rec, s)[x] \in Int
                          /\ Owed(p, rec, s)[m[x]] = Owed(q, rec, s)[x]
  <2>1. \A x \in DOMAIN q : q[x] = p[m[x]] /\ m[x] \in DOMAIN p
    BY <1>1, <1>2
  <2>2. \A x \in DOMAIN q : Owed(q, rec, s)[x] \in Int
    BY <1>1, OwedIs
  <2> HIDE DEF q, m
  <2> QED BY <2>1, <2>2 DEF Owed
<1>5. IsFiniteSet(DOMAIN q) /\ IsFiniteSet(DOMAIN p)
  BY <1>1, OwedIs
<1>6. SumFunctionOnSet(Owed(p, rec, s), D) = Held(q, rec, s)
  <2> HIDE DEF q, m, D
  <2> QED BY <1>3, <1>4, <1>5, SumRenamed DEF Held
<1>7. Held(p, rec, s) = Owed(p, rec, s)[k] + SumFunctionOnSet(Owed(p, rec, s), D)
  <2>1. \A x \in DOMAIN p : Owed(p, rec, s)[x] \in Int
    BY OwedIs
  <2> QED BY <1>5, <2>1, SumTake DEF Held
<1>8. Owed(p, rec, s)[k] = 0
  BY DEF Owed
<1>9. Held(q, rec, s) \in Nat
  BY <1>1, OwedIs
<1> HIDE DEF q, m, D
<1> QED BY <1>6, <1>7, <1>8, <1>9 DEF q

\* and recording a report takes off what it says.
LEMMA HeldRecorded ==
    ASSUME NEW p \in Seq(Report), NEW rec, NEW r, NEW s \in Spools, NEW i \in DOMAIN p,
           Same(r, p[i]), ~ Delivered(rec, p[i]),
           \A j \in DOMAIN p : Same(r, p[j]) => j = i
    PROVE  Held(p, rec \union {r}, s) = Held(p, rec, s) - p[i].amounts[s]
<1> DEFINE f == Owed(p, rec, s)
           g == Owed(p, rec \union {r}, s)
<1>1. \A j \in DOMAIN p : j # i => g[j] = f[j]
  BY DEF Owed, Delivered
<1>2. f[i] = p[i].amounts[s] /\ g[i] = 0
  BY DEF Owed, Delivered
<1>3. \A j \in DOMAIN p : f[j] \in Int /\ g[j] \in Int
  BY OwedIs
<1>4. SumFunctionOnSet(g, DOMAIN p) = SumFunctionOnSet(f, DOMAIN p) + g[i] - f[i]
  <2> HIDE DEF f, g
  <2> QED BY <1>1, <1>3, OwedIs, SumChange, ZenonT(40)
<1>5. Held(p, rec, s) \in Nat /\ p[i].amounts[s] \in Nat
  BY OwedIs
<1> QED BY <1>2, <1>4, <1>5 DEF Held

-----------------------------------------------------------------------------
(* What is known of the reports in a state of the invariant. *)

LEMMA Bounded ==
    ASSUME TypeOK, MoreTypes, FilamentAccounted, NEW s \in Spools
    PROVE  /\ charged[s] \in Nat /\ Held(outbox, receipts, s) \in Nat
           /\ Attributed[s] \in Nat /\ lost[s] \in Nat
           /\ fed[s] \in Nat /\ MaxFed \in Nat /\ fed[s] <= MaxFed
           /\ fed[s] = charged[s] + Held(outbox, receipts, s) + Attributed[s] + lost[s]
<1>1. charged[s] \in Nat /\ lost[s] \in Nat /\ fed[s] \in 0..MaxFed /\ MaxFed \in Nat
  BY BoundsAssumption DEF TypeOK, Amounts
<1>2. Attributed[s] \in Nat
  BY AttributedIs
<1>3. Held(outbox, receipts, s) \in Nat
  BY OwedIs DEF MoreTypes
<1>4. fed[s] = charged[s] + Held(outbox, receipts, s) + Attributed[s] + lost[s]
  BY WaitingIs DEF FilamentAccounted
<1> QED BY <1>1, <1>2, <1>3, <1>4

ContentSet ==
    [job : Jobs, sequence : 1..MaxSequence, status : {"printing", "paused"} \union Outcomes,
     amounts : Amounts, binding : Bindings \union {None}]

LEMMA FactsTyped ==
    ASSUME MoreTypes
    PROVE  Facts \subseteq ContentSet
<1>1. \A i \in DOMAIN outbox : outbox[i] \in Report
  BY DEF MoreTypes
<1>2. \A x \in Report : Content(x) \in ContentSet
  BY DEF Content, ContentSet, Report
<1>3. \A r \in ReceiptSet : Content(r) \in ContentSet
  BY DEF Content, ContentSet, ReceiptSet
<1> QED BY <1>1, <1>2, <1>3 DEF Facts, Queued, ContentsOf, Recorded, MoreTypes

\* Numbers of prints and reports are compared as numbers.
LEMMA NumbersTyped ==
    ASSUME NEW x \in ContentSet
    PROVE  /\ x.job \in Nat \ {0} /\ x.sequence \in Nat \ {0}
           /\ x.job <= MaxJobs /\ x.sequence <= MaxSequence
BY BoundsAssumption DEF ContentSet, Jobs

LEMMA QueuedAt ==
    ASSUME NEW i \in DOMAIN outbox
    PROVE  Content(outbox[i]) \in Queued /\ Content(outbox[i]) \in Facts
BY DEF Queued, ContentsOf, Facts

LEMMA QueuedTyped ==
    ASSUME MoreTypes, NEW i \in DOMAIN outbox
    PROVE  /\ outbox[i] \in Report /\ outbox[i].amounts \in [Spools -> 0..MaxFed]
           /\ outbox[i].job \in Nat /\ outbox[i].sequence \in Nat
<1>1. outbox[i] \in Report
  BY DEF MoreTypes
<1> QED BY <1>1 DEF Report, Amounts, Jobs

\* Two reports of the outbox with the same number are one.
LEMMA OneInOutbox ==
    ASSUME MoreTypes, OutboxOrdered, NEW i \in DOMAIN outbox, NEW j \in DOMAIN outbox,
           Same(outbox[i], outbox[j])
    PROVE  i = j
<1>1. DOMAIN outbox = 1..Len(outbox) /\ Len(outbox) \in Nat
  BY DEF MoreTypes
<1>2. /\ outbox[i].job \in Int /\ outbox[i].sequence \in Int
      /\ outbox[j].job = outbox[i].job /\ outbox[j].sequence = outbox[i].sequence
  BY QueuedTyped DEF Same
<1>3. ~ Earlier(outbox[i], outbox[j]) /\ ~ Earlier(outbox[j], outbox[i])
  BY <1>2 DEF Earlier
<1> QED BY <1>1, <1>3 DEF OutboxOrdered, Ordered

\* A report is delivered exactly when what it says is recorded.
LEMMA DeliveredIs ==
    ASSUME FactsAgree, NEW i \in DOMAIN outbox
    PROVE  Delivered(receipts, outbox[i]) <=> Content(outbox[i]) \in Recorded
<1> DEFINE c == Content(outbox[i])
<1>1. c \in Facts /\ c.job = outbox[i].job /\ c.sequence = outbox[i].sequence
  BY QueuedAt DEF Content
<1>2. ASSUME NEW r \in receipts, Same(r, outbox[i]) PROVE c \in Recorded
  <2>1. Content(r) \in Facts /\ Content(r) \in Recorded
    BY DEF Facts, Recorded
  <2>2. Content(r).job = c.job /\ Content(r).sequence = c.sequence
    BY <1>2 DEF Same, Content
  <2>3. Content(r) = c
    BY <1>1, <2>1, <2>2 DEF FactsAgree
  <2> QED BY <2>1, <2>3
<1>3. ASSUME c \in Recorded PROVE Delivered(receipts, outbox[i])
  <2>1. PICK r \in receipts : Content(r) = c
    BY <1>3 DEF Recorded
  <2> QED BY <2>1, SameContent DEF Delivered, Same
<1> QED BY <1>2, <1>3 DEF Delivered

\* The print under way has made no report with a higher number than its last.
LEMMA NextIsNew ==
    ASSUME TypeOK, MoreTypes, FactsAgree, Printing, NEW x \in Facts, x.job = print.job
    PROVE  /\ x.sequence \in Nat /\ print.sequence \in Nat /\ x.sequence <= print.sequence
           /\ x.status \notin Terminal /\ x.binding = print.binding
<1>1. x \in ContentSet
  BY FactsTyped
<1>2. print.sequence \in Nat
  BY DEF TypeOK, PrintState, Printing
<1> QED BY <1>1, <1>2, NumbersTyped DEF FactsAgree, Begun

-----------------------------------------------------------------------------
(* What is known of the reports stays true, whatever a step does to them. *)

Agreement == FactsAgree /\ NoneMissing /\ RecordedInOrder

SamePrint ==
    /\ Printing /\ print' # None /\ print'.job = print.job /\ print'.sequence = print.sequence
    /\ print'.binding = print.binding

\* A step that makes no report: the print goes on, it has ended, or another begins.
LEMMA AgreementKept ==
    ASSUME TypeOK, MoreTypes, Agreement, Facts' = Facts, Recorded' = Recorded,
           \/ print' = print /\ started' = started
           \/ SamePrint /\ started' = started
           \/ print' = None /\ started' = started
           \/ print'.job = started + 1 /\ print'.sequence = 0 /\ started' = started + 1
    PROVE  Agreement'
<1>1. started \in Nat /\ started <= started'
  BY BoundsAssumption DEF MoreTypes
<1>2. \A x \in Facts : x.job \in Nat /\ x.job <= started
  BY FactsTyped, NumbersTyped DEF Agreement, FactsAgree, Begun
<1>3. \A x \in Facts : Begun(x)'
  <2>1. \A x \in Facts : x.job <= started'
    BY <1>1, <1>2
  <2>2. ASSUME NEW x \in Facts, print' # None, x.job = print'.job
        PROVE  x.sequence <= print'.sequence /\ x.status \notin Terminal /\ x.binding = print'.binding
    <3>1. ~ (print'.job = started + 1)
      BY <1>1, <1>2, <2>2
    <3>2. Printing /\ x.job = print.job /\ print'.sequence = print.sequence
          /\ print'.binding = print.binding
      BY <2>2, <3>1 DEF SamePrint, Printing
    <3> QED BY <3>2 DEF Agreement, FactsAgree, Begun
  <2> QED BY <2>1, <2>2 DEF Begun, Printing
<1>4. FactsAgree'
  BY <1>3 DEF Agreement, FactsAgree
<1>5. ASSUME print' # None
      PROVE  \A m \in 1..print'.sequence : \E y \in Facts : y.job = print'.job /\ y.sequence = m
  <2>1. CASE print'.sequence = 0
    BY <2>1
  <2>2. CASE print'.sequence # 0
    BY <1>5, <2>2 DEF SamePrint, Printing, Agreement, NoneMissing
  <2> QED BY <2>1, <2>2
<1>6. NoneMissing'
  BY <1>5 DEF Agreement, NoneMissing, Printing
<1>7. RecordedInOrder'
  BY DEF Agreement, RecordedInOrder
<1> QED BY <1>4, <1>6, <1>7 DEF Agreement

\* A step that makes report c, and either ends the print or goes on with it.
LEMMA AgreementGrown ==
    ASSUME TypeOK, MoreTypes, Agreement, Printing, NEW c,
           c.job = print.job, c.sequence = print.sequence + 1, c.binding = print.binding,
           c.status \in Terminal \/ c.amounts # NoFilament,
           Facts' = Facts \union {c}, Recorded' = Recorded, started' = started,
           \/ print' = None
           \/ /\ c.status \notin Terminal /\ print'.job = print.job
              /\ print'.binding = print.binding /\ print'.sequence = print.sequence + 1
    PROVE  Agreement'
<1>1. started \in Nat /\ print.job = started /\ print.sequence \in Nat
  BY BoundsAssumption DEF MoreTypes, TypeOK, PrintState, Printing
<1>2. \A x \in Facts : /\ x.sequence \in Nat
                       /\ x.job = print.job => x.sequence <= print.sequence /\ x.sequence # c.sequence
                                               /\ x.status \notin Terminal /\ x.binding = c.binding
  BY <1>1, FactsTyped, NumbersTyped, NextIsNew DEF Agreement
<1>3. \A x \in Facts' : Begun(x)'
  <2>1. \A x \in Facts' : x.job <= started
    BY <1>1 DEF Agreement, FactsAgree, Begun
  <2>2. ASSUME NEW x \in Facts', print' # None, x.job = print'.job
        PROVE  x.sequence <= print'.sequence /\ x.status \notin Terminal /\ x.binding = print'.binding
    <3>1. CASE x = c
      BY <1>1, <2>2, <3>1
    <3>2. CASE x \in Facts
      BY <1>1, <1>2, <2>2, <3>2
    <3> QED BY <3>1, <3>2
  <2> QED BY <2>1, <2>2 DEF Begun, Printing
<1>4. FactsAgree'
  <2>1. \A x \in Facts' : x.status \notin Terminal => x.amounts # NoFilament
    BY DEF Agreement, FactsAgree
  <2>2. ASSUME NEW x \in Facts', NEW y \in Facts', x.job = y.job
        PROVE  /\ x.binding = y.binding
               /\ x.sequence = y.sequence => x = y
               /\ x.sequence < y.sequence => x.status \notin Terminal
    <3>1. CASE x \in Facts /\ y \in Facts
      BY <2>2, <3>1 DEF Agreement, FactsAgree
    <3>2. CASE x \in Facts /\ y = c
      BY <1>2, <2>2, <3>2
    <3>3. CASE x = c /\ y \in Facts
      BY <1>1, <1>2, <2>2, <3>3
    <3>4. CASE x = c /\ y = c
      BY <1>1, <3>4
    <3> QED BY <3>1, <3>2, <3>3, <3>4
  <2> QED BY <1>3, <2>1, <2>2 DEF FactsAgree
<1>5. \A m \in 1..print.sequence : \E y \in Facts : y.job = print.job /\ y.sequence = m
  BY DEF Agreement, NoneMissing
<1>6. \A m \in 1..(print.sequence + 1) : \E y \in Facts' : y.job = print.job /\ y.sequence = m
  BY <1>1, <1>5
<1>7. \A x \in Facts' : \A m \in 1..(x.sequence - 1) : \E y \in Facts' : y.job = x.job /\ y.sequence = m
  <2>1. ASSUME NEW x \in Facts, NEW m \in 1..(x.sequence - 1)
        PROVE  \E y \in Facts' : y.job = x.job /\ y.sequence = m
    BY <2>1 DEF Agreement, NoneMissing
  <2>2. ASSUME NEW m \in 1..(c.sequence - 1)
        PROVE  \E y \in Facts' : y.job = c.job /\ y.sequence = m
    BY <1>1, <1>5, <2>2
  <2> QED BY <2>1, <2>2
<1>8. NoneMissing'
  BY <1>6, <1>7 DEF NoneMissing, Printing
<1>9. RecordedInOrder'
  BY DEF Agreement, RecordedInOrder
<1> QED BY <1>4, <1>8, <1>9 DEF Agreement

\* A step that adds to a report that is not recorded.
LEMMA AgreementSwapped ==
    ASSUME TypeOK, MoreTypes, Agreement, SamePrint, NEW old \in Facts, old \notin Recorded, NEW c,
           c.job = old.job, c.sequence = old.sequence, c.binding = old.binding,
           c.status \notin Terminal, c.amounts # NoFilament,
           Facts' = (Facts \ {old}) \union {c}, Recorded' = Recorded, started' = started
    PROVE  Agreement'
<1> DEFINE was(x) == IF x = c THEN old ELSE x
<1>1. \A x \in Facts' : /\ was(x) \in Facts /\ was(x).job = x.job /\ was(x).binding = x.binding
                        /\ was(x).sequence = x.sequence
                        /\ x.status \in Terminal => x = was(x) /\ x # c
  OBVIOUS
<1>2. \A x, y \in Facts' : was(x) = was(y) => x = y
  OBVIOUS
<1>3. \A x \in Facts : \E y \in Facts' : y.job = x.job /\ y.sequence = x.sequence
  OBVIOUS
<1>4. Begun(old)
  BY DEF Agreement, FactsAgree
<1>5. \A x \in Facts' : Begun(x)'
  BY <1>4 DEF Agreement, FactsAgree, Begun, SamePrint, Printing
<1>6. \A x \in Facts' : x.status \notin Terminal => x.amounts # NoFilament
  BY DEF Agreement, FactsAgree
<1>7. ASSUME NEW x \in Facts', NEW y \in Facts', x.job = y.job
      PROVE  /\ x.binding = y.binding
             /\ x.sequence = y.sequence => x = y
             /\ x.sequence < y.sequence => x.status \notin Terminal
  <2>1. /\ was(x).binding = was(y).binding
        /\ was(x).sequence = was(y).sequence => was(x) = was(y)
        /\ was(x).sequence < was(y).sequence => was(x).status \notin Terminal
    <3> HIDE DEF was
    <3> QED BY <1>1, <1>7 DEF Agreement, FactsAgree
  <2> HIDE DEF was
  <2> QED BY <1>1, <1>2, <2>1
<1>8. FactsAgree'
  BY <1>5, <1>6, <1>7 DEF FactsAgree
<1>9. ASSUME NEW x \in Facts', NEW m \in 1..(x.sequence - 1)
      PROVE  \E y \in Facts' : y.job = x.job /\ y.sequence = m
  <2>1. PICK y \in Facts : y.job = was(x).job /\ y.sequence = m
    <3> HIDE DEF was
    <3> QED BY <1>1 DEF Agreement, NoneMissing
  <2> HIDE DEF was
  <2> QED BY <1>1, <1>3, <2>1
<1>10. ASSUME NEW m \in 1..print.sequence
       PROVE  \E y \in Facts' : y.job = print.job /\ y.sequence = m
  <2>1. PICK y \in Facts : y.job = print.job /\ y.sequence = m
    BY DEF Agreement, NoneMissing, SamePrint
  <2> QED BY <1>3, <2>1
<1>11. NoneMissing'
  BY <1>9, <1>10 DEF NoneMissing, SamePrint, Printing
<1>12. RecordedInOrder'
  BY DEF Agreement, RecordedInOrder
<1> QED BY <1>8, <1>11, <1>12 DEF Agreement

-----------------------------------------------------------------------------
(* What a step does to the outbox. *)

Untouched(p) == /\ p \in Seq(Report) /\ Ordered(p) /\ SealedIn(p, Recorded)
                /\ \A x : SentFrom(outbox, x) => SentFrom(p, x)

\* Marks change none of it.
LEMMA UntouchedMarked ==
    ASSUME NEW p, Untouched(p), NEW q \in Seq(Report), Marked(p, q)
    PROVE  Untouched(q) /\ ContentsOf(q) = ContentsOf(p)
<1>1. \A i \in DOMAIN p : /\ Content(q[i]) = Content(p[i])
                          /\ q[i].job = p[i].job /\ q[i].sequence = p[i].sequence
                          /\ p[i].sealed => q[i].sealed
  BY SameContent DEF Marked
<1>2. ContentsOf(q) = ContentsOf(p)
  BY <1>1 DEF ContentsOf, Marked
<1>3. Ordered(q)
  BY <1>1 DEF Untouched, Ordered, Earlier, Marked
<1>4. SealedIn(q, Recorded)
  BY <1>1 DEF Untouched, SealedIn, Marked
<1>5. \A x : SentFrom(outbox, x) => SentFrom(q, x)
  BY <1>1 DEF Untouched, SentFrom, Marked
<1> QED BY <1>2, <1>3, <1>4, <1>5 DEF Untouched

Usual ==
    /\ TypeOK /\ MoreTypes /\ FilamentAccounted
    /\ Agreement /\ OutboxOrdered /\ RecordedSealed

\* The next report of the print under way goes to the end of the outbox.
LEMMA OutboxExtended ==
    ASSUME Usual, Printing, NEW x \in Report,
           x.job = print.job, x.sequence = print.sequence + 1
    PROVE  LET q == Append(outbox, x)
           IN  /\ Untouched(q) /\ ContentsOf(q) = Queued \union {Content(x)}
               /\ \A s \in Spools :
                     Held(q, receipts, s) = Held(outbox, receipts, s) + x.amounts[s]
<1> DEFINE q == Append(outbox, x)
           n == Len(outbox) + 1
<1>1. /\ q \in Seq(Report) /\ Len(outbox) \in Nat /\ DOMAIN outbox = 1..Len(outbox)
      /\ DOMAIN q = 1..n /\ (\A i \in DOMAIN outbox : q[i] = outbox[i]) /\ q[n] = x
  BY DEF Usual, MoreTypes
<1>2. \A i \in DOMAIN q : i \in DOMAIN outbox \/ i = n
  BY <1>1
<1>3. \A i \in DOMAIN outbox : i \in DOMAIN q /\ n \in DOMAIN q
  BY <1>1
<1>4. n \in DOMAIN q
  BY <1>1
<1>5. ContentsOf(q) = Queued \union {Content(x)}
  <2> HIDE DEF q, n
  <2> QED BY <1>1, <1>2, <1>3, <1>4 DEF Queued, ContentsOf
<1>6. ASSUME NEW y \in Facts
      PROVE  y.job \in Nat /\ y.sequence \in Nat /\ y.job <= x.job
             /\ (y.job = x.job => y.sequence < x.sequence)
  <2>1. y.job \in Nat /\ y.sequence \in Nat
    BY FactsTyped, NumbersTyped DEF Usual
  <2>2. x.job = started /\ y.job <= started
    BY DEF Usual, MoreTypes, Agreement, FactsAgree, Begun
  <2>3. y.job = x.job => y.sequence <= print.sequence /\ print.sequence \in Nat
    BY NextIsNew DEF Usual, Agreement
  <2> QED BY <2>1, <2>2, <2>3
<1>7. \A i \in DOMAIN outbox : Earlier(outbox[i], x)
  <2> TAKE i \in DOMAIN outbox
  <2> DEFINE y == Content(outbox[i])
  <2>1. y \in Facts /\ y.job = outbox[i].job /\ y.sequence = outbox[i].sequence
    BY QueuedAt DEF Content
  <2>2. x.job \in Nat
    BY DEF Report, Jobs
  <2> HIDE DEF y
  <2> QED BY <1>6, <2>1, <2>2 DEF Earlier
<1>8. Ordered(q)
  <2>1. ASSUME NEW i \in DOMAIN q, NEW j \in DOMAIN q, i < j PROVE Earlier(q[i], q[j])
    <3>1. i \in DOMAIN outbox
      BY <1>1, <2>1
    <3>2. CASE j \in DOMAIN outbox
      BY <1>1, <2>1, <3>1, <3>2 DEF Usual, OutboxOrdered, Ordered
    <3>3. CASE j = n
      BY <1>1, <1>7, <3>1, <3>3
    <3> QED BY <1>2, <3>2, <3>3
  <2> QED BY <2>1 DEF Ordered
<1>9. \A y \in Facts : ~ Same(y, x)
  BY <1>6 DEF Same
<1>10. Content(x) \notin Recorded
  <2>1. Same(Content(x), x)
    BY DEF Same, Content
  <2> QED BY <1>9, <2>1 DEF Facts
<1>11. SealedIn(q, Recorded)
  BY <1>1, <1>2, <1>10 DEF Usual, RecordedSealed, SealedIn
<1>12. \A y : SentFrom(outbox, y) => SentFrom(q, y)
  BY <1>1, <1>3 DEF SentFrom
<1>13. ~ Delivered(receipts, x)
  <2>1. ASSUME NEW r \in receipts, Same(r, x) PROVE FALSE
    <3>1. Content(r) \in Facts /\ Same(Content(r), x)
      BY <2>1 DEF Facts, Recorded, Content, Same
    <3> QED BY <1>9, <3>1
  <2> QED BY <2>1 DEF Delivered
<1>14. \A s \in Spools : Held(q, receipts, s) = Held(outbox, receipts, s) + x.amounts[s]
  BY <1>13, HeldAppended DEF Usual, MoreTypes
<1> QED BY <1>1, <1>5, <1>8, <1>11, <1>12, <1>14 DEF Untouched

\* An addition to a report that has not been sent.
Merged(q, i) ==
    /\ q \in Seq(Report) /\ DOMAIN q = DOMAIN outbox
    /\ ~ outbox[i].sealed
    /\ \A j \in DOMAIN outbox : j # i => q[j] = outbox[j]
    /\ Same(q[i], outbox[i]) /\ q[i].binding = outbox[i].binding
    /\ q[i].amounts = Plus(outbox[i].amounts, Attributed)

LEMMA OutboxMerged ==
    ASSUME Usual, NEW i \in DOMAIN outbox, NEW q, Merged(q, i)
    PROVE  /\ Untouched(q)
           /\ Content(outbox[i]) \notin Recorded
           /\ ContentsOf(q) = (Queued \ {Content(outbox[i])}) \union {Content(q[i])}
           /\ \A s \in Spools :
                 Held(q, receipts, s) = Held(outbox, receipts, s) + Attributed[s]
<1> DEFINE old == Content(outbox[i])
           new == Content(q[i])
<1>1. /\ q \in Seq(Report) /\ DOMAIN q = DOMAIN outbox /\ ~ outbox[i].sealed
      /\ \A j \in DOMAIN outbox : j # i => q[j] = outbox[j]
      /\ q[i].job = outbox[i].job /\ q[i].sequence = outbox[i].sequence
  BY DEF Merged, Same
<1>2. old \notin Recorded
  BY <1>1 DEF Usual, RecordedSealed, SealedIn
<1>3. /\ old.job = outbox[i].job /\ old.sequence = outbox[i].sequence
      /\ new.job = old.job /\ new.sequence = old.sequence
  BY <1>1 DEF Content
<1>4. new \notin Recorded
  <2>1. ASSUME new \in Recorded PROVE FALSE
    <3>1. new \in Facts /\ old \in Facts
      BY <2>1, QueuedAt DEF Facts
    <3>2. new = old
      BY <1>3, <3>1 DEF Usual, Agreement, FactsAgree
    <3> QED BY <1>2, <2>1, <3>2
  <2> QED BY <2>1
<1>5. \A j \in DOMAIN outbox : j # i => Content(outbox[j]) # old
  <2>1. ASSUME NEW j \in DOMAIN outbox, Content(outbox[j]) = old PROVE j = i
    <3>1. Same(outbox[j], outbox[i])
      BY <2>1, SameContent DEF Same
    <3> QED BY <3>1, OneInOutbox DEF Usual
  <2> QED BY <2>1
<1>6. ContentsOf(q) = (Queued \ {old}) \union {new}
  <2>1. \A x \in ContentsOf(q) : x = new \/ (x \in Queued /\ x # old)
    <3> HIDE DEF new, old
    <3>1. ASSUME NEW j \in DOMAIN q
          PROVE  Content(q[j]) = Content(q[i])
                 \/ (Content(q[j]) \in Queued /\ Content(q[j]) # old)
      <4>1. CASE j = i
        BY <4>1
      <4>2. CASE j # i
        BY <1>1, <1>5, <4>2 DEF Queued, ContentsOf
      <4> QED BY <4>1, <4>2
    <3> QED BY <3>1 DEF ContentsOf, new
  <2>2. new \in ContentsOf(q)
    BY <1>1 DEF ContentsOf
  <2>3. \A x \in Queued : x # old => x \in ContentsOf(q)
    <3>1. ASSUME NEW j \in DOMAIN outbox, Content(outbox[j]) # old
          PROVE  Content(outbox[j]) \in ContentsOf(q)
      <4>1. j # i
        BY <3>1
      <4> HIDE DEF old
      <4> QED BY <1>1, <4>1 DEF ContentsOf
    <3> HIDE DEF old
    <3> QED BY <3>1 DEF Queued, ContentsOf
  <2> HIDE DEF old, new
  <2> QED BY <2>1, <2>2, <2>3
<1>7. Ordered(q)
  <2>1. \A j \in DOMAIN outbox : q[j].job = outbox[j].job /\ q[j].sequence = outbox[j].sequence
    BY <1>1
  <2> QED BY <1>1, <2>1 DEF Usual, OutboxOrdered, Ordered, Earlier
<1>8. SealedIn(q, Recorded)
  <2>1. ASSUME NEW j \in DOMAIN q, Content(q[j]) \in Recorded PROVE q[j].sealed
    <3>1. j # i
      BY <1>4, <2>1
    <3> QED BY <1>1, <2>1, <3>1 DEF Usual, RecordedSealed, SealedIn
  <2> QED BY <2>1 DEF SealedIn
<1>9. \A x : SentFrom(outbox, x) => SentFrom(q, x)
  BY <1>1 DEF SentFrom
<1>10. ~ Delivered(receipts, outbox[i])
  BY <1>2, DeliveredIs DEF Usual, Agreement
<1>11. ASSUME NEW s \in Spools
       PROVE  Held(q, receipts, s) = Held(outbox, receipts, s) + Attributed[s]
  <2>1. Held(q, receipts, s)
           = Held(outbox, receipts, s) + q[i].amounts[s] - outbox[i].amounts[s]
    BY <1>1, <1>10, HeldMerged DEF Usual, MoreTypes, Merged
  <2>2. outbox[i].amounts[s] \in Nat /\ Held(outbox, receipts, s) \in Nat
    BY OwedIs DEF Usual, MoreTypes
  <2>3. outbox[i].amounts \in [Spools -> 0..MaxFed] /\ Attributed[s] \in Nat
    BY AttributedIs, QueuedTyped DEF Usual
  <2>4. q[i].amounts[s] = outbox[i].amounts[s] + Attributed[s]
    BY <2>3, PlusIs DEF Merged
  <2> QED BY <2>1, <2>2, <2>3, <2>4
<1> QED BY <1>1, <1>2, <1>6, <1>7, <1>8, <1>9, <1>11 DEF Untouched

\* What is still in the tracker fits a report,
LEMMA AttributedFits ==
    ASSUME Usual
    PROVE  Attributed \in Amounts
<1>1. \A s \in Spools : Attributed[s] \in 0..MaxFed
  <2> TAKE s \in Spools
  <2>1. /\ charged[s] \in Nat /\ Held(outbox, receipts, s) \in Nat
        /\ Attributed[s] \in Nat /\ lost[s] \in Nat /\ MaxFed \in Nat /\ fed[s] <= MaxFed
        /\ fed[s] = charged[s] + Held(outbox, receipts, s) + Attributed[s] + lost[s]
    BY Bounded DEF Usual
  <2> QED BY <2>1
<1> QED BY <1>1, AttributedIs DEF Usual, Amounts

\* also together with what an unrecorded report says.
LEMMA MergedFits ==
    ASSUME Usual, NEW i \in DOMAIN outbox, Content(outbox[i]) \notin Recorded
    PROVE  /\ Plus(outbox[i].amounts, Attributed) \in Amounts
           /\ outbox[i].amounts # NoFilament => Plus(outbox[i].amounts, Attributed) # NoFilament
<1>1. outbox[i].amounts \in [Spools -> 0..MaxFed]
  BY QueuedTyped DEF Usual
<1>2. Plus(outbox[i].amounts, Attributed)
         = [s \in Spools |-> outbox[i].amounts[s] + Attributed[s]]
  BY <1>1, PlusIs
<1>3. ~ Delivered(receipts, outbox[i])
  BY DeliveredIs DEF Usual, Agreement
<1>4. ASSUME NEW s \in Spools
      PROVE  /\ outbox[i].amounts[s] + Attributed[s] \in 0..MaxFed
             /\ outbox[i].amounts[s] # 0 => outbox[i].amounts[s] + Attributed[s] # 0
  <2>1. /\ charged[s] \in Nat /\ Held(outbox, receipts, s) \in Nat
        /\ Attributed[s] \in Nat /\ lost[s] \in Nat /\ MaxFed \in Nat /\ fed[s] <= MaxFed
        /\ fed[s] = charged[s] + Held(outbox, receipts, s) + Attributed[s] + lost[s]
    BY Bounded DEF Usual
  <2>2. outbox[i].amounts[s] \in Nat /\ outbox[i].amounts[s] <= Held(outbox, receipts, s)
    BY <1>3, OwedIs, OwedPart DEF Usual, MoreTypes
  <2> QED BY <2>1, <2>2
<1>5. Plus(outbox[i].amounts, Attributed) \in Amounts
  BY <1>2, <1>4 DEF Amounts
<1>6. ASSUME outbox[i].amounts # NoFilament
      PROVE  Plus(outbox[i].amounts, Attributed) # NoFilament
  <2>1. PICK s \in Spools : outbox[i].amounts[s] # 0
    BY <1>1, <1>6 DEF NoFilament
  <2> QED BY <1>2, <1>4, <2>1 DEF NoFilament
<1> QED BY <1>5, <1>6

\* The reports a checkpoint leaves in the outbox, and the print's last number.
Reported(Q, n) ==
    \/ n = print.sequence /\ Q = Queued
    \/ /\ n = print.sequence
       /\ \E old \in Queued \ Recorded : \E c :
             /\ c.job = old.job /\ c.sequence = old.sequence /\ c.binding = old.binding
             /\ c.status \notin Terminal /\ c.amounts # NoFilament
             /\ Q = (Queued \ {old}) \union {c}
    \/ /\ n = print.sequence + 1
       /\ \E c :
             /\ c.job = print.job /\ c.sequence = print.sequence + 1
             /\ c.binding = print.binding
             /\ c.status \notin Terminal /\ c.amounts # NoFilament
             /\ Q = Queued \union {c}

LEMMA AgreementReported ==
    ASSUME Usual, Printing, print' # None, print'.job = print.job, print'.binding = print.binding,
           Reported(Queued', print'.sequence), Recorded' = Recorded, started' = started
    PROVE  Agreement'
<1>1. CASE print'.sequence = print.sequence /\ Queued' = Queued
  <2>1. Facts' = Facts /\ SamePrint
    BY <1>1 DEF Facts, SamePrint
  <2> QED BY <2>1, AgreementKept DEF Usual
<1>2. ASSUME print'.sequence = print.sequence, NEW old \in Queued \ Recorded, NEW c,
             c.job = old.job, c.sequence = old.sequence, c.binding = old.binding,
             c.status \notin Terminal, c.amounts # NoFilament,
             Queued' = (Queued \ {old}) \union {c}
      PROVE  Agreement'
  <2>1. /\ Facts' = (Facts \ {old}) \union {c} /\ old \in Facts /\ old \notin Recorded
        /\ SamePrint
    BY <1>2 DEF Facts, SamePrint
  <2> QED BY <1>2, <2>1, AgreementSwapped DEF Usual
<1>3. ASSUME print'.sequence = print.sequence + 1, NEW c,
             c.job = print.job, c.sequence = print.sequence + 1, c.binding = print.binding,
             c.status \notin Terminal, c.amounts # NoFilament, Queued' = Queued \union {c}
      PROVE  Agreement'
  <2>1. Facts' = Facts \union {c}
    BY <1>3 DEF Facts
  <2> QED BY <1>3, <2>1, AgreementGrown DEF Usual
<1> QED BY <1>1, <1>2, <1>3 DEF Reported

\* _queue_usage_locked
LEMMA Checkpointing ==
    ASSUME Usual, Printing, Room, NEW paused \in BOOLEAN,
           NEW q, q = Checkpointed(paused).outbox, NEW n, n = Checkpointed(paused).sequence
    PROVE  /\ Untouched(q) /\ Reported(ContentsOf(q), n) /\ n \in 0..(MaxSequence - 1)
           /\ \A s \in Spools :
                 Held(q, receipts, s) = Held(outbox, receipts, s) + Attributed[s]
<1>1. /\ print.sequence \in Nat /\ print.sequence + 1 < MaxSequence /\ MaxSequence \in Nat
      /\ print \in PrintState
  BY BoundsAssumption DEF Usual, TypeOK, PrintState, Printing, Room
<1>2. CASE Pending # 0
  <2>1. /\ Pending \in DOMAIN outbox /\ Mergeable(outbox[Pending])
        /\ DOMAIN outbox = 1..Len(outbox)
    BY <1>2, PendingIs DEF Usual, MoreTypes
  <2> DEFINE i == Pending
             old == outbox[i]
             x == [old EXCEPT !.amounts = Plus(@, Attributed),
                              !.status = IF paused THEN "paused" ELSE @]
  <2>2. n = print.sequence
    BY <1>2 DEF Checkpointed
  <2>3. q = [outbox EXCEPT ![i].amounts = Plus(@, Attributed),
                           ![i].status = IF paused THEN "paused" ELSE @]
    BY <1>2 DEF Checkpointed
  <2>4. old \in Report
    BY <2>1, QueuedTyped DEF Usual
  <2>5. DOMAIN q = DOMAIN outbox /\ q[i] = x /\ \A j \in DOMAIN outbox : j # i => q[j] = outbox[j]
    BY <2>1, <2>3, <2>4 DEF Report
  <2>6. ~ old.sealed /\ old.status \notin Terminal
    BY <2>1 DEF Mergeable
  <2>7. Content(old) \notin Recorded /\ Content(old) \in Facts /\ Content(old) \in Queued
    BY <2>1, <2>6, QueuedAt DEF Usual, RecordedSealed, SealedIn
  <2>8. old.amounts # NoFilament
    BY <2>6, <2>7 DEF Usual, Agreement, FactsAgree, Content
  <2>9. Plus(old.amounts, Attributed) \in Amounts /\ Plus(old.amounts, Attributed) # NoFilament
    BY <2>1, <2>7, <2>8, MergedFits
  <2>10. /\ x \in Report /\ x.job = old.job /\ x.sequence = old.sequence
         /\ x.binding = old.binding /\ x.amounts = Plus(old.amounts, Attributed)
         /\ x.status \notin Terminal
    BY <2>4, <2>6, <2>9 DEF Report, Terminal
  <2> HIDE DEF i, x, old
  <2>11. q \in Seq(Report)
    <3>1. \A j \in DOMAIN q : q[j] \in Report
      <4>1. \A j \in DOMAIN outbox : outbox[j] \in Report
        BY QueuedTyped DEF Usual
      <4> QED BY <2>5, <2>10, <4>1
    <3>2. outbox \in Seq(Report)
      BY DEF Usual, MoreTypes
    <3>3. Len(outbox) \in Nat /\ DOMAIN q = 1..Len(outbox)
      BY <2>1, <2>5, <3>2
    <3>4. q = [j \in DOMAIN q |-> q[j]]
      BY <2>3
    <3> QED BY <3>1, <3>3, <3>4, SeqDef
  <2>12. Merged(q, i)
    BY <2>5, <2>6, <2>10, <2>11 DEF Merged, Same, old
  <2>13. /\ Untouched(q) /\ ContentsOf(q) = (Queued \ {Content(old)}) \union {Content(x)}
         /\ \A s \in Spools : Held(q, receipts, s) = Held(outbox, receipts, s) + Attributed[s]
    BY <2>1, <2>5, <2>12, OutboxMerged DEF i, old
  <2>14. Reported(ContentsOf(q), n)
    <3>1. /\ Content(x).job = Content(old).job /\ Content(x).sequence = Content(old).sequence
          /\ Content(x).binding = Content(old).binding
          /\ Content(x).status \notin Terminal /\ Content(x).amounts # NoFilament
      BY <2>9, <2>10 DEF Content
    <3> QED BY <2>2, <2>7, <2>13, <3>1 DEF Reported
  <2> QED BY <1>1, <2>2, <2>13, <2>14
<1>3. CASE Pending = 0 /\ Attributed = NoFilament
  <2>1. q = outbox /\ n = print.sequence
    BY <1>3 DEF Checkpointed
  <2>2. Untouched(q)
    BY <2>1 DEF Untouched, Usual, MoreTypes, OutboxOrdered, RecordedSealed
  <2>3. Reported(ContentsOf(q), n)
    BY <2>1 DEF Reported, Queued
  <2>4. \A s \in Spools : Held(q, receipts, s) = Held(outbox, receipts, s) + Attributed[s]
    <3>1. \A s \in Spools : Attributed[s] = 0 /\ Held(outbox, receipts, s) \in Nat
      BY <1>3, OwedIs DEF NoFilament, Usual, MoreTypes
    <3> QED BY <2>1, <3>1
  <2> QED BY <1>1, <2>1, <2>2, <2>3, <2>4
<1>4. CASE Pending = 0 /\ Attributed # NoFilament
  <2> DEFINE status == IF paused THEN "paused" ELSE "printing"
             x == NewReport(status)
  <2>1. q = Append(outbox, x) /\ n = print.sequence + 1
    BY <1>4 DEF Checkpointed
  <2>2. Attributed \in Amounts
    BY AttributedFits
  <2>3. /\ x \in Report /\ x.job = print.job /\ x.sequence = print.sequence + 1
        /\ x.binding = print.binding /\ x.amounts = Attributed /\ x.status \notin Terminal
    BY <1>1, <2>2 DEF NewReport, Report, PrintState, Terminal
  <2> HIDE DEF x
  <2>4. /\ Untouched(q) /\ ContentsOf(q) = Queued \union {Content(x)}
        /\ \A s \in Spools : Held(q, receipts, s) = Held(outbox, receipts, s) + Attributed[s]
    BY <2>1, <2>3, OutboxExtended
  <2>5. Reported(ContentsOf(q), n)
    BY <1>4, <2>1, <2>3, <2>4 DEF Reported, Content
  <2> QED BY <1>1, <2>1, <2>4, <2>5
<1> QED BY <1>2, <1>3, <1>4

-----------------------------------------------------------------------------
(* Each step keeps the invariant. *)

LEMMA InvIs == IInv <=> Usual /\ FlightQueued /\ JobsFollow
BY DEF IInv, Usual, Agreement

LEMMA InvIsNext == IInv' <=> Usual' /\ FlightQueued' /\ JobsFollow'
BY DEF IInv, Usual, Agreement

LEMMA AttributedIsNext ==
    ASSUME TypeOK'
    PROVE  Attributed' \in [Spools -> Nat]
<1>1. tracker' \in [Slots -> Nat]
  BY BoundsAssumption DEF TypeOK
<1>2. ASSUME NEW s \in Spools
      PROVE  SumFunctionOnSet(tracker', {slot \in Slots : print'.routes[slot] = s}) \in Nat
  BY <1>1, FedThroughNat
<1> QED BY <1>2 DEF Attributed, Printing, NoFilament

LEMMA AttributedNone ==
    ASSUME tracker' = Unused \/ print' = None
    PROVE  Attributed' = NoFilament
<1>1. CASE print' = None
  BY <1>1 DEF Attributed, Printing
<1>2. CASE tracker' = Unused /\ print' # None
  <2>1. ASSUME NEW s \in Spools
        PROVE  SumFunctionOnSet(tracker', {slot \in Slots : print'.routes[slot] = s}) = 0
    BY <1>2, NothingAttributed DEF Unused
  <2> QED BY <1>2, <2>1 DEF Attributed, Printing, NoFilament
<1> QED BY <1>1, <1>2

\* A step that leaves the receipts alone, and outbox p but for its marks.
LEMMA BooksKept ==
    ASSUME IInv, NEW p, Untouched(p), outbox' \in Seq(Report), Marked(p, outbox'),
           receipts' = receipts,
           \A s \in Spools :
              fed'[s] = charged'[s] + Held(p, receipts, s) + Attributed'[s] + lost'[s]
    PROVE  /\ FilamentAccounted' /\ OutboxOrdered' /\ RecordedSealed'
           /\ Queued' = ContentsOf(p) /\ Recorded' = Recorded
           /\ \A x : SentFrom(outbox, x) => SentFrom(outbox', x)
<1>1. Untouched(outbox') /\ ContentsOf(outbox') = ContentsOf(p)
  BY UntouchedMarked
<1>2. Recorded' = Recorded
  BY DEF Recorded
<1>3. Queued' = ContentsOf(p)
  BY <1>1 DEF Queued
<1>4. OutboxOrdered' /\ RecordedSealed'
  BY <1>1, <1>2 DEF Untouched, OutboxOrdered, RecordedSealed
<1>5. ASSUME NEW s \in Spools
      PROVE  fed'[s] = charged'[s] + Waiting(s)' + Attributed'[s] + lost'[s]
  <2>1. Waiting(s)' = Held(outbox', receipts', s)
    BY WaitingIsNext
  <2>2. Held(outbox', receipts, s) = Held(p, receipts, s)
    BY HeldMarked DEF Untouched
  <2> QED BY <2>1, <2>2
<1>6. FilamentAccounted'
  BY <1>5 DEF FilamentAccounted, IInv
<1> QED BY <1>1, <1>2, <1>3, <1>4, <1>6 DEF Untouched

\* The same when not even the outbox changes.
LEMMA BooksUnchanged ==
    ASSUME IInv, outbox' = outbox, receipts' = receipts,
           \A s \in Spools :
              fed'[s] = charged'[s] + Held(outbox, receipts, s) + Attributed'[s] + lost'[s]
    PROVE  /\ FilamentAccounted' /\ OutboxOrdered' /\ RecordedSealed'
           /\ Facts' = Facts /\ Recorded' = Recorded
<1>1. Untouched(outbox) /\ outbox' \in Seq(Report) /\ Marked(outbox, outbox')
  BY DEF Untouched, IInv, MoreTypes, OutboxOrdered, RecordedSealed, Marked
<1>2. /\ FilamentAccounted' /\ OutboxOrdered' /\ RecordedSealed'
      /\ Queued' = ContentsOf(outbox) /\ Recorded' = Recorded
  BY <1>1, BooksKept
<1> QED BY <1>2 DEF Facts, Queued

LEMMA BeginPrintInv == ASSUME IInv, BeginPrint PROVE IInv'
<1>1. /\ print = None /\ started < MaxJobs /\ started' = started + 1 /\ tracker' = Unused
      /\ print' = [job |-> started + 1, binding |-> binding, sequence |-> 0,
                   routes |-> IF snapshot = None THEN Unassigned ELSE snapshot]
      /\ UNCHANGED <<working, flight, settings, cloud, fed, lost, closed, changes>>
  BY DEF BeginPrint, Printing
<1>2. TypeOK /\ MoreTypes /\ Usual /\ FlightQueued /\ JobsFollow
  BY InvIs DEF Usual
<1>3. started \in Nat /\ MaxJobs \in Nat
  BY <1>2, BoundsAssumption DEF MoreTypes
<1>4. print' \in PrintState /\ print'.job = started + 1 /\ print'.sequence = 0
  <2>1. Unassigned \in Routes
    BY DEF Unassigned, Routes
  <2>2. started + 1 \in Jobs /\ 0 \in 0..MaxSequence
    BY <1>1, <1>3, BoundsAssumption DEF Jobs
  <2>3. snapshot # None => snapshot \in Routes
    BY <1>2 DEF TypeOK
  <2>4. binding \in Bindings \union {None}
    BY <1>2 DEF TypeOK
  <2> QED BY <1>1, <2>1, <2>2, <2>3, <2>4 DEF PrintState
<1>5. TypeOK'
  <2>1. tracker' \in [Slots -> 0..MaxFed]
    BY <1>1, BoundsAssumption DEF Unused
  <2> QED BY <1>1, <1>2, <1>4, <2>1 DEF TypeOK, settings, cloud
<1>6. MoreTypes'
  <2>1. started' \in 0..MaxJobs
    BY <1>1, <1>3
  <2>2. print'.job = started' /\ print'.sequence < MaxSequence
    BY <1>1, <1>4, BoundsAssumption
  <2> QED BY <1>1, <1>2, <2>1, <2>2 DEF MoreTypes, Printing, settings, cloud
<1>7. /\ FilamentAccounted' /\ OutboxOrdered' /\ RecordedSealed'
      /\ Facts' = Facts /\ Recorded' = Recorded
  <2>1. Attributed' = NoFilament /\ Attributed = NoFilament
    BY <1>1, AttributedNone DEF Attributed, Printing
  <2>2. \A s \in Spools :
           fed'[s] = charged'[s] + Held(outbox, receipts, s) + Attributed'[s] + lost'[s]
    BY <1>1, <1>2, <2>1, Bounded DEF Usual, cloud
  <2> QED BY <1>1, <2>2, BooksUnchanged DEF settings, cloud
<1>8. Agreement'
  BY <1>1, <1>2, <1>4, <1>7, AgreementKept DEF Usual
<1>9. FlightQueued' /\ JobsFollow'
  BY <1>1, <1>2, <1>7 DEF FlightQueued, JobsFollow, settings, cloud
<1> QED BY <1>5, <1>6, <1>7, <1>8, <1>9, InvIsNext DEF Usual

LEMMA CrashInv == ASSUME IInv, Crash PROVE IInv'
<1>1. /\ lost' = Plus(lost, Attributed) /\ print' = None /\ tracker' = Unused /\ flight' = None
      /\ working' = TRUE
      /\ UNCHANGED <<settings, cloud, started, fed, closed, changes>>
  BY DEF Crash
<1>2. TypeOK /\ MoreTypes /\ Usual /\ JobsFollow
  BY InvIs DEF Usual
<1>3. lost' = [s \in Spools |-> lost[s] + Attributed[s]]
  BY <1>1, <1>2, PlusIs DEF TypeOK, Amounts
<1>4. ASSUME NEW s \in Spools
      PROVE  /\ lost'[s] \in 0..MaxFed
             /\ fed[s] = charged[s] + Held(outbox, receipts, s) + lost'[s]
  <2>1. /\ charged[s] \in Nat /\ Held(outbox, receipts, s) \in Nat
        /\ Attributed[s] \in Nat /\ lost[s] \in Nat /\ MaxFed \in Nat /\ fed[s] <= MaxFed
        /\ fed[s] = charged[s] + Held(outbox, receipts, s) + Attributed[s] + lost[s]
    BY <1>2, Bounded DEF Usual
  <2> QED BY <1>3, <2>1
<1>5. TypeOK' /\ MoreTypes'
  <2>1. tracker' \in [Slots -> 0..MaxFed]
    BY <1>1, BoundsAssumption DEF Unused
  <2>2. lost' \in Amounts
    BY <1>3, <1>4 DEF Amounts
  <2> QED BY <1>1, <1>2, <2>1, <2>2 DEF TypeOK, MoreTypes, Printing, settings, cloud
<1>6. /\ FilamentAccounted' /\ OutboxOrdered' /\ RecordedSealed'
      /\ Facts' = Facts /\ Recorded' = Recorded
  <2>1. Attributed' = NoFilament
    BY <1>1, AttributedNone
  <2>2. \A s \in Spools :
           fed'[s] = charged'[s] + Held(outbox, receipts, s) + Attributed'[s] + lost'[s]
    <3> TAKE s \in Spools
    <3>1. charged[s] \in Nat /\ Held(outbox, receipts, s) \in Nat
      BY <1>2, Bounded DEF Usual
    <3>2. Attributed'[s] = 0 /\ fed'[s] = fed[s] /\ charged'[s] = charged[s]
      BY <1>1, <2>1 DEF NoFilament, cloud
    <3>3. lost'[s] \in Nat
      BY <1>4, BoundsAssumption
    <3> QED BY <1>4, <3>1, <3>2, <3>3
  <2> QED BY <1>1, <2>2, BooksUnchanged DEF settings, cloud
<1>7. Agreement'
  BY <1>1, <1>2, <1>6, AgreementKept DEF Usual
<1>8. FlightQueued' /\ JobsFollow'
  BY <1>1, <1>2, <1>6 DEF FlightQueued, JobsFollow, cloud
<1> QED BY <1>5, <1>6, <1>7, <1>8, InvIsNext DEF Usual

\* A unit extruded through a slot is attributed to the spool that is routed to it.
LEMMA ExtrudeAttributes ==
    ASSUME IInv, NEW slot \in Slots, Extrude(slot), NEW s \in Spools
    PROVE  Attributed'[s] = Attributed[s] + (IF print.routes[slot] = s THEN 1 ELSE 0)
<1>1. /\ print # None /\ print' = print
      /\ tracker' = [tracker EXCEPT ![slot] = @ + 1]
  BY DEF Extrude, Printing
<1>2. TypeOK /\ tracker \in [Slots -> Nat]
  BY BoundsAssumption DEF IInv, TypeOK
<1> DEFINE A == {t \in Slots : print.routes[t] = s}
<1>3. IsFiniteSet(A)
  BY BoundsAssumption, FS_Subset
<1>4. /\ Attributed[s] = SumFunctionOnSet(tracker, A)
      /\ Attributed'[s] = SumFunctionOnSet(tracker', A)
  BY <1>1 DEF Attributed, Printing
<1>5. \A t \in A : tracker[t] \in Int /\ tracker'[t] \in Int
  BY <1>1, <1>2
<1>6. \A t \in A : t # slot => tracker'[t] = tracker[t]
  BY <1>1, <1>2
<1>7. tracker'[slot] = tracker[slot] + 1 /\ tracker[slot] \in Nat
  BY <1>1, <1>2
<1>8. Attributed[s] \in Nat
  BY <1>2, AttributedIs
<1>9. CASE slot \in A
  <2>1. SumFunctionOnSet(tracker', A)
           = SumFunctionOnSet(tracker, A) + tracker'[slot] - tracker[slot]
    <3> HIDE DEF A
    <3> QED BY <1>3, <1>5, <1>6, <1>9, SumChange
  <2> QED BY <1>4, <1>7, <1>8, <1>9, <2>1
<1>10. CASE slot \notin A
  <2>1. \A t \in A : tracker'[t] = tracker[t]
    BY <1>6, <1>10
  <2>2. SumFunctionOnSet(tracker', A) = SumFunctionOnSet(tracker, A)
    <3> HIDE DEF A
    <3> QED BY <1>3, <1>5, <2>1, SumSame
  <2> QED BY <1>4, <1>8, <1>10, <2>2
<1> QED BY <1>9, <1>10

LEMMA ExtrudeInv == ASSUME IInv, NEW slot \in Slots, Extrude(slot) PROVE IInv'
<1>1. /\ print # None /\ SumFunction(fed) < MaxFed /\ tracker[slot] < MaxFed
      /\ tracker' = [tracker EXCEPT ![slot] = @ + 1]
      /\ fed' = IF print.routes[slot] = NoSpool THEN fed
                ELSE [fed EXCEPT ![print.routes[slot]] = @ + 1]
      /\ UNCHANGED <<print, working, flight, settings, cloud, started, lost, closed, changes>>
  BY DEF Extrude, Printing
<1>2. TypeOK /\ MoreTypes /\ Usual /\ FlightQueued /\ JobsFollow
  BY InvIs DEF Usual
<1>3. /\ MaxFed \in Nat /\ IsFiniteSet(Spools) /\ NoSpool \notin Spools
      /\ fed \in [Spools -> 0..MaxFed] /\ DOMAIN fed = Spools
  BY <1>2, BoundsAssumption DEF TypeOK, Amounts
<1>4. print.routes[slot] \in Spools \union {NoSpool}
  BY <1>1, <1>2 DEF TypeOK, PrintState, Routes
<1>5. tracker' \in [Slots -> 0..MaxFed]
  BY <1>1, <1>2, <1>3 DEF TypeOK
<1> DEFINE spool == print.routes[slot]
<1>6. fed' \in Amounts /\ SumFunction(fed') <= MaxFed
  <2>1. CASE spool = NoSpool
    BY <1>1, <1>2, <2>1 DEF TypeOK, MoreTypes
  <2>2. CASE spool # NoSpool
    <3>1. spool \in Spools /\ fed' = [fed EXCEPT ![spool] = @ + 1]
      BY <1>1, <1>4, <2>2
    <3>2. fed[spool] \in Nat /\ fed[spool] <= SumFunction(fed) /\ SumFunction(fed) \in Nat
      <4>1. \A x \in Spools : fed[x] \in Nat
        BY <1>3
      <4> HIDE DEF spool
      <4> QED BY <1>3, <3>1, <4>1, SumAtLeast, SumNat DEF SumFunction
    <3>3. fed' \in Amounts /\ DOMAIN fed' = Spools
      BY <1>1, <1>3, <3>1, <3>2 DEF Amounts
    <3>4. SumFunction(fed') = SumFunction(fed) + fed'[spool] - fed[spool]
      <4>1. \A x \in Spools : fed[x] \in Int /\ fed'[x] \in Int
        BY <1>3, <3>3 DEF Amounts
      <4>2. \A x \in Spools : x # spool => fed'[x] = fed[x]
        BY <1>3, <3>1
      <4> HIDE DEF spool
      <4> QED BY <1>3, <3>1, <3>3, <4>1, <4>2, SumChange, ZenonT(40) DEF SumFunction
    <3>5. fed'[spool] = fed[spool] + 1
      BY <1>3, <3>1
    <3> HIDE DEF spool
    <3>6. SumFunction(fed') = SumFunction(fed) + 1
      BY <3>2, <3>4, <3>5
    <3> QED BY <1>1, <1>3, <3>2, <3>3, <3>6
  <2> QED BY <2>1, <2>2
<1>7. TypeOK' /\ MoreTypes'
  BY <1>1, <1>2, <1>5, <1>6 DEF TypeOK, MoreTypes, Printing, settings, cloud
<1>8. /\ FilamentAccounted' /\ OutboxOrdered' /\ RecordedSealed'
      /\ Facts' = Facts /\ Recorded' = Recorded
  <2>1. ASSUME NEW s \in Spools
        PROVE  fed'[s] = charged'[s] + Held(outbox, receipts, s) + Attributed'[s] + lost'[s]
    <3>1. Attributed'[s] = Attributed[s] + (IF spool = s THEN 1 ELSE 0)
      BY ExtrudeAttributes
    <3>2. fed'[s] = fed[s] + (IF spool = s THEN 1 ELSE 0)
      BY <1>1, <1>3
    <3>3. charged'[s] = charged[s] /\ lost'[s] = lost[s]
      BY <1>1 DEF cloud
    <3>4. /\ charged[s] \in Nat /\ Held(outbox, receipts, s) \in Nat
          /\ Attributed[s] \in Nat /\ lost[s] \in Nat
          /\ fed[s] = charged[s] + Held(outbox, receipts, s) + Attributed[s] + lost[s]
      BY <1>2, Bounded DEF Usual
    <3> HIDE DEF spool
    <3> QED BY <3>1, <3>2, <3>3, <3>4
  <2> QED BY <1>1, <2>1, BooksUnchanged DEF settings, cloud
<1>9. Agreement'
  BY <1>1, <1>2, <1>8, AgreementKept DEF Usual
<1>10. FlightQueued' /\ JobsFollow'
  BY <1>1, <1>2, <1>8 DEF FlightQueued, JobsFollow, settings, cloud
<1> QED BY <1>7, <1>8, <1>9, <1>10, InvIsNext DEF Usual

LEMMA CheckpointInv == ASSUME IInv, NEW paused \in BOOLEAN, Checkpoint(paused) PROVE IInv'
<1> DEFINE q == Checkpointed(paused).outbox
           n == Checkpointed(paused).sequence
<1>1. /\ Printing /\ Room /\ outbox' = q /\ print' = [print EXCEPT !.sequence = n]
      /\ tracker' = Unused
      /\ UNCHANGED <<working, flight, binding, snapshot, cloud, history>>
  BY DEF Checkpoint
<1>2. TypeOK /\ MoreTypes /\ Usual /\ FlightQueued /\ JobsFollow
  BY InvIs DEF Usual
<1>3. /\ Untouched(q) /\ Reported(ContentsOf(q), n) /\ n \in 0..(MaxSequence - 1)
      /\ \A s \in Spools : Held(q, receipts, s) = Held(outbox, receipts, s) + Attributed[s]
  <2> HIDE DEF q, n
  <2> QED BY <1>1, <1>2, Checkpointing DEF q, n
<1> HIDE DEF q, n
<1>4. /\ print \in PrintState /\ print' \in PrintState /\ print' # None
      /\ print'.job = print.job /\ print'.binding = print.binding /\ print'.sequence = n
      /\ n < MaxSequence
  <2>1. print \in PrintState
    BY <1>1, <1>2 DEF TypeOK, Printing
  <2>2. n \in 0..MaxSequence /\ n < MaxSequence
    BY <1>3, BoundsAssumption
  <2>3. print' \in PrintState
    BY <1>1, <2>1, <2>2 DEF PrintState
  <2> QED BY <1>1, <2>1, <2>2, <2>3, NoneAssumption DEF PrintState
<1>5. TypeOK' /\ MoreTypes'
  <2>1. outbox' \in Seq(Report) /\ Range(outbox') \subseteq Report
    BY <1>1, <1>3 DEF Untouched, Range
  <2>2. tracker' \in [Slots -> 0..MaxFed]
    BY <1>1, BoundsAssumption DEF Unused
  <2> QED BY <1>1, <1>2, <1>4, <2>1, <2>2 DEF TypeOK, MoreTypes, Printing, cloud, history
<1>6. /\ FilamentAccounted' /\ OutboxOrdered' /\ RecordedSealed'
      /\ Queued' = ContentsOf(q) /\ Recorded' = Recorded
      /\ \A x : SentFrom(outbox, x) => SentFrom(outbox', x)
  <2>1. outbox' \in Seq(Report) /\ Marked(q, outbox') /\ receipts' = receipts
    BY <1>1, <1>3 DEF Untouched, Marked, cloud
  <2>2. ASSUME NEW s \in Spools
        PROVE  fed'[s] = charged'[s] + Held(q, receipts, s) + Attributed'[s] + lost'[s]
    <3>1. Attributed'[s] = 0
      BY <1>1, AttributedNone DEF NoFilament
    <3>2. fed'[s] = fed[s] /\ charged'[s] = charged[s] /\ lost'[s] = lost[s]
      BY <1>1 DEF cloud, history
    <3>3. /\ charged[s] \in Nat /\ Held(outbox, receipts, s) \in Nat
          /\ Attributed[s] \in Nat /\ lost[s] \in Nat
          /\ fed[s] = charged[s] + Held(outbox, receipts, s) + Attributed[s] + lost[s]
      BY <1>2, Bounded DEF Usual
    <3>4. Held(q, receipts, s) = Held(outbox, receipts, s) + Attributed[s]
      BY <1>3
    <3> QED BY <3>1, <3>2, <3>3, <3>4
  <2> QED BY <1>3, <2>1, <2>2, BooksKept
<1>7. Agreement'
  BY <1>1, <1>2, <1>3, <1>4, <1>6, AgreementReported DEF history
<1>8. FlightQueued' /\ JobsFollow'
  BY <1>1, <1>2, <1>6 DEF FlightQueued, JobsFollow, cloud, history
<1> QED BY <1>5, <1>6, <1>7, <1>8, InvIsNext DEF Usual

LEMMA FinishPrintInv ==
    ASSUME IInv, NEW outcome \in Outcomes, FinishPrint(outcome) PROVE IInv'
<1> DEFINE x == NewReport(outcome)
           q == Append(outbox, x)
<1>1. /\ Printing /\ outbox' = q /\ print' = None /\ tracker' = Unused
      /\ UNCHANGED <<working, flight, binding, snapshot, cloud, history>>
  BY DEF FinishPrint
<1>2. TypeOK /\ MoreTypes /\ Usual /\ FlightQueued /\ JobsFollow
  BY InvIs DEF Usual
<1>3. /\ x \in Report /\ x.job = print.job /\ x.sequence = print.sequence + 1
      /\ x.binding = print.binding /\ x.amounts = Attributed /\ x.status \in Terminal
  <2>1. print \in PrintState /\ print.sequence + 1 \in 1..MaxSequence
    BY <1>1, <1>2, BoundsAssumption DEF TypeOK, MoreTypes, PrintState, Printing
  <2>2. Attributed \in Amounts
    BY <1>2, AttributedFits
  <2> QED BY <2>1, <2>2, BoundsAssumption DEF NewReport, Report, PrintState
<1> HIDE DEF x
<1>4. /\ Untouched(q) /\ ContentsOf(q) = Queued \union {Content(x)}
      /\ \A s \in Spools : Held(q, receipts, s) = Held(outbox, receipts, s) + Attributed[s]
  BY <1>1, <1>2, <1>3, OutboxExtended
<1> HIDE DEF q
<1>5. TypeOK' /\ MoreTypes'
  <2>1. outbox' \in Seq(Report) /\ Range(outbox') \subseteq Report
    BY <1>1, <1>4 DEF Untouched, Range
  <2>2. tracker' \in [Slots -> 0..MaxFed]
    BY <1>1, BoundsAssumption DEF Unused
  <2> QED BY <1>1, <1>2, <2>1, <2>2 DEF TypeOK, MoreTypes, Printing, cloud, history
<1>6. /\ FilamentAccounted' /\ OutboxOrdered' /\ RecordedSealed'
      /\ Queued' = ContentsOf(q) /\ Recorded' = Recorded
      /\ \A y : SentFrom(outbox, y) => SentFrom(outbox', y)
  <2>1. outbox' \in Seq(Report) /\ Marked(q, outbox') /\ receipts' = receipts
    BY <1>1, <1>4 DEF Untouched, Marked, cloud
  <2>2. ASSUME NEW s \in Spools
        PROVE  fed'[s] = charged'[s] + Held(q, receipts, s) + Attributed'[s] + lost'[s]
    <3>1. Attributed'[s] = 0
      BY <1>1, AttributedNone DEF NoFilament
    <3>2. fed'[s] = fed[s] /\ charged'[s] = charged[s] /\ lost'[s] = lost[s]
      BY <1>1 DEF cloud, history
    <3>3. /\ charged[s] \in Nat /\ Held(outbox, receipts, s) \in Nat
          /\ Attributed[s] \in Nat /\ lost[s] \in Nat
          /\ fed[s] = charged[s] + Held(outbox, receipts, s) + Attributed[s] + lost[s]
      BY <1>2, Bounded DEF Usual
    <3>4. Held(q, receipts, s) = Held(outbox, receipts, s) + Attributed[s]
      BY <1>4
    <3> QED BY <3>1, <3>2, <3>3, <3>4
  <2> QED BY <1>4, <2>1, <2>2, BooksKept
<1>7. Agreement'
  <2> DEFINE c == Content(x)
  <2>1. /\ c.job = print.job /\ c.sequence = print.sequence + 1 /\ c.binding = print.binding
        /\ c.status \in Terminal
    BY <1>3 DEF Content
  <2>2. Facts' = Facts \union {c} /\ started' = started
    BY <1>1, <1>4, <1>6 DEF Facts, history
  <2> HIDE DEF c
  <2> QED BY <1>1, <1>2, <1>6, <2>1, <2>2, AgreementGrown DEF Usual
<1>8. FlightQueued' /\ JobsFollow'
  BY <1>1, <1>2, <1>6 DEF FlightQueued, JobsFollow, cloud, history
<1> QED BY <1>5, <1>6, <1>7, <1>8, InvIsNext DEF Usual

\* Routes may change under a tracker that is empty at the slots that change.
LEMMA AttributedStays ==
    ASSUME TypeOK, Printing, NEW new \in Routes, ~ Drains(new), tracker' = tracker,
           print' # None, print'.routes = new
    PROVE  \A s \in Spools : Attributed'[s] = Attributed[s]
<1>1. \A slot \in Slots : tracker[slot] \in Nat
  BY BoundsAssumption DEF TypeOK
<1>2. \A slot \in Slots : print.routes[slot] # new[slot] => tracker[slot] = 0
  BY <1>1 DEF Drains, Changed
<1> TAKE s \in Spools
<1> DEFINE A == {slot \in Slots : print.routes[slot] = s}
           B == {slot \in Slots : new[slot] = s}
           C == A \intersect B
<1>3. IsFiniteSet(A) /\ IsFiniteSet(B) /\ A \in SUBSET Slots /\ B \in SUBSET Slots
  BY BoundsAssumption, FS_Subset
<1>4. \A slot \in A : slot \notin C => tracker[slot] = 0
  BY <1>2
<1>5. \A slot \in B : slot \notin C => tracker[slot] = 0
  BY <1>2
<1>6. Attributed[s] = SumFunctionOnSet(tracker, A) /\ Attributed'[s] = SumFunctionOnSet(tracker, B)
  BY DEF Attributed, Printing
<1> HIDE DEF A, B
<1>7. SumFunctionOnSet(tracker, A) = SumFunctionOnSet(tracker, C)
  BY <1>1, <1>3, <1>4, SumPart
<1>8. SumFunctionOnSet(tracker, B) = SumFunctionOnSet(tracker, C)
  BY <1>1, <1>3, <1>5, SumPart
<1> QED BY <1>6, <1>7, <1>8

LEMMA PullSnapshotInv == ASSUME IInv, NEW new \in Routes, PullSnapshot(new) PROVE IInv'
<1> DEFINE queued == IF Drains(new) THEN Checkpointed(FALSE)
                     ELSE [outbox |-> outbox, sequence |-> print.sequence]
           p == queued.outbox
           n == queued.sequence
<1>1. /\ binding # None /\ token /\ flight = None /\ snapshot' = new
      /\ UNCHANGED <<working, flight, binding, cloud, started, fed, lost, closed>>
  BY DEF PullSnapshot
<1>2. TypeOK /\ MoreTypes /\ Usual /\ FlightQueued /\ JobsFollow
  BY InvIs DEF Usual
<1>3. CASE ~ (Printing /\ Changed(new) # {})
  <2>1. UNCHANGED <<outbox, print, tracker>>
    BY <1>3 DEF PullSnapshot
  <2>2. TypeOK' /\ MoreTypes'
    BY <1>1, <1>2, <2>1 DEF TypeOK, MoreTypes, Printing, cloud
  <2>3. /\ FilamentAccounted' /\ OutboxOrdered' /\ RecordedSealed'
        /\ Facts' = Facts /\ Recorded' = Recorded
    <3>1. Attributed' = Attributed
      BY <2>1 DEF Attributed, Printing
    <3>2. \A s \in Spools :
             fed'[s] = charged'[s] + Held(outbox, receipts, s) + Attributed'[s] + lost'[s]
      BY <1>1, <1>2, <3>1, Bounded DEF Usual, cloud
    <3> QED BY <1>1, <2>1, <3>2, BooksUnchanged DEF cloud
  <2>4. Agreement'
    BY <1>1, <1>2, <2>1, <2>3, AgreementKept DEF Usual
  <2>5. FlightQueued' /\ JobsFollow'
    BY <1>1, <1>2, <2>1, <2>3 DEF FlightQueued, JobsFollow, cloud
  <2> QED BY <2>2, <2>3, <2>4, <2>5, InvIsNext DEF Usual
<1>4. CASE Printing /\ Changed(new) # {}
  <2>1. /\ Room
        /\ outbox' = [i \in DOMAIN p |-> IF p[i].job = print.job
                                         THEN [p[i] EXCEPT !.sealed = TRUE] ELSE p[i]]
        /\ print' = [print EXCEPT !.sequence = n, !.routes = new]
        /\ tracker' = IF Drains(new) THEN Unused ELSE tracker
    BY <1>4 DEF PullSnapshot
  <2> HIDE DEF queued
  <2>2. /\ Untouched(p) /\ Reported(ContentsOf(p), n) /\ n \in 0..(MaxSequence - 1)
        /\ \A s \in Spools : Held(p, receipts, s) \in Nat /\ Held(outbox, receipts, s) \in Nat
    <3>1. CASE Drains(new)
      <4>1. queued = Checkpointed(FALSE)
        BY <3>1 DEF queued
      <4>2. FALSE \in BOOLEAN
        OBVIOUS
      <4>3. Untouched(p) /\ Reported(ContentsOf(p), n) /\ n \in 0..(MaxSequence - 1)
        BY <1>2, <1>4, <2>1, <4>1, <4>2, Checkpointing
      <4> QED BY <1>2, <4>3, OwedIs DEF Untouched, MoreTypes
    <3>2. CASE ~ Drains(new)
      <4>1. p = outbox /\ n = print.sequence
        BY <3>2 DEF queued
      <4>2. Untouched(p) /\ Reported(ContentsOf(p), n)
        BY <1>2, <4>1 DEF Untouched, Reported, Queued, Usual, MoreTypes, OutboxOrdered,
                          RecordedSealed
      <4>3. n \in 0..(MaxSequence - 1)
        BY <1>2, <1>4, <4>1, BoundsAssumption DEF TypeOK, MoreTypes, PrintState, Printing
      <4> QED BY <1>2, <4>2, <4>3, OwedIs DEF Untouched, MoreTypes
    <3> QED BY <3>1, <3>2
  <2>3. /\ print \in PrintState /\ print' \in PrintState /\ print' # None
        /\ print'.job = print.job /\ print'.binding = print.binding
        /\ print'.sequence = n /\ print'.routes = new
    <3>1. print \in PrintState
      BY <1>2, <1>4 DEF TypeOK, Printing
    <3>2. n \in 0..MaxSequence
      BY <2>2, BoundsAssumption
    <3>3. print' \in PrintState
      BY <2>1, <3>1, <3>2 DEF PrintState
    <3> QED BY <2>1, <3>1, <3>3, NoneAssumption DEF PrintState
  <2>4. \A s \in Spools : Held(p, receipts, s) + Attributed'[s]
                             = Held(outbox, receipts, s) + Attributed[s]
    <3> TAKE s \in Spools
    <3>1. CASE Drains(new)
      <4>1. queued = Checkpointed(FALSE) /\ tracker' = Unused
        BY <2>1, <3>1 DEF queued
      <4>2. FALSE \in BOOLEAN
        OBVIOUS
      <4>3. Held(p, receipts, s) = Held(outbox, receipts, s) + Attributed[s]
        BY <1>2, <1>4, <2>1, <4>1, <4>2, Checkpointing
      <4>4. Attributed'[s] = 0
        BY <4>1, AttributedNone DEF NoFilament
      <4> QED BY <2>2, <4>3, <4>4
    <3>2. CASE ~ Drains(new)
      <4>1. p = outbox /\ tracker' = tracker
        BY <2>1, <3>2 DEF queued
      <4>2. Attributed'[s] = Attributed[s]
        BY <1>2, <1>4, <2>3, <3>2, <4>1, AttributedStays
      <4> QED BY <4>1, <4>2
    <3> QED BY <3>1, <3>2
  <2> HIDE DEF p, n
  <2>5. /\ outbox' \in Seq(Report) /\ Marked(p, outbox')
    <3>1. p \in Seq(Report) /\ DOMAIN p = 1..Len(p) /\ Len(p) \in Nat
      BY <2>2 DEF Untouched
    <3>2. ASSUME NEW i \in DOMAIN p
          PROVE  /\ outbox'[i] \in Report /\ Content(outbox'[i]) = Content(p[i])
                 /\ p[i].sealed => outbox'[i].sealed
      <4>1. p[i] \in Report
        BY <3>1
      <4>2. outbox'[i] = IF p[i].job = print.job THEN [p[i] EXCEPT !.sealed = TRUE] ELSE p[i]
        BY <2>1
      <4>3. [p[i] EXCEPT !.sealed = TRUE] \in Report
            /\ Content([p[i] EXCEPT !.sealed = TRUE]) = Content(p[i])
            /\ [p[i] EXCEPT !.sealed = TRUE].sealed
        BY <4>1 DEF Report, Content
      <4> QED BY <4>1, <4>2, <4>3
    <3>3. DOMAIN outbox' = DOMAIN p /\ outbox' = [i \in DOMAIN p |-> outbox'[i]]
      BY <2>1
    <3> QED BY <3>1, <3>2, <3>3, SeqDef DEF Marked
  <2>6. TypeOK' /\ MoreTypes'
    <3>1. Range(outbox') \subseteq Report
      BY <2>5 DEF Range
    <3>2. tracker' \in [Slots -> 0..MaxFed]
      BY <1>2, <2>1, BoundsAssumption DEF Unused, TypeOK
    <3>3. print'.sequence < MaxSequence
      BY <2>2, <2>3, BoundsAssumption
    <3> QED BY <1>1, <1>2, <1>4, <2>3, <2>5, <3>1, <3>2, <3>3
            DEF TypeOK, MoreTypes, Printing, cloud
  <2>7. /\ FilamentAccounted' /\ OutboxOrdered' /\ RecordedSealed'
        /\ Queued' = ContentsOf(p) /\ Recorded' = Recorded
    <3>1. ASSUME NEW s \in Spools
          PROVE  fed'[s] = charged'[s] + Held(p, receipts, s) + Attributed'[s] + lost'[s]
      <4>1. fed'[s] = fed[s] /\ charged'[s] = charged[s] /\ lost'[s] = lost[s]
        BY <1>1 DEF cloud
      <4>2. /\ charged[s] \in Nat /\ Held(outbox, receipts, s) \in Nat
            /\ Attributed[s] \in Nat /\ lost[s] \in Nat
            /\ fed[s] = charged[s] + Held(outbox, receipts, s) + Attributed[s] + lost[s]
        BY <1>2, Bounded DEF Usual
      <4>3. Attributed'[s] \in Nat
        <5>1. Attributed' \in [Spools -> Nat]
          BY <2>6, AttributedIsNext
        <5> QED BY <5>1
      <4>4. /\ Held(p, receipts, s) \in Nat
            /\ Held(p, receipts, s) + Attributed'[s] = Held(outbox, receipts, s) + Attributed[s]
        BY <2>2, <2>4
      <4> QED BY <4>1, <4>2, <4>3, <4>4
    <3> QED BY <1>1, <2>2, <2>5, <3>1, BooksKept DEF cloud
  <2>8. Agreement'
    BY <1>1, <1>2, <1>4, <2>2, <2>3, <2>7, AgreementReported
  <2>9. FlightQueued' /\ JobsFollow'
    BY <1>1, <1>2, <2>7 DEF FlightQueued, JobsFollow, cloud
  <2> QED BY <2>6, <2>7, <2>8, <2>9, InvIsNext DEF Usual
<1> QED BY <1>3, <1>4

\* A step that leaves the reports, the print and the spools alone.
LEMMA QuietStep ==
    ASSUME IInv, UNCHANGED <<print, tracker, outbox, receipts, charged, fed, lost, started>>
    PROVE  /\ FilamentAccounted' /\ OutboxOrdered' /\ RecordedSealed' /\ Agreement'
           /\ Recorded' = Recorded
           /\ TypeOK /\ MoreTypes /\ FlightQueued /\ JobsFollow
<1>1. TypeOK /\ MoreTypes /\ Usual /\ FlightQueued /\ JobsFollow
  BY InvIs DEF Usual
<1>2. Attributed' = Attributed
  BY DEF Attributed, Printing
<1>3. \A s \in Spools :
         fed'[s] = charged'[s] + Held(outbox, receipts, s) + Attributed'[s] + lost'[s]
  BY <1>1, <1>2, Bounded DEF Usual
<1>4. /\ FilamentAccounted' /\ OutboxOrdered' /\ RecordedSealed'
      /\ Facts' = Facts /\ Recorded' = Recorded
  BY <1>3, BooksUnchanged
<1>5. Agreement'
  BY <1>1, <1>4, AgreementKept DEF Usual
<1> QED BY <1>1, <1>4, <1>5

LEMMA PairInv == ASSUME IInv, NEW new \in Bindings, Pair(new) PROVE IInv'
<1>1. /\ flight = None
      /\ UNCHANGED <<memory, flight, outbox, deleted, jobs, receipts, charged, started, fed, lost,
                     closed>>
  BY DEF Pair
<1>2. PICK saved \in BOOLEAN :
         /\ token' = IF saved THEN TRUE ELSE token /\ new # binding
         /\ binding' = IF saved THEN new ELSE binding
         /\ snapshot' = IF saved /\ new # binding THEN None ELSE snapshot
         /\ connector' = IF saved \/ new = binding THEN "ready" ELSE connector
  BY DEF Pair
<1>3. /\ FilamentAccounted' /\ OutboxOrdered' /\ RecordedSealed' /\ Agreement'
      /\ Recorded' = Recorded
      /\ TypeOK /\ MoreTypes /\ FlightQueued /\ JobsFollow
  BY <1>1, QuietStep DEF memory
<1>4. binding' \in Bindings \union {None} /\ snapshot' \in Routes \union {None}
      /\ token' \in BOOLEAN /\ (binding' = None => ~ token') /\ connector' \in Connector
  BY <1>2, <1>3, BoundsAssumption DEF TypeOK, Connector
<1>5. TypeOK' /\ MoreTypes'
  BY <1>1, <1>3, <1>4 DEF TypeOK, MoreTypes, Printing, memory
<1>6. FlightQueued' /\ JobsFollow'
  BY <1>1, <1>3 DEF FlightQueued, JobsFollow
<1> QED BY <1>3, <1>5, <1>6, InvIsNext DEF Usual

LEMMA UnpairInv == ASSUME IInv, Unpair PROVE IInv'
<1>1. /\ flight = None /\ token' = FALSE
      /\ (binding' = None /\ snapshot' = None) \/ UNCHANGED <<binding, snapshot>>
      /\ UNCHANGED <<memory, flight, outbox, connector, deleted, jobs, receipts, charged, started,
                     fed, lost, closed>>
  BY DEF Unpair
<1>2. /\ FilamentAccounted' /\ OutboxOrdered' /\ RecordedSealed' /\ Agreement'
      /\ Recorded' = Recorded
      /\ TypeOK /\ MoreTypes /\ FlightQueued /\ JobsFollow
  BY <1>1, QuietStep DEF memory
<1>3. TypeOK' /\ MoreTypes'
  BY <1>1, <1>2 DEF TypeOK, MoreTypes, Printing, memory
<1>4. FlightQueued' /\ JobsFollow'
  BY <1>1, <1>2 DEF FlightQueued, JobsFollow
<1> QED BY <1>2, <1>3, <1>4, InvIsNext DEF Usual

\* What the owner does to the token, the connector and the spools, and a heartbeat.
LEMMA OwnerInv ==
    ASSUME IInv, RevokeByOwner \/ Reconfigure \/ Heartbeat \/ \E spool \in Spools : DeleteSpool(spool)
    PROVE  IInv'
<1>1. UNCHANGED <<memory, flight, settings, jobs, receipts, charged, started, fed, lost, closed>>
  BY DEF RevokeByOwner, Reconfigure, Heartbeat, DeleteSpool, history
<1>2. /\ FilamentAccounted' /\ OutboxOrdered' /\ RecordedSealed' /\ Agreement'
      /\ Recorded' = Recorded
      /\ TypeOK /\ MoreTypes /\ FlightQueued /\ JobsFollow
  BY <1>1, QuietStep DEF memory, settings
<1>3. /\ token' = token \/ token' = FALSE
      /\ connector' \in Connector /\ deleted' \subseteq Spools
  BY <1>2 DEF RevokeByOwner, Reconfigure, Heartbeat, DeleteSpool, Connector, TypeOK
<1>4. token' \in BOOLEAN /\ (binding' = None => ~ token')
  <2>1. token \in BOOLEAN /\ (binding = None => ~ token) /\ binding' = binding
    BY <1>1, <1>2 DEF TypeOK, settings
  <2>2. CASE token' = token
    BY <2>1, <2>2, Zenon
  <2>3. CASE token' = FALSE
    BY <2>3
  <2> QED BY <1>3, <2>2, <2>3
<1>5. TypeOK'
  BY <1>1, <1>2, <1>3, <1>4 DEF TypeOK, memory, settings
<1>6. MoreTypes'
  BY <1>1, <1>2 DEF MoreTypes, Printing, memory, settings
<1>7. FlightQueued' /\ JobsFollow'
  BY <1>1, <1>2 DEF FlightQueued, JobsFollow, settings
<1> QED BY <1>2, <1>5, <1>6, <1>7, InvIsNext DEF Usual

LEMMA WorkerEndsInv == ASSUME IInv, WorkerEnds PROVE IInv'
<1>1. /\ working' = FALSE
      /\ UNCHANGED <<print, tracker, flight, settings, cloud, started, fed, lost, closed>>
  BY DEF WorkerEnds
<1>2. /\ FilamentAccounted' /\ OutboxOrdered' /\ RecordedSealed' /\ Agreement'
      /\ Recorded' = Recorded
      /\ TypeOK /\ MoreTypes /\ FlightQueued /\ JobsFollow
  BY <1>1, QuietStep DEF settings, cloud
<1>3. TypeOK' /\ MoreTypes'
  BY <1>1, <1>2 DEF TypeOK, MoreTypes, Printing, settings, cloud
<1>4. FlightQueued' /\ JobsFollow'
  BY <1>1, <1>2 DEF FlightQueued, JobsFollow, settings, cloud
<1> QED BY <1>2, <1>3, <1>4, InvIsNext DEF Usual

LEMMA LoseInv == ASSUME IInv, Lose PROVE IInv'
<1>1. flight' = None /\ UNCHANGED <<memory, settings, cloud, history>>
  BY DEF Lose
<1>2. /\ FilamentAccounted' /\ OutboxOrdered' /\ RecordedSealed' /\ Agreement'
      /\ Recorded' = Recorded
      /\ TypeOK /\ MoreTypes /\ FlightQueued /\ JobsFollow
  BY <1>1, QuietStep DEF memory, settings, cloud, history
<1>3. TypeOK' /\ MoreTypes'
  BY <1>1, <1>2 DEF TypeOK, MoreTypes, Printing, memory, settings, cloud, history
<1>4. FlightQueued' /\ JobsFollow'
  BY <1>1, <1>2 DEF FlightQueued, JobsFollow, settings, cloud, history
<1> QED BY <1>2, <1>3, <1>4, InvIsNext DEF Usual

\* A job its owner may still move has not ended, and has no payload.
LEMMA UserMoved ==
    ASSUME IInv, NEW job \in Jobs, NEW status \in {"printing", "paused"} \union Outcomes,
           UserMay(jobs[job], status)
    PROVE  /\ jobs[job] # NoJob /\ jobs[job].status \notin Terminal
           /\ UserMoves(jobs[job], status) = [status |-> status, payload |-> NoPayload]
<1>1. jobs[job] # NoJob /\ status \in Allowed(jobs[job].status)
  BY DEF UserMay
<1>2. /\ jobs[job] \in [status : {"printing", "paused"} \union Terminal,
                        payload : Payloads \union {NoPayload}]
      /\ jobs[job].status \notin Terminal => jobs[job].payload = NoPayload
  BY <1>1 DEF IInv, JobsFollow
<1>3. jobs[job].status \notin Terminal
  <2>1. ASSUME jobs[job].status \in Terminal PROVE FALSE
    <3>1. Allowed(jobs[job].status) = {}
      BY <2>1 DEF Allowed, Terminal
    <3> QED BY <1>1, <3>1
  <2> QED BY <2>1
<1>4. UserMoves(jobs[job], status) = [status |-> status, payload |-> NoPayload]
  BY <1>2, <1>3 DEF UserMoves
<1> QED BY <1>1, <1>3, <1>4

LEMMA OwnerMovesInv ==
    ASSUME IInv, NEW job \in Jobs, NEW status \in {"printing", "paused"} \union Outcomes,
           OwnerMoves(job, status)
    PROVE  IInv'
<1>1. /\ UserMay(jobs[job], status)
      /\ jobs' = [jobs EXCEPT ![job] = UserMoves(@, status)]
      /\ closed' = IF status \in Terminal THEN closed \union {job} ELSE closed
      /\ UNCHANGED <<memory, flight, settings, token, connector, deleted, receipts, charged,
                     started, fed, lost, changes>>
  BY DEF OwnerMoves
<1>2. /\ FilamentAccounted' /\ OutboxOrdered' /\ RecordedSealed' /\ Agreement'
      /\ Recorded' = Recorded
      /\ TypeOK /\ MoreTypes /\ FlightQueued /\ JobsFollow
  BY <1>1, QuietStep DEF memory, settings
<1>3. /\ DOMAIN jobs = Jobs /\ DOMAIN jobs' = Jobs
      /\ jobs'[job] = [status |-> status, payload |-> NoPayload]
      /\ \A j \in Jobs : j # job => jobs'[j] = jobs[j]
  BY <1>1, <1>2, UserMoved DEF MoreTypes
<1>4. status \in Status /\ status \in {"printing", "paused"} \union Terminal
  BY BoundsAssumption DEF Status
<1>5. TypeOK' /\ MoreTypes'
  <2>1. \A j \in Jobs : jobs'[j] = NoJob \/ jobs'[j].status \in Status
    BY <1>2, <1>3, <1>4 DEF TypeOK
  <2> QED BY <1>1, <1>2, <1>3, <2>1 DEF TypeOK, MoreTypes, Printing, memory, settings
<1>6. FlightQueued'
  BY <1>1, <1>2 DEF FlightQueued, settings
<1>7. JobsFollow'
  <2>1. \A j \in Jobs : j # job => (j \in closed <=> j \in closed')
    BY <1>1
  <2>2. status \in Terminal => job \in closed'
    BY <1>1
  <2> QED BY <1>2, <1>3, <1>4, <2>1, <2>2 DEF JobsFollow
<1> QED BY <1>2, <1>5, <1>6, <1>7, InvIsNext DEF Usual

LEMMA SendHeadInv == ASSUME IInv, flight = None, HeadIndex # 0, SendHead PROVE IInv'
<1> DEFINE h == HeadIndex
<1>1. /\ outbox' = [outbox EXCEPT ![h].sealed = TRUE, ![h].blocked = FALSE]
      /\ flight' = [report |-> outbox'[h], answer |-> None]
      /\ UNCHANGED <<memory, binding, snapshot, cloud, history>>
  BY DEF SendHead
<1>2. TypeOK /\ MoreTypes /\ Usual /\ JobsFollow
  BY InvIs DEF Usual
<1>3. h \in DOMAIN outbox /\ outbox[h].binding = binding /\ binding # None
  BY <1>2, HeadIs DEF Matches
<1> HIDE DEF h
<1>4. /\ outbox[h] \in Report /\ DOMAIN outbox' = DOMAIN outbox
      /\ outbox'[h] = [outbox[h] EXCEPT !.sealed = TRUE, !.blocked = FALSE]
      /\ \A j \in DOMAIN outbox : j # h => outbox'[j] = outbox[j]
  BY <1>1, <1>2, <1>3, QueuedTyped DEF Report
<1>5. /\ outbox'[h] \in Report /\ Content(outbox'[h]) = Content(outbox[h])
      /\ outbox'[h].sealed /\ outbox'[h].binding = binding
  BY <1>3, <1>4 DEF Report, Content
<1>6. outbox' \in Seq(Report)
  <2>1. \A j \in DOMAIN outbox : outbox'[j] \in Report
    BY <1>2, <1>4, <1>5, QueuedTyped
  <2>2. Len(outbox) \in Nat /\ DOMAIN outbox = 1..Len(outbox)
    BY <1>2 DEF MoreTypes
  <2>3. outbox' = [j \in DOMAIN outbox' |-> outbox'[j]]
    BY <1>1
  <2> QED BY <1>4, <2>1, <2>2, <2>3, SeqDef
<1>7. Marked(outbox, outbox')
  BY <1>4, <1>5 DEF Marked
<1>8. Untouched(outbox)
  BY <1>2 DEF Untouched, Usual, MoreTypes, OutboxOrdered, RecordedSealed
<1>9. /\ FilamentAccounted' /\ OutboxOrdered' /\ RecordedSealed'
      /\ Queued' = ContentsOf(outbox) /\ Recorded' = Recorded
  <2>1. Attributed' = Attributed
    BY <1>1 DEF Attributed, Printing, memory
  <2>2. \A s \in Spools :
           fed'[s] = charged'[s] + Held(outbox, receipts, s) + Attributed'[s] + lost'[s]
    BY <1>1, <1>2, <2>1, Bounded DEF Usual, cloud, history
  <2> QED BY <1>1, <1>6, <1>7, <1>8, <2>2, BooksKept DEF cloud
<1>10. Agreement'
  <2>1. Facts' = Facts
    BY <1>9 DEF Facts, Queued
  <2> QED BY <1>1, <1>2, <1>9, <2>1, AgreementKept DEF Usual, memory, history
<1>11. TypeOK' /\ MoreTypes'
  <2>1. Range(outbox') \subseteq Report
    BY <1>6 DEF Range
  <2> QED BY <1>1, <1>2, <1>5, <1>6, <2>1 DEF TypeOK, MoreTypes, Printing, memory, cloud, history
<1>12. FlightQueued'
  <2>1. SentFrom(outbox', flight'.report)
    BY <1>1, <1>3, <1>4, <1>5 DEF SentFrom
  <2>2. binding \in Bindings
    BY <1>2, <1>3 DEF TypeOK
  <2> QED BY <1>1, <1>5, <2>1, <2>2, NoneAssumption DEF FlightQueued
<1>13. JobsFollow'
  BY <1>1, <1>2, <1>9 DEF JobsFollow, cloud, history
<1> QED BY <1>9, <1>10, <1>11, <1>12, <1>13, InvIsNext DEF Usual

\* The report under way is one of the outbox, told by its number.
LEMMA FlightIs ==
    ASSUME IInv, flight # None
    PROVE  /\ flight.report \in Report /\ flight.report.binding = binding
           /\ flight.answer \in {None, "accepted", "refused"}
           /\ Content(flight.report) \in Queued /\ Content(flight.report) \in Facts
           /\ \E i \in DOMAIN outbox :
                 outbox[i].sealed /\ Content(outbox[i]) = Content(flight.report)
           /\ \A i \in DOMAIN outbox :
                 Same(outbox[i], flight.report) => Content(outbox[i]) = Content(flight.report)
<1> DEFINE x == flight.report
<1>1. x \in Report /\ x.binding = binding /\ flight.answer \in {None, "accepted", "refused"}
  BY DEF IInv, TypeOK, FlightQueued
<1>2. PICK k \in DOMAIN outbox : outbox[k].sealed /\ Content(outbox[k]) = Content(x)
  BY DEF IInv, FlightQueued, SentFrom
<1>3. Content(x) \in Queued /\ Content(x) \in Facts
  BY <1>2, QueuedAt
<1>4. ASSUME NEW i \in DOMAIN outbox, Same(outbox[i], x) PROVE Content(outbox[i]) = Content(x)
  <2>1. Content(outbox[i]) \in Facts
    BY QueuedAt
  <2>2. /\ Content(outbox[i]).job = Content(x).job
        /\ Content(outbox[i]).sequence = Content(x).sequence
    BY <1>4 DEF Same, Content
  <2> QED BY <1>3, <2>1, <2>2 DEF IInv, FactsAgree
<1> QED BY <1>1, <1>2, <1>3, <1>4

\* An answer that says the cloud has the report comes from the cloud.
LEMMA ReceiveInv ==
    ASSUME IInv, flight # None, NEW answer, answer = "accepted" => flight.answer = "accepted",
           ReceiveAnswer(answer)
    PROVE  IInv'
<1> DEFINE Sent(report) == Same(report, flight.report) /\ report.sealed /\ Matches(report)
           I == {j \in 1..Len(outbox) : Sent(outbox[j])}
           i == SelectInSeq(outbox, Sent)
<1>1. /\ flight # None
      /\ outbox' = IF i = 0 THEN outbox ELSE Answered(i, answer)
      /\ flight' = None
      /\ UNCHANGED <<memory, binding, snapshot, cloud, history>>
  BY DEF ReceiveAnswer
<1>2. TypeOK /\ MoreTypes /\ Usual /\ FlightQueued /\ JobsFollow
  BY InvIs DEF Usual
<1>3. Len(outbox) \in Nat /\ DOMAIN outbox = 1..Len(outbox)
  BY <1>2 DEF MoreTypes
<1>4. i # 0 => i \in DOMAIN outbox /\ Same(outbox[i], flight.report)
  <2>1. i = IF I # {} THEN Min(I) ELSE 0
    BY Zenon DEF SelectInSeq
  <2>2. I # {} => Min(I) \in I
    <3>1. I \in SUBSET Nat
      BY <1>3
    <3> HIDE DEF I
    <3> QED BY <3>1, MinIs
  <2> HIDE DEF i
  <2> QED BY <1>3, <2>1, <2>2
<1> HIDE DEF i
<1>5. Untouched(outbox)
  BY <1>2 DEF Untouched, Usual, MoreTypes, OutboxOrdered, RecordedSealed
<1>6. Attributed' = Attributed
  BY <1>1 DEF Attributed, Printing, memory
<1>7. ASSUME NEW s \in Spools
      PROVE  fed'[s] = charged'[s] + Held(outbox, receipts, s) + Attributed'[s] + lost'[s]
  BY <1>1, <1>2, <1>6, Bounded DEF Usual, cloud, history
<1>8. /\ outbox' \in Seq(Report)
      /\ FilamentAccounted' /\ OutboxOrdered' /\ RecordedSealed'
      /\ Facts' = Facts /\ Recorded' = Recorded
  <2>1. CASE i = 0
    BY <1>1, <1>2, <1>7, <2>1, BooksUnchanged DEF MoreTypes, cloud
  <2>2. CASE i # 0 /\ answer # "accepted"
    <3>1. outbox' = [outbox EXCEPT ![i].blocked = TRUE]
      BY <1>1, <2>2 DEF Answered
    <3>2. /\ DOMAIN outbox' = DOMAIN outbox
          /\ \A j \in DOMAIN outbox : /\ outbox'[j] \in Report
                                      /\ Content(outbox'[j]) = Content(outbox[j])
                                      /\ outbox[j].sealed => outbox'[j].sealed
      <4>1. DOMAIN outbox' = DOMAIN outbox
        BY <3>1
      <4>2. ASSUME NEW j \in DOMAIN outbox
            PROVE  /\ outbox'[j] \in Report
                   /\ Content(outbox'[j]) = Content(outbox[j])
                   /\ outbox[j].sealed => outbox'[j].sealed
        <5>1. outbox[j] \in Report
          BY <1>2, QueuedTyped
        <5>2. outbox'[j] = outbox[j] \/ outbox'[j] = [outbox[j] EXCEPT !.blocked = TRUE]
          BY <3>1
        <5> QED BY <5>1, <5>2 DEF Report, Content
      <4> QED BY <4>1, <4>2
    <3>3. outbox' \in Seq(Report)
      <4>1. outbox' = [j \in DOMAIN outbox' |-> outbox'[j]]
        BY <3>1
      <4> QED BY <1>3, <3>2, <4>1, SeqDef
    <3>4. Marked(outbox, outbox')
      BY <3>2 DEF Marked
    <3>5. /\ FilamentAccounted' /\ OutboxOrdered' /\ RecordedSealed'
          /\ Queued' = ContentsOf(outbox) /\ Recorded' = Recorded
      BY <1>1, <1>5, <1>7, <3>3, <3>4, BooksKept DEF cloud
    <3> QED BY <3>3, <3>5 DEF Facts, Queued
  <2>3. CASE i # 0 /\ answer = "accepted"
    <3>1. outbox' = RemoveAt(outbox, i) /\ i \in DOMAIN outbox /\ i \in 1..Len(outbox)
          /\ receipts' = receipts /\ charged' = charged
      BY <1>1, <1>3, <1>4, <2>3 DEF Answered, cloud
    <3>2. Content(outbox[i]) \in Recorded
      BY <1>1, <1>2, <1>4, <2>3, FlightIs DEF FlightQueued
    <3>3. Delivered(receipts, outbox[i])
      BY <1>2, <3>1, <3>2, DeliveredIs DEF Usual, Agreement
    <3> DEFINE m(j) == IF j < i THEN j ELSE j + 1
    <3>4. /\ outbox' \in Seq(Report) /\ DOMAIN outbox' = 1..(Len(outbox) - 1)
          /\ \A j \in DOMAIN outbox' : outbox'[j] = IF j < i THEN outbox[j] ELSE outbox[j + 1]
      BY <1>2, <3>1, Removed, ZenonT(40) DEF MoreTypes
    <3>5. /\ \A j \in DOMAIN outbox' : m(j) \in DOMAIN outbox /\ outbox'[j] = outbox[m(j)]
          /\ \A j, k \in DOMAIN outbox' : j < k => m(j) < m(k)
      BY <1>3, <3>1, <3>4
    <3>6. \A k \in DOMAIN outbox : k # i => \E j \in DOMAIN outbox' : outbox'[j] = outbox[k]
      <4> TAKE k \in DOMAIN outbox
      <4> DEFINE j == IF k < i THEN k ELSE k - 1
      <4>1. k # i => j \in DOMAIN outbox' /\ outbox'[j] = outbox[k]
        BY <1>3, <3>1, <3>4
      <4> QED BY <4>1
    <3> HIDE DEF m
    <3>7. Recorded' = Recorded
      BY <3>1 DEF Recorded
    <3>8. Facts' = Facts
      <4>1. Queued' \subseteq Queued
        BY <3>5 DEF Queued, ContentsOf
      <4>2. ASSUME NEW k \in DOMAIN outbox PROVE Content(outbox[k]) \in Queued' \union Recorded
        BY <3>2, <3>6 DEF Queued, ContentsOf
      <4> QED BY <3>7, <4>1, <4>2 DEF Facts, Queued, ContentsOf
    <3>9. OutboxOrdered'
      <4>1. \A j, k \in DOMAIN outbox' : j < k => Earlier(outbox'[j], outbox'[k])
        BY <1>2, <3>5 DEF Usual, OutboxOrdered, Ordered
      <4> QED BY <4>1 DEF OutboxOrdered, Ordered
    <3>10. RecordedSealed'
      BY <1>2, <3>5, <3>7 DEF Usual, RecordedSealed, SealedIn
    <3>11. FilamentAccounted'
      <4>1. ASSUME NEW s \in Spools
            PROVE  fed'[s] = charged'[s] + Waiting(s)' + Attributed'[s] + lost'[s]
        <5>1. Waiting(s)' = Held(outbox', receipts, s)
          BY <3>1, WaitingIsNext
        <5>2. Held(outbox', receipts, s) = Held(outbox, receipts, s)
          BY <1>2, <3>1, <3>3, HeldRemoved DEF MoreTypes
        <5> QED BY <1>7, <5>1, <5>2
      <4> QED BY <1>2, <3>1, <4>1 DEF FilamentAccounted, Usual
    <3> QED BY <3>4, <3>7, <3>8, <3>9, <3>10, <3>11
  <2> QED BY <2>1, <2>2, <2>3
<1>9. Agreement'
  BY <1>1, <1>2, <1>8, AgreementKept DEF Usual, memory, history
<1>10. TypeOK' /\ MoreTypes'
  <2>1. Range(outbox') \subseteq Report
    BY <1>8 DEF Range
  <2> QED BY <1>1, <1>2, <1>8, <2>1 DEF TypeOK, MoreTypes, Printing, memory, cloud, history
<1>11. FlightQueued' /\ JobsFollow'
  BY <1>1, <1>2, <1>8 DEF FlightQueued, JobsFollow, cloud, history
<1> QED BY <1>8, <1>9, <1>10, <1>11, InvIsNext DEF Usual

-----------------------------------------------------------------------------
(* What the cloud makes of a report. *)

\* The reports of a job up to its last segment are recorded, and no filament after it.
LEMMA LastSegmentIs ==
    ASSUME IInv, NEW job \in Jobs
    PROVE  /\ LastSegment(job) \in 0..MaxSequence
           /\ \A m \in 1..LastSegment(job) : \E y \in Recorded : y.job = job /\ y.sequence = m
           /\ \A r \in receipts :
                 r.job = job /\ r.amounts # NoFilament => r.sequence <= LastSegment(job)
<1> DEFINE S == {r.sequence : r \in {q \in receipts : q.job = job /\ q.amounts # NoFilament}}
           T == S \union {0}
           l == Max(T)
<1>1. LastSegment(job) = l
  BY DEF LastSegment
<1>2. MaxSequence \in Nat /\ \A r \in receipts : r.sequence \in 1..MaxSequence
  BY BoundsAssumption DEF IInv, MoreTypes, ReceiptSet
<1>3. T \in SUBSET (0..MaxSequence) /\ T # {}
  BY <1>2
<1>4. l \in T /\ \A y \in T : y <= l
  <2> HIDE DEF T
  <2> QED BY <1>2, <1>3, Greatest
<1> HIDE DEF l
<1>5. ASSUME NEW m \in 1..l PROVE \E y \in Recorded : y.job = job /\ y.sequence = m
  <2>1. l \in S
    BY <1>4, <1>5
  <2>2. PICK r \in receipts : r.job = job /\ r.sequence = l
    BY <2>1
  <2>3. Content(r) \in Recorded /\ Content(r).job = job /\ Content(r).sequence = l
    BY <2>2 DEF Recorded, Content
  <2>4. CASE m = l
    BY <2>3, <2>4
  <2>5. CASE m # l
    <3>1. l \in Int
      BY <1>3, <1>4
    <3>2. m \in 1..(Content(r).sequence - 1)
      BY <1>5, <2>3, <2>5, <3>1
    <3> QED BY <2>3, <3>2 DEF IInv, RecordedInOrder
  <2> QED BY <2>4, <2>5
<1>6. \A r \in receipts : r.job = job /\ r.amounts # NoFilament => r.sequence <= l
  BY <1>4
<1> QED BY <1>1, <1>3, <1>4, <1>5, <1>6

\* The reports there are of a job whose terminal report is recorded are recorded.
LEMMA EndedAllRecorded ==
    ASSUME IInv, NEW x \in Facts, NEW z \in Recorded, z.job = x.job, z.status \in Terminal
    PROVE  x \in Recorded
<1>1. z \in Facts /\ x \in ContentSet /\ z \in ContentSet
  BY FactsTyped DEF Facts, IInv
<1>2. /\ x.sequence = z.sequence => x = z
      /\ ~ (z.sequence < x.sequence)
  BY <1>1 DEF IInv, FactsAgree
<1>3. x.sequence \in Nat \ {0} /\ z.sequence \in Nat
  BY <1>1, NumbersTyped
<1>4. CASE x.sequence < z.sequence
  <2>1. x.sequence \in 1..(z.sequence - 1)
    BY <1>3, <1>4
  <2>2. PICK y \in Recorded : y.job = z.job /\ y.sequence = x.sequence
    BY <2>1 DEF IInv, RecordedInOrder
  <2>3. y \in Facts
    BY DEF Facts
  <2>4. y = x
    BY <2>2, <2>3 DEF IInv, FactsAgree
  <2> QED BY <2>4
<1>5. CASE ~ (x.sequence < z.sequence)
  BY <1>2, <1>3, <1>5
<1> QED BY <1>4, <1>5

\* A report that is not recorded is not a repetition of its job's end.
LEMMA EndedByOwner ==
    ASSUME IInv, NEW x \in Report, Content(x) \in Facts, Content(x) \notin Recorded,
           jobs[x.job] # NoJob, jobs[x.job].status \in Terminal
    PROVE  /\ jobs[x.job].payload = NoPayload /\ x.job \in closed
           /\ Payload(x) # NoPayload
<1>1. x.job \in Jobs /\ Content(x).job = x.job
  BY DEF Report, Content
<1>2. ~ \E z \in Recorded : z.job = x.job /\ z.status \in Terminal
  BY <1>1, EndedAllRecorded
<1>3. jobs[x.job].payload = NoPayload /\ x.job \in closed
  BY <1>1, <1>2 DEF IInv, JobsFollow
<1>4. Payload(x) # NoPayload
  BY NoneAssumption DEF Payload, Report
<1> QED BY <1>3, <1>4

LEMMA RecordedIs ==
    ASSUME IInv, NEW x \in Report, Content(x) \in Facts
    PROVE  (\E r \in receipts : Same(r, x)) <=> Content(x) \in Recorded
<1>1. ASSUME NEW r \in receipts, Same(r, x) PROVE Content(x) \in Recorded
  <2>1. Content(r) \in Recorded /\ Content(r) \in Facts
    BY DEF Recorded, Facts
  <2>2. Content(r).job = Content(x).job /\ Content(r).sequence = Content(x).sequence
    BY <1>1 DEF Same, Content
  <2>3. Content(r) = Content(x)
    BY <2>1, <2>2 DEF IInv, FactsAgree
  <2> QED BY <2>1, <2>3
<1>2. ASSUME Content(x) \in Recorded PROVE \E r \in receipts : Same(r, x)
  <2>1. PICK r \in receipts : Content(r) = Content(x)
    BY <1>2 DEF Recorded
  <2> QED BY <2>1, SameContent DEF Same
<1> QED BY <1>1, <1>2

\* A report the cloud takes up is new, next in order, and moves a job that has not ended.
LEMMA Applied ==
    ASSUME IInv, NEW x \in Report, Content(x) \in Facts, Verdict(x) \in {"applied", "replay"}
    PROVE  /\ Verdict(x) = "applied" /\ Content(x) \notin Recorded
           /\ x.sequence = LastSegment(x.job) + 1
           /\ jobs[x.job] = NoJob \/ jobs[x.job].status \notin Terminal
<1> DEFINE known == {r \in receipts : Same(r, x)}
<1>1. token /\ known = {} /\ x.sequence = LastSegment(x.job) + 1
      /\ Verdict(x) = ProviderVerdict(jobs[x.job], x.status, Payload(x))
  BY DEF Verdict, IInv, TypeOK
<1>2. Content(x) \notin Recorded
  BY <1>1, RecordedIs
<1>3. jobs[x.job] = NoJob \/ jobs[x.job].status \notin Terminal
  <2>1. ASSUME jobs[x.job] # NoJob, jobs[x.job].status \in Terminal PROVE FALSE
    <3>1. jobs[x.job].payload # Payload(x)
      BY <1>2, <2>1, EndedByOwner
    <3>2. Verdict(x) = "conflict"
      BY <1>1, <2>1, <3>1 DEF ProviderVerdict
    <3> QED BY <3>2
  <2> QED BY <2>1
<1>4. Verdict(x) = "applied"
  BY <1>1, <1>3 DEF ProviderVerdict
<1> QED BY <1>1, <1>2, <1>3, <1>4

LEMMA ReceiptIs ==
    ASSUME IInv, NEW x \in Report, x.binding = binding
    PROVE  /\ Receipt(x) \in ReceiptSet /\ Content(Receipt(x)) = Content(x)
           /\ Receipt(x).connection = Receipt(x).binding
           /\ \A y : Same(Receipt(x), y) <=> Same(x, y)
<1>1. binding \in Bindings \union {None}
  BY DEF IInv, TypeOK
<1> QED BY <1>1 DEF Receipt, Report, ReceiptSet, Content, Same

\* A receipt of what a report says is the one the report would get.
LEMMA KnownIsReceipt ==
    ASSUME IInv, NEW x \in Report, x.binding = binding, NEW r \in receipts,
           Content(r) = Content(x)
    PROVE  r = Receipt(x)
<1>1. r \in ReceiptSet /\ r.connection = r.binding
  BY DEF IInv, MoreTypes, FilamentAccounted
<1>2. /\ r.job = x.job /\ r.sequence = x.sequence /\ r.status = x.status
      /\ r.amounts = x.amounts /\ r.binding = x.binding
  BY SameContent
<1> QED BY <1>1, <1>2 DEF ReceiptSet, Receipt

LEMMA ServeInv == ASSUME IInv, Serve PROVE IInv'
<1> DEFINE x == flight.report
           verdict == Verdict(x)
<1>1. /\ flight # None /\ flight.answer = None
      /\ flight' = [flight EXCEPT !.answer =
                       IF verdict \in Taken THEN "accepted" ELSE "refused"]
      /\ receipts' = IF verdict \in {"applied", "replay"}
                     THEN receipts \union {Receipt(x)} ELSE receipts
      /\ IF verdict = "applied"
         THEN /\ jobs' = [jobs EXCEPT ![x.job] = ProviderMoves(@, x.status, Payload(x))]
              /\ charged' = Plus(charged, x.amounts)
         ELSE UNCHANGED <<jobs, charged>>
      /\ UNCHANGED <<memory, settings, token, connector, deleted, history>>
  BY DEF Serve
<1>2. TypeOK /\ MoreTypes /\ Usual /\ FlightQueued /\ JobsFollow
  BY InvIs DEF Usual
<1>3. /\ x \in Report /\ x.binding = binding
      /\ Content(x) \in Queued /\ Content(x) \in Facts
  BY <1>1, FlightIs
<1>4. /\ flight'.report = x /\ flight'.answer \in {"accepted", "refused"}
      /\ flight'.answer = "accepted" => verdict \in Taken
      /\ flight' \in [report : Report, answer : {None, "accepted", "refused"}]
  BY <1>1, <1>2 DEF TypeOK
<1>5. CASE verdict \notin {"applied", "replay"}
  <2>1. receipts' = receipts /\ jobs' = jobs /\ charged' = charged
    BY <1>1, <1>5
  <2>2. /\ FilamentAccounted' /\ OutboxOrdered' /\ RecordedSealed' /\ Agreement'
        /\ Recorded' = Recorded
    BY <1>1, <2>1, QuietStep DEF memory, settings, history
  <2>3. TypeOK' /\ MoreTypes'
    BY <1>1, <1>2, <1>4, <2>1 DEF TypeOK, MoreTypes, Printing, memory, settings, history
  <2>4. verdict = "deduplicated" => Content(x) \in Recorded
    <3> DEFINE known == {r \in receipts : Same(r, x)}
    <3>1. ASSUME verdict = "deduplicated" PROVE known # {}
      <4>1. ProviderVerdict(jobs[x.job], x.status, Payload(x)) # "deduplicated"
        BY DEF ProviderVerdict
      <4> QED BY <3>1, <4>1 DEF Verdict
    <3>2. ASSUME verdict = "deduplicated" PROVE Content(x) \in Recorded
      BY <1>3, <3>1, <3>2, RecordedIs
    <3> QED BY <3>2
  <2>5. FlightQueued'
    <3>1. flight'.answer = "accepted" => Content(flight'.report) \in Recorded
      BY <1>4, <1>5, <2>4 DEF Taken
    <3>2. SentFrom(outbox', flight'.report) /\ flight'.report.binding = binding'
          /\ binding' \in Bindings
      BY <1>1, <1>2, <1>4 DEF FlightQueued, settings
    <3> QED BY <2>2, <3>1, <3>2 DEF FlightQueued
  <2>6. JobsFollow'
    BY <1>1, <1>2, <2>1, <2>2 DEF JobsFollow, history
  <2> QED BY <2>2, <2>3, <2>5, <2>6, InvIsNext DEF Usual
<1>6. CASE verdict \in {"applied", "replay"}
  <2>1. /\ verdict = "applied" /\ Content(x) \notin Recorded
        /\ x.sequence = LastSegment(x.job) + 1
        /\ jobs[x.job] = NoJob \/ jobs[x.job].status \notin Terminal
    BY <1>3, <1>6, Applied
  <2>2. /\ receipts' = receipts \union {Receipt(x)}
        /\ jobs' = [jobs EXCEPT ![x.job] = ProviderMoves(@, x.status, Payload(x))]
        /\ charged' = Plus(charged, x.amounts)
    BY <1>1, <2>1
  <2>3. /\ Receipt(x) \in ReceiptSet /\ Content(Receipt(x)) = Content(x)
        /\ Receipt(x).connection = Receipt(x).binding
        /\ \A y : Same(Receipt(x), y) <=> Same(x, y)
    BY <1>3, ReceiptIs
  <2>4. Recorded' = Recorded \union {Content(x)}
    <3>1. Recorded' = Recorded \union {Content(Receipt(x))}
      BY <2>2 DEF Recorded
    <3> QED BY <2>3, <3>1
  <2>5. Queued' = Queued /\ Facts' = Facts
    BY <1>1, <1>3, <2>4 DEF Queued, Facts, settings
  <2> DEFINE c == Content(x)
  <2>6. /\ c.job = x.job /\ c.sequence = x.sequence /\ c.status = x.status
        /\ x.job \in Jobs /\ x.sequence \in Nat /\ Payload(c) = Payload(x)
    BY <1>3 DEF Content, Payload, Report
  <2>7. PICK i \in DOMAIN outbox : outbox[i].sealed /\ Content(outbox[i]) = Content(x)
    BY <1>1, FlightIs
  <2>8. /\ outbox[i].job = x.job /\ outbox[i].sequence = x.sequence
        /\ outbox[i].amounts = x.amounts
    BY <2>7, SameContent
  <2>9. \A j \in DOMAIN outbox : Same(x, outbox[j]) => j = i
    <3> TAKE j \in DOMAIN outbox
    <3>1. Same(x, outbox[j]) => Same(outbox[j], outbox[i])
      BY <2>8 DEF Same
    <3> QED BY <1>2, <3>1, OneInOutbox DEF Usual
  <2>10. ~ Delivered(receipts, outbox[i])
    BY <1>2, <2>1, <2>7, DeliveredIs DEF Usual, Agreement
  <2>11. ASSUME NEW s \in Spools
         PROVE  /\ charged'[s] \in 0..MaxFed
                /\ fed'[s] = charged'[s] + Waiting(s)' + Attributed'[s] + lost'[s]
    <3>1. Waiting(s)' = Held(outbox, receipts \union {Receipt(x)}, s)
      BY <1>1, <2>2, WaitingIsNext DEF settings
    <3>2. Held(outbox, receipts \union {Receipt(x)}, s)
             = Held(outbox, receipts, s) - outbox[i].amounts[s]
      <4>1. Same(Receipt(x), outbox[i]) /\ \A j \in DOMAIN outbox : Same(Receipt(x), outbox[j]) => j = i
        BY <2>3, <2>8, <2>9 DEF Same
      <4>2. outbox \in Seq(Report)
        BY <1>2 DEF MoreTypes
      <4> QED BY <2>10, <4>1, <4>2, HeldRecorded
    <3>3. charged'[s] = charged[s] + outbox[i].amounts[s]
      <4>1. DOMAIN charged = Spools
        BY <1>2 DEF TypeOK, Amounts
      <4> QED BY <2>2, <2>8, <4>1, PlusIs
    <3>4. /\ charged[s] \in Nat /\ Held(outbox, receipts, s) \in Nat
          /\ Attributed[s] \in Nat /\ lost[s] \in Nat /\ MaxFed \in Nat
          /\ fed[s] \in Nat /\ fed[s] <= MaxFed
          /\ fed[s] = charged[s] + Held(outbox, receipts, s) + Attributed[s] + lost[s]
      BY <1>2, Bounded DEF Usual
    <3>5. outbox[i].amounts[s] \in Nat /\ outbox[i].amounts[s] <= Held(outbox, receipts, s)
      BY <1>2, <2>10, OwedIs, OwedPart DEF MoreTypes
    <3>6. Attributed'[s] = Attributed[s] /\ fed'[s] = fed[s] /\ lost'[s] = lost[s]
      BY <1>1 DEF Attributed, Printing, memory, history
    <3>7. charged'[s] \in 0..MaxFed
      BY <3>3, <3>4, <3>5
    <3>8. Waiting(s)' = Held(outbox, receipts, s) - outbox[i].amounts[s]
      BY <3>1, <3>2
    <3> QED BY <3>3, <3>4, <3>5, <3>6, <3>7, <3>8
  <2>12. FilamentAccounted'
    BY <1>2, <2>2, <2>3, <2>11 DEF FilamentAccounted, Usual
  <2> HIDE DEF x, c
  <2>13. Agreement'
    <3>1. FactsAgree' /\ NoneMissing'
      BY <1>1, <1>2, <2>5 DEF Usual, Agreement, FactsAgree, NoneMissing, Begun, Printing,
                              memory, history
    <3>2. RecordedInOrder'
      <4>1. ASSUME NEW m \in 1..(c.sequence - 1)
            PROVE  \E y \in Recorded : y.job = c.job /\ y.sequence = m
        <5>1. /\ LastSegment(x.job) \in 0..MaxSequence
              /\ \A k \in 1..LastSegment(x.job) :
                    \E y \in Recorded : y.job = x.job /\ y.sequence = k
          BY <2>6, LastSegmentIs
        <5>2. m \in 1..LastSegment(x.job)
          BY <2>1, <2>6, <4>1, <5>1
        <5> QED BY <2>6, <5>1, <5>2
      <4> QED BY <1>2, <2>4, <4>1 DEF c, Usual, Agreement, RecordedInOrder
    <3> QED BY <3>1, <3>2 DEF Agreement
  <2>14. OutboxOrdered'
    BY <1>1, <1>2 DEF Usual, OutboxOrdered, settings
  <2>15. RecordedSealed'
    <3>1. ASSUME NEW j \in DOMAIN outbox, Content(outbox[j]) \in Recorded \union {Content(x)}
          PROVE  outbox[j].sealed
      <4>1. CASE Content(outbox[j]) \in Recorded
        BY <1>2, <4>1 DEF Usual, RecordedSealed, SealedIn
      <4>2. CASE Content(outbox[j]) = Content(x)
        <5>1. Same(x, outbox[j])
          BY <4>2, SameContent DEF Same
        <5> QED BY <2>7, <2>9, <5>1
      <4> QED BY <3>1, <4>1, <4>2
    <3> QED BY <1>1, <2>4, <3>1 DEF RecordedSealed, SealedIn, settings
  <2>16. FlightQueued'
    <3>1. SentFrom(outbox', flight'.report) /\ flight'.report.binding = binding'
          /\ binding' \in Bindings
      BY <1>1, <1>2, <1>4 DEF FlightQueued, settings, x
    <3> QED BY <1>4, <2>4, <3>1 DEF FlightQueued
  <2> DEFINE moved == ProviderMoves(jobs[x.job], x.status, Payload(x))
  <2>17. /\ moved = [status |-> x.status,
                     payload |-> IF x.status \in Terminal THEN Payload(x) ELSE NoPayload]
         /\ x.status \in {"printing", "paused"} \union Terminal /\ x.status \in Status
         /\ Payload(x) \in Payloads
         /\ DOMAIN jobs' = Jobs /\ jobs'[x.job] = moved
         /\ \A j \in Jobs : j # x.job => jobs'[j] = jobs[j]
    <3>1. x.status \in {"printing", "paused"} \union Terminal
      BY <1>3, BoundsAssumption DEF Report
    <3>2. Payload(x) \in Payloads
      BY <1>3 DEF Payload, Payloads, Report
    <3>3. DOMAIN jobs = Jobs
      BY <1>2 DEF MoreTypes
    <3> QED BY <2>2, <2>6, <3>1, <3>2, <3>3 DEF ProviderMoves, Status
  <2>18. JobsFollow'
    <3>1. closed' = closed /\ Recorded \subseteq Recorded' /\ c \in Recorded'
      BY <1>1, <2>4 DEF history, c
    <3>2. ASSUME NEW j \in Jobs, j # x.job, jobs'[j] # NoJob
          PROVE  /\ jobs'[j] \in [status : {"printing", "paused"} \union Terminal,
                                  payload : Payloads \union {NoPayload}]
                 /\ jobs'[j].status \notin Terminal => jobs'[j].payload = NoPayload
                 /\ jobs'[j].status \in Terminal =>
                      \/ jobs'[j].payload = NoPayload /\ j \in closed'
                      \/ \E y \in Recorded' : y.job = j /\ y.status \in Terminal
                                              /\ jobs'[j].payload = Payload(y)
      BY <1>2, <2>17, <3>1, <3>2 DEF JobsFollow
    <3>3. /\ moved \in [status : {"printing", "paused"} \union Terminal,
                        payload : Payloads \union {NoPayload}]
          /\ moved.status \notin Terminal => moved.payload = NoPayload
          /\ moved.status \in Terminal =>
                \E y \in Recorded' : y.job = x.job /\ y.status \in Terminal
                                     /\ moved.payload = Payload(y)
      <4> HIDE DEF moved
      <4>1. x.status \in Terminal => moved.payload = Payload(c) /\ c.status \in Terminal
        BY <2>6, <2>17
      <4> QED BY <2>6, <2>17, <3>1, <4>1
    <3> HIDE DEF moved
    <3> QED BY <2>17, <3>2, <3>3 DEF JobsFollow
  <2>19. TypeOK' /\ MoreTypes'
    <3>1. charged' \in Amounts
      <4>1. DOMAIN charged = Spools
        BY <1>2 DEF TypeOK, Amounts
      <4>2. charged' = [s \in Spools |-> charged'[s]]
        BY <2>2, <4>1, PlusIs
      <4> QED BY <2>11, <4>2 DEF Amounts
    <3>2. \A j \in Jobs : jobs'[j] = NoJob \/ jobs'[j].status \in Status
      BY <1>2, <2>17 DEF TypeOK
    <3>3. receipts' \subseteq ReceiptSet
      BY <1>2, <2>2, <2>3 DEF MoreTypes
    <3> QED BY <1>1, <1>2, <1>4, <2>17, <3>1, <3>2, <3>3
            DEF TypeOK, MoreTypes, Printing, memory, settings, history
  <2> QED BY <2>12, <2>13, <2>14, <2>15, <2>16, <2>18, <2>19, InvIsNext DEF Usual
<1> QED BY <1>5, <1>6

-----------------------------------------------------------------------------
(* The theorems. *)

LEMMA InitInv == Init => IInv
<1> SUFFICES ASSUME Init PROVE IInv
  OBVIOUS
<1>1. /\ print = None /\ tracker = Unused /\ flight = None /\ outbox = <<>>
      /\ binding = Home /\ snapshot \in Routes /\ token = TRUE
      /\ working = TRUE /\ connector = "ready" /\ deleted = {}
      /\ jobs = [j \in Jobs |-> NoJob] /\ receipts = {} /\ charged = NoFilament
      /\ started = 0 /\ fed = NoFilament /\ lost = NoFilament
  BY DEF Init
<1>2. /\ MaxFed \in Nat /\ MaxJobs \in Nat /\ NoFilament \in Amounts
      /\ Unused \in [Slots -> 0..MaxFed] /\ None \notin Bindings /\ Home \in Bindings
  BY BoundsAssumption DEF NoFilament, Amounts, Unused
<1>3. SumFunction(fed) = 0
  <2>1. DOMAIN fed = Spools /\ \A s \in Spools : fed[s] = 0
    BY <1>1 DEF NoFilament
  <2> QED BY <2>1, BoundsAssumption, SumZero DEF SumFunction
<1>4. Queued = {} /\ Recorded = {} /\ Facts = {}
  BY <1>1 DEF Queued, ContentsOf, Recorded, Facts
<1>5. TypeOK
  BY <1>1, <1>2 DEF TypeOK, Connector, Range
<1>6. MoreTypes
  BY <1>1, <1>2, <1>3 DEF MoreTypes, Printing
<1>7. FactsAgree /\ NoneMissing /\ RecordedInOrder
  BY <1>1, <1>4 DEF FactsAgree, NoneMissing, RecordedInOrder, Printing
<1>8. OutboxOrdered /\ RecordedSealed /\ FlightQueued /\ JobsFollow
  BY <1>1 DEF OutboxOrdered, Ordered, RecordedSealed, SealedIn, FlightQueued, JobsFollow
<1>9. FilamentAccounted
  <2>1. ASSUME NEW s \in Spools
        PROVE  fed[s] = charged[s] + Waiting(s) + Attributed[s] + lost[s]
    <3>1. Held(outbox, receipts, s) = 0
      <4>1. DOMAIN outbox = {}
        BY <1>1
      <4> QED BY <4>1, SumEmpty DEF Held
    <3>2. fed[s] = 0 /\ charged[s] = 0 /\ lost[s] = 0 /\ Attributed[s] = 0
      BY <1>1 DEF NoFilament, Attributed, Printing
    <3> QED BY <3>1, <3>2, WaitingIs
  <2> QED BY <1>1, <2>1 DEF FilamentAccounted
<1> QED BY <1>5, <1>6, <1>7, <1>8, <1>9 DEF IInv

LEMMA NextInv == IInv /\ [Next]_vars => IInv'
<1> SUFFICES ASSUME IInv, [Next]_vars PROVE IInv'
  OBVIOUS
<1>1. CASE BeginPrint
  BY <1>1, BeginPrintInv
<1>2. CASE Crash
  BY <1>2, CrashInv
<1>3. ASSUME NEW slot \in Slots, Extrude(slot) PROVE IInv'
  BY <1>3, ExtrudeInv
<1>4. ASSUME NEW paused \in BOOLEAN, Checkpoint(paused) PROVE IInv'
  BY <1>4, CheckpointInv
<1>5. ASSUME NEW outcome \in Outcomes, FinishPrint(outcome) PROVE IInv'
  BY <1>5, FinishPrintInv
<1>6. ASSUME NEW new \in Routes, PullSnapshot(new) PROVE IInv'
  BY <1>6, PullSnapshotInv
<1>7. ASSUME NEW new \in Bindings, Pair(new) PROVE IInv'
  BY <1>7, PairInv
<1>8. CASE Unpair
  BY <1>8, UnpairInv
<1>9. CASE RevokeByOwner \/ Reconfigure \/ Heartbeat \/ \E spool \in Spools : DeleteSpool(spool)
  BY <1>9, OwnerInv
<1>10. CASE Send \/ SendBlocked
  BY <1>10, SendHeadInv DEF Send, SendBlocked
<1>11. CASE Serve
  BY <1>11, ServeInv
<1>12. CASE Receive \/ ReceiveInvalid
  BY <1>12, ReceiveInv DEF Receive, ReceiveInvalid
<1>13. CASE Lose \/ WorkerEnds
  BY <1>13, LoseInv, WorkerEndsInv
<1>14. ASSUME NEW job \in Jobs, NEW status \in {"printing", "paused"} \union Outcomes,
              OwnerMoves(job, status)
       PROVE  IInv'
  BY <1>14, OwnerMovesInv
<1>15. CASE UNCHANGED vars
  <2>1. /\ UNCHANGED <<memory, outbox, receipts, charged, fed, lost, started>>
        /\ UNCHANGED <<flight, settings, cloud, history>>
    BY <1>15 DEF vars, settings, cloud, history
  <2>2. /\ FilamentAccounted' /\ OutboxOrdered' /\ RecordedSealed' /\ Agreement'
        /\ Recorded' = Recorded
        /\ TypeOK /\ MoreTypes /\ FlightQueued /\ JobsFollow
    BY <2>1, QuietStep DEF memory
  <2>3. TypeOK' /\ MoreTypes'
    BY <2>1, <2>2 DEF TypeOK, MoreTypes, Printing, memory, settings, cloud, history
  <2>4. FlightQueued' /\ JobsFollow'
    BY <2>1, <2>2 DEF FlightQueued, JobsFollow, settings, cloud, history
  <2> QED BY <2>2, <2>3, <2>4, InvIsNext DEF Usual
<1> QED BY <1>1, <1>2, <1>3, <1>4, <1>5, <1>6, <1>7, <1>8, <1>9, <1>10, <1>11, <1>12, <1>13,
           <1>14, <1>15 DEF Next

LEMMA Invariance == Spec => []IInv
BY InitInv, NextInv, PTL DEF Spec

\* The plugin's and the cloud's state keep their types: no report, no spool and nothing that
\* was lost ever holds more filament than has been extruded.
THEOREM TypeCorrect == Spec => []TypeOK
BY Invariance, PTL DEF IInv

\* Every unit of filament the plugin followed is charged once, to the spool it came from,
\* or still waits in the outbox or the tracker, or was only in the memory of a process that
\* ended: for any slots, spools, prints, connections and changes of them.
THEOREM FilamentIsAccounted == Spec => []FilamentAccounted
BY Invariance, PTL DEF IInv

\* Of the reports of a job, those before the head of the queue are recorded.
LEMMA BeforeHead ==
    ASSUME IInv, HeadIndex # 0, NEW x, x = outbox[HeadIndex], NEW m \in 1..(x.sequence - 1)
    PROVE  \E y \in Recorded : y.job = x.job /\ y.sequence = m
<1> DEFINE h == HeadIndex
           c == Content(x)
<1>1. /\ h \in DOMAIN outbox /\ Matches(outbox[h])
      /\ \A i \in DOMAIN outbox : Matches(outbox[i]) => h <= i
  BY HeadIs DEF IInv
<1> HIDE DEF h
<1>2. /\ x = outbox[h] /\ x \in Report /\ x.job \in Nat /\ x.sequence \in Nat
      /\ DOMAIN outbox = 1..Len(outbox) /\ Len(outbox) \in Nat
  BY <1>1, QueuedTyped DEF IInv, MoreTypes, h
<1>3. c \in Facts /\ c.job = x.job /\ c.sequence = x.sequence /\ c.binding = x.binding
  BY <1>1, <1>2, QueuedAt DEF Content
<1> HIDE DEF c
<1>4. PICK y \in Facts : y.job = x.job /\ y.sequence = m
  BY <1>3 DEF IInv, NoneMissing
<1>5. y.binding = x.binding
  BY <1>3, <1>4 DEF IInv, FactsAgree
<1>6. ASSUME y \in Queued PROVE FALSE
  <2>1. PICK i \in DOMAIN outbox : Content(outbox[i]) = y
    BY <1>6 DEF Queued, ContentsOf
  <2>2. outbox[i].job = x.job /\ outbox[i].sequence = m /\ outbox[i].binding = x.binding
    BY <1>4, <1>5, <2>1 DEF Content
  <2>3. h <= i
    BY <1>1, <1>2, <2>2 DEF Matches
  <2>4. ~ Earlier(outbox[h], outbox[i]) /\ h # i
    BY <1>2, <2>2 DEF Earlier
  <2>5. h < i => Earlier(outbox[h], outbox[i])
    BY <1>1 DEF IInv, OutboxOrdered, Ordered
  <2> QED BY <1>1, <1>2, <2>3, <2>4, <2>5
<1> QED BY <1>4, <1>6 DEF Facts

LEMMA TakesHead == IInv => HeadTaken
<1> SUFFICES ASSUME IInv, HeadIndex # 0, token, connector = "ready",
                    ~ Missing(outbox[HeadIndex]), outbox[HeadIndex].job \notin closed
             PROVE  Verdict(outbox[HeadIndex]) \in Taken
  BY DEF HeadTaken
<1> DEFINE h == HeadIndex
           x == outbox[h]
           known == {r \in receipts : Same(r, x)}
<1>1. h \in DOMAIN outbox /\ x.binding = binding
  BY HeadIs DEF IInv, Matches
<1>2. \A m \in 1..(x.sequence - 1) : \E y \in Recorded : y.job = x.job /\ y.sequence = m
  BY BeforeHead
<1> HIDE DEF h
<1>3. /\ x \in Report /\ x.job \in Jobs /\ x.sequence \in 1..MaxSequence
      /\ Content(x) \in Facts /\ Content(x).job = x.job /\ Content(x).sequence = x.sequence
      /\ MaxSequence \in Nat
  BY <1>1, QueuedTyped, QueuedAt, BoundsAssumption DEF IInv, Report, Content
<1>4. h = HeadIndex
  BY DEF h
<1> HIDE DEF x
<1>5. CASE known # {}
  <2>1. \A r \in known : r = Receipt(x)
    <3> TAKE r \in known
    <3>1. Content(r) \in Facts /\ Content(r).job = x.job /\ Content(r).sequence = x.sequence
      BY DEF Facts, Recorded, Same, Content
    <3>2. Content(r) = Content(x)
      BY <1>3, <3>1 DEF IInv, FactsAgree
    <3> QED BY <1>1, <1>3, <3>2, KnownIsReceipt
  <2>2. known = {Receipt(x)}
    BY <1>5, <2>1
  <2>3. Verdict(x) = "deduplicated"
    BY <1>5, <2>2 DEF Verdict
  <2> QED BY <1>4, <2>3 DEF Taken, x
<1>6. CASE known = {}
  <2>1. Content(x) \notin Recorded
    BY <1>3, <1>6, RecordedIs
  <2> DEFINE l == LastSegment(x.job)
  <2>2. /\ l \in 0..MaxSequence
        /\ \A m \in 1..l : \E y \in Recorded : y.job = x.job /\ y.sequence = m
        /\ \A r \in receipts : r.job = x.job /\ r.amounts # NoFilament => r.sequence <= l
    BY <1>3, LastSegmentIs
  <2> HIDE DEF l
  <2>3. ~ (x.sequence <= l)
    <3>1. ASSUME x.sequence <= l PROVE FALSE
      <4>1. x.sequence \in 1..l
        BY <1>3, <2>2, <3>1
      <4>2. PICK y \in Recorded : y.job = x.job /\ y.sequence = x.sequence
        BY <2>2, <4>1
      <4>3. y \in Facts
        BY DEF Facts
      <4>4. y = Content(x)
        BY <1>3, <4>2, <4>3 DEF IInv, FactsAgree
      <4> QED BY <2>1, <4>2, <4>4
    <3> QED BY <3>1
  <2>4. x.sequence - 1 <= l
    <3>1. CASE x.sequence = 1
      BY <2>2, <3>1
    <3>2. CASE x.sequence # 1
      <4>1. x.sequence - 1 \in 1..(x.sequence - 1)
        BY <1>3, <3>2
      <4>2. PICK y \in Recorded : y.job = x.job /\ y.sequence = x.sequence - 1
        BY <1>2, <4>1 DEF x
      <4>3. y \in Facts /\ y.sequence < Content(x).sequence
        BY <1>3, <4>2 DEF Facts
      <4>4. y.status \notin Terminal
        BY <1>3, <4>2, <4>3 DEF IInv, FactsAgree
      <4>5. y.amounts # NoFilament
        BY <4>3, <4>4 DEF IInv, FactsAgree
      <4>6. PICK r \in receipts : Content(r) = y
        BY DEF Recorded
      <4>7. r.job = x.job /\ r.sequence = x.sequence - 1 /\ r.amounts # NoFilament
        BY <4>2, <4>5, <4>6 DEF Content
      <4> QED BY <2>2, <4>7
    <3> QED BY <3>1, <3>2
  <2>5. x.sequence = l + 1
    BY <1>3, <2>2, <2>3, <2>4
  <2>6. Verdict(x) = ProviderVerdict(jobs[x.job], x.status, Payload(x))
    <3>1. ~ Missing(x)
      BY <1>4 DEF x
    <3> QED BY <1>6, <2>5, <3>1 DEF Verdict, l
  <2>7. jobs[x.job] = NoJob \/ jobs[x.job].status \notin Terminal
    <3>1. x.job \notin closed
      BY <1>4 DEF x
    <3> QED BY <1>3, <2>1, <3>1, EndedByOwner
  <2>8. x.status \in {"printing", "paused"} \union Terminal
    BY <1>3, BoundsAssumption DEF Report
  <2>9. jobs[x.job] # NoJob => jobs[x.job].status \in {"printing", "paused"}
    BY <1>3, <2>7 DEF IInv, JobsFollow
  <2>10. ProviderVerdict(jobs[x.job], x.status, Payload(x)) = "applied"
    BY <2>7, <2>8, <2>9 DEF ProviderVerdict, Allowed, Terminal
  <2> QED BY <1>4, <2>6, <2>10 DEF Taken, x
<1> QED BY <1>5, <1>6

\* The head of the queue is taken by a cloud that knows the token, as long as the connector
\* is ready and the owner has neither deleted a spool of the report nor closed the
\* print's job: no order of checkpoints, merges, losses, restarts and changes of the
\* connection brings the plugin's numbers and the cloud's apart.
THEOREM HeadIsTaken == Spec => []HeadTaken
BY Invariance, TakesHead, PTL

LEMMA StepKeepsEnded ==
    ASSUME IInv, [Next]_vars, NEW j \in Jobs, jobs[j] # NoJob, jobs[j].status \in Terminal
    PROVE  /\ jobs'[j] = jobs[j]
           /\ \A r \in receipts' \ receipts : r.job = j => r.amounts = NoFilament
<1>1. CASE UNCHANGED <<jobs, receipts>>
  BY <1>1
<1>2. CASE Serve
  <2> DEFINE x == flight.report
  <2>1. /\ flight # None
        /\ receipts' = IF Verdict(x) \in {"applied", "replay"}
                       THEN receipts \union {Receipt(x)} ELSE receipts
        /\ jobs' = IF Verdict(x) = "applied"
                   THEN [jobs EXCEPT ![x.job] = ProviderMoves(@, x.status, Payload(x))]
                   ELSE jobs
    BY <1>2 DEF Serve
  <2>2. x \in Report /\ Content(x) \in Facts
    BY <2>1, FlightIs
  <2>3. Verdict(x) \in {"applied", "replay"} => x.job # j
    BY <2>2, Applied
  <2>4. Receipt(x).job = x.job /\ DOMAIN jobs = Jobs
    BY DEF Receipt, IInv, MoreTypes
  <2> HIDE DEF x
  <2> QED BY <2>1, <2>3, <2>4
<1>3. ASSUME NEW job \in Jobs, NEW status \in {"printing", "paused"} \union Outcomes,
             OwnerMoves(job, status)
      PROVE  jobs'[j] = jobs[j] /\ receipts' = receipts
  <2>1. /\ UserMay(jobs[job], status) /\ receipts' = receipts
        /\ jobs' = [jobs EXCEPT ![job] = UserMoves(@, status)]
    BY <1>3 DEF OwnerMoves
  <2>2. job # j
    BY <2>1, UserMoved
  <2> QED BY <2>1, <2>2 DEF IInv, MoreTypes
<1>4. \/ UNCHANGED <<jobs, receipts>> \/ Serve
      \/ \E job \in Jobs, status \in {"printing", "paused"} \union Outcomes :
            OwnerMoves(job, status)
  <2>1. CASE UNCHANGED vars
    BY <2>1 DEF vars, cloud
  <2>2. CASE Next
    BY <2>2 DEF Next, BeginPrint, Crash, Extrude, Checkpoint, FinishPrint, PullSnapshot, Pair,
                Unpair, RevokeByOwner, Reconfigure, Heartbeat, DeleteSpool, Send, SendBlocked,
                SendHead, Receive, ReceiveInvalid, ReceiveAnswer, Lose, WorkerEnds, cloud
  <2> QED BY <2>1, <2>2
<1> QED BY <1>1, <1>2, <1>3, <1>4

\* A job that has ended stays as it ended, and nothing more of its print is charged.
THEOREM ClosedJobsStay == Spec => ClosedStays
<1>1. IInv /\ [Next]_vars =>
         [\A j \in Jobs :
             jobs[j] # NoJob /\ jobs[j].status \in Terminal =>
                /\ jobs'[j] = jobs[j]
                /\ \A r \in receipts' \ receipts : r.job = j => r.amounts = NoFilament]_vars
  BY StepKeepsEnded
<1> QED BY <1>1, Invariance, PTL DEF Spec, ClosedStays
=============================================================================
