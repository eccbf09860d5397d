-------------------------- MODULE SpoolBalanceProofs --------------------------
(***************************************************************************)
(* Proofs about module SpoolBalance, for any spool, any labels, rates and   *)
(* statements, and any number of ticks, jobs and records.                   *)
(***************************************************************************)
EXTENDS SpoolBalance, Induction

-----------------------------------------------------------------------------
(* The inductive invariant. *)

\* The filament has been fed at this rate from one moment to the other.
Steady(rate, start, end) == \A t \in start..end : fed[t] = fed[start] + rate * (t - start)

\* What is fed stays fed, and no more leaves the spool than was on it.
FeedOK ==
    /\ \A s, t \in Times : s <= t => fed[s] <= fed[t]
    /\ Spent <= Net
    /\ open = NoSegment => flow = 0

\* The segment being printed.
OpenOK ==
    open # NoSegment =>
        /\ open.job = job.number /\ open.job >= 1
        /\ job.started <= open.start /\ open.start <= now
        /\ open.even => Steady(flow, open.start, now)

\* A report under way says what was fed in its segment.
Truthful(r) ==
    /\ r.job >= 1 /\ r.job <= job.number
    /\ r.started <= r.start /\ r.start < r.end /\ r.end <= now
    /\ r.weight = fed[r.end] - fed[r.start]
    /\ r.even => \E rate \in Nat : Steady(rate, r.start, r.end)

QueueOK == \A i \in DOMAIN queue : Truthful(queue[i])

\* A record of the history.
Consistent(r) ==
    /\ r.boundary <= now /\ r.job <= job.number
    /\ r.type = "printer_report" =>
          /\ r.job # 0 /\ r.boundary = Unknown
          /\ r.accounting = "none" => r.delta <= r.reported
          /\ r.accounting \in {"needs_reconciliation", "already_in_balance",
                               "reconciled_by_measurement"} => r.delta = 0
    /\ r.type # "printer_report" => r.accounting = "none" /\ (r.job # 0 => r.reverts # 0)

RecordsOK == \A i \in DOMAIN records : Consistent(records[i])

\* One segment comes right after another one: where that one ended, or where the next
\* job started.
After(a, b) ==
    IF a.job = b.job THEN b.start = a.end ELSE a.job < b.job /\ b.start = b.started

JobReportsOf(q, j) == {i \in DOMAIN q : q[i].type = "printer_report" /\ q[i].job = j}

\* A segment comes right after those the spool's history knows of.
Leads(q, b) ==
    /\ \A i \in DOMAIN q : q[i].job <= b.job
    /\ IF JobReportsOf(q, b.job) = {} THEN b.start = b.started
       ELSE q[Max(JobReportsOf(q, b.job))].observed \in {Unknown, b.start}

OpenReport == [job |-> open.job, started |-> job.started, start |-> open.start, end |-> now]

\* No segment is missing between what the history knows of and what is being printed.
Contiguous ==
    /\ \A i \in DOMAIN queue : i # Len(queue) => After(queue[i], queue[i + 1])
    /\ queue # <<>> => Leads(records, queue[1])
    /\ open # NoSegment =>
          IF queue = <<>> THEN Leads(records, OpenReport)
          ELSE After(queue[Len(queue)], OpenReport)

\* All of it but the two equations.
Books ==
    /\ TypeOK /\ FeedOK /\ OpenOK /\ QueueOK /\ RecordsOK /\ Contiguous
    /\ LedgerAdds /\ EmptyHoldsNothing

IInv == Books /\ BalanceExact /\ JobFact

-----------------------------------------------------------------------------
(* The operators. *)

LEMMA MaxIs ==
    ASSUME NEW a \in Nat, NEW b \in Nat
    PROVE  Max({a, b}) = IF a >= b THEN a ELSE b
<1> DEFINE T == {a, b}
<1>1. T \in SUBSET (0..(a + b)) /\ T # {} /\ a + b \in Nat
  OBVIOUS
<1> HIDE DEF T
<1>2. Max(T) \in T /\ \A y \in T : y <= Max(T)
  BY <1>1, Greatest
<1> QED BY <1>2 DEF T

LEMMA MinOfTwo ==
    ASSUME NEW a \in Nat, NEW b \in Nat
    PROVE  Min({a, b}) = IF a <= b THEN a ELSE b
<1> DEFINE T == {a, b}
<1>1. T \in SUBSET Nat /\ T # {}
  OBVIOUS
<1> HIDE DEF T
<1>2. Min(T) \in T /\ \A y \in T : Min(T) <= y
  BY <1>1, MinIs
<1> QED BY <1>2 DEF T

\* Where a statement of the amount stands, for any history.
BoundaryOf(q) == Max({Unknown} \union {q[i].boundary : i \in DOMAIN q})

LEMMA BoundaryIs ==
    ASSUME NEW q \in Seq(Record)
    PROVE  /\ BoundaryOf(q) \in Times \union {Unknown}
           /\ BoundaryOf(q) = Unknown \/ \E i \in DOMAIN q : BoundaryOf(q) = q[i].boundary
           /\ \A i \in DOMAIN q : q[i].boundary <= BoundaryOf(q)
<1> DEFINE T == {Unknown} \union {q[i].boundary : i \in DOMAIN q}
<1>1. \A i \in DOMAIN q : q[i].boundary \in Times \union {Unknown}
  <2>1. \A i \in DOMAIN q : q[i] \in Record
    OBVIOUS
  <2>2. \A x \in Record : x.boundary \in Times \union {Unknown}
    BY DEF Record
  <2> QED BY <2>1, <2>2
<1>2. T \in SUBSET (0..MaxTime) /\ T # {} /\ MaxTime \in Nat
  BY <1>1, BoundsAssumption DEF Times, Unknown
<1> HIDE DEF T
<1>3. Max(T) \in T /\ \A y \in T : y <= Max(T)
  BY <1>2, Greatest
<1> QED BY <1>1, <1>3 DEF T, BoundaryOf

\* One record later, the earlier ones say the same of the spool.
Same(a, b) ==
    /\ b.type = a.type /\ b.delta = a.delta /\ b.reported = a.reported
    /\ b.boundary = a.boundary /\ b.observed = a.observed /\ b.job = a.job
    /\ b.reverts = a.reverts

Grows(q, p, r) ==
    /\ p \in Seq(Record) /\ Len(p) = Len(q) + 1 /\ p[Len(q) + 1] = r
    /\ \A i \in 1..Len(q) : Same(q[i], p[i])

\* What a weighing makes of an earlier record.
Settling(x, r) ==
    IF r.boundary # Unknown /\ x.accounting = "needs_reconciliation"
       THEN [x EXCEPT !.accounting = "reconciled_by_measurement"] ELSE x

LEMMA RecordedIs ==
    ASSUME NEW q \in Seq(Record), NEW r \in Record
    PROVE  /\ Recorded(q, r) \in Seq(Record)
           /\ Len(Recorded(q, r)) = Len(q) + 1 /\ Recorded(q, r)[Len(q) + 1] = r
           /\ \A i \in 1..Len(q) : Recorded(q, r)[i] = Settling(q[i], r)
<1> DEFINE s == [i \in DOMAIN q |-> Settling(q[i], r)]
<1>1. \A x \in Record : Settling(x, r) \in Record
  BY SMTT(60) DEF Settling, Record, Accountings
<1>2. DOMAIN q = 1..Len(q) /\ Len(q) \in Nat /\ \A i \in DOMAIN q : q[i] \in Record
  OBVIOUS
<1>3. s \in [1..Len(q) -> Record]
  BY <1>1, <1>2
<1>4. s \in Seq(Record) /\ Len(s) = Len(q)
  <2>1. s \in Seq(Record)
    BY <1>2, <1>3, SeqDef
  <2> QED BY <2>1, <1>2, LenProperties
<1>5. Recorded(q, r) = Append(s, r)
  BY DEF Recorded, Settling
<1>6. \A i \in 1..Len(q) : s[i] = Settling(q[i], r)
  BY <1>2
<1> HIDE DEF s
<1> QED BY <1>4, <1>5, <1>6

LEMMA RecordedGrows ==
    ASSUME NEW q \in Seq(Record), NEW r \in Record
    PROVE  Grows(q, Recorded(q, r), r)
<1>1. ASSUME NEW x \in Record PROVE Same(x, Settling(x, r))
  BY DEF Same, Settling, Record
<1>2. \A i \in 1..Len(q) : q[i] \in Record
  OBVIOUS
<1> QED BY <1>1, <1>2, RecordedIs DEF Grows

LEMMA MarkedGrows ==
    ASSUME NEW q \in Seq(Record), NEW r \in Record, NEW k \in DOMAIN q
    PROVE  LET m == [q EXCEPT ![k].reverted = TRUE]
           IN  m \in Seq(Record) /\ Len(m) = Len(q) /\ Grows(q, Recorded(m, r), r)
<1> DEFINE m == [q EXCEPT ![k].reverted = TRUE]
<1>1. DOMAIN q = 1..Len(q) /\ Len(q) \in Nat /\ \A i \in DOMAIN q : q[i] \in Record
  OBVIOUS
<1>2. ASSUME NEW x \in Record PROVE [x EXCEPT !.reverted = TRUE] \in Record
                                    /\ Same(x, [x EXCEPT !.reverted = TRUE])
  BY DEF Record, Same
<1>3. m \in [1..Len(q) -> Record] /\ \A i \in 1..Len(q) : Same(q[i], m[i])
  <2>1. m = [i \in 1..Len(q) |-> IF i = k THEN [q[i] EXCEPT !.reverted = TRUE] ELSE q[i]]
    BY <1>1
  <2>2. \A x \in Record : Same(x, x)
    BY DEF Same
  <2> QED BY <1>1, <1>2, <2>1, <2>2
<1>4. m \in Seq(Record) /\ Len(m) = Len(q)
  <2>1. m \in Seq(Record)
    BY <1>1, <1>3, SeqDef
  <2>2. DOMAIN m = 1..Len(q)
    BY <1>1
  <2> QED BY <2>1, <2>2, <1>1, LenProperties
<1> HIDE DEF m
<1>5. Grows(m, Recorded(m, r), r)
  BY <1>4, RecordedGrows
<1>6. Grows(q, Recorded(m, r), r)
  BY <1>3, <1>4, <1>5 DEF Grows, Same
<1> QED BY <1>4, <1>6 DEF m

LEMMA GrownBoundary ==
    ASSUME NEW q \in Seq(Record), NEW p, NEW r \in Record, Grows(q, p, r)
    PROVE  /\ r.boundary = Unknown => BoundaryOf(p) = BoundaryOf(q)
           /\ (\A i \in DOMAIN q : q[i].boundary <= r.boundary) => BoundaryOf(p) = r.boundary
<1>1. /\ p \in Seq(Record) /\ DOMAIN p = 1..(Len(q) + 1) /\ DOMAIN q = 1..Len(q)
      /\ Len(q) \in Nat /\ p[Len(q) + 1] = r
      /\ \A i \in DOMAIN q : p[i].boundary = q[i].boundary
  BY DEF Grows, Same
<1>2. /\ BoundaryOf(q) \in Nat /\ BoundaryOf(p) \in Nat /\ Unknown \in Nat
      /\ r.boundary \in Nat /\ \A i \in DOMAIN q : q[i].boundary \in Nat
  <2>1. Times \union {Unknown} \subseteq Nat
    BY BoundsAssumption DEF Times, Unknown
  <2>2. \A x \in Record : x.boundary \in Nat
    BY <2>1 DEF Record
  <2>3. \A i \in DOMAIN q : q[i] \in Record
    OBVIOUS
  <2> QED BY <1>1, <2>1, <2>2, <2>3, BoundaryIs
<1>3. /\ BoundaryOf(q) = Unknown \/ \E i \in DOMAIN q : BoundaryOf(q) = q[i].boundary
      /\ \A i \in DOMAIN q : q[i].boundary <= BoundaryOf(q)
  BY BoundaryIs
<1>4. /\ \/ BoundaryOf(p) = Unknown \/ BoundaryOf(p) = r.boundary
         \/ \E i \in DOMAIN q : BoundaryOf(p) = q[i].boundary
      /\ \A i \in DOMAIN q : q[i].boundary <= BoundaryOf(p)
      /\ r.boundary <= BoundaryOf(p)
  <2>1. /\ BoundaryOf(p) = Unknown \/ \E i \in DOMAIN p : BoundaryOf(p) = p[i].boundary
        /\ \A i \in DOMAIN p : p[i].boundary <= BoundaryOf(p)
    BY <1>1, BoundaryIs
  <2>2. DOMAIN p = DOMAIN q \union {Len(q) + 1}
    BY <1>1
  <2> QED BY <1>1, <2>1, <2>2
<1> HIDE DEF Grows
<1>5. Unknown = 0
  BY DEF Unknown
<1> QED BY <1>2, <1>3, <1>4, <1>5

LEMMA GrownReports ==
    ASSUME NEW q \in Seq(Record), NEW p, NEW r \in Record, Grows(q, p, r), NEW j
    PROVE  JobReportsOf(p, j) = IF r.type = "printer_report" /\ r.job = j
                                THEN JobReportsOf(q, j) \union {Len(q) + 1}
                                ELSE JobReportsOf(q, j)
<1>1. /\ DOMAIN p = DOMAIN q \union {Len(q) + 1} /\ p[Len(q) + 1] = r
      /\ Len(q) + 1 \notin DOMAIN q
      /\ \A i \in DOMAIN q : p[i].type = q[i].type /\ p[i].job = q[i].job
  BY DEF Grows, Same
<1> QED BY <1>1 DEF JobReportsOf

\* A job's last report.
LEMMA LastReport ==
    ASSUME NEW q \in Seq(Record), NEW j, JobReportsOf(q, j) # {}
    PROVE  /\ Max(JobReportsOf(q, j)) \in JobReportsOf(q, j)
           /\ \A i \in JobReportsOf(q, j) : i <= Max(JobReportsOf(q, j))
<1> DEFINE T == JobReportsOf(q, j)
<1>1. T \in SUBSET (0..Len(q)) /\ Len(q) \in Nat
  BY DEF JobReportsOf
<1> HIDE DEF T
<1>2. T # {} => Max(T) \in T /\ \A y \in T : y <= Max(T)
  BY <1>1, Greatest
<1> QED BY <1>2 DEF T

LEMMA NewLastReport ==
    ASSUME NEW q \in Seq(Record), NEW p, NEW r \in Record, Grows(q, p, r),
           r.type = "printer_report"
    PROVE  Max(JobReportsOf(p, r.job)) = Len(q) + 1
<1>1. JobReportsOf(p, r.job) = JobReportsOf(q, r.job) \union {Len(q) + 1}
  BY GrownReports
<1>2. p \in Seq(Record) /\ Len(q) \in Nat
  BY DEF Grows
<1>3. /\ Max(JobReportsOf(p, r.job)) \in JobReportsOf(p, r.job)
      /\ \A i \in JobReportsOf(p, r.job) : i <= Max(JobReportsOf(p, r.job))
  BY <1>1, <1>2, LastReport
<1>4. JobReportsOf(q, r.job) \subseteq 1..Len(q)
  BY DEF JobReportsOf
<1> DEFINE m == Max(JobReportsOf(p, r.job))
<1>5. (m \in 1..Len(q) \/ m = Len(q) + 1) /\ Len(q) + 1 <= m
  BY <1>1, <1>3, <1>4
<1> HIDE DEF m
<1>6. m = Len(q) + 1
  BY <1>2, <1>5
<1> QED BY <1>6 DEF m

\* The sum of a history.
Deltas(q) == [i \in DOMAIN q |-> q[i].delta]
DeltaSum(q) == SumFunctionOnSet(Deltas(q), DOMAIN q)

LEMMA GrownSum ==
    ASSUME NEW q \in Seq(Record), NEW p, NEW r \in Record, Grows(q, p, r)
    PROVE  DeltaSum(p) = DeltaSum(q) + r.delta
<1>1. /\ p \in Seq(Record) /\ DOMAIN p = 1..(Len(q) + 1) /\ DOMAIN q = 1..Len(q)
      /\ Len(q) \in Nat /\ p[Len(q) + 1] = r
      /\ \A i \in DOMAIN q : p[i].delta = q[i].delta
  BY DEF Grows, Same
<1>2. r.delta \in Int /\ \A i \in DOMAIN q : q[i].delta \in Int
  <2>1. \A x \in Record : x.delta \in Int
    BY DEF Record
  <2>2. \A i \in DOMAIN q : q[i] \in Record
    OBVIOUS
  <2> QED BY <2>1, <2>2
<1>3. /\ \A i \in 1..Len(q) : Deltas(q)[i] \in Int /\ Deltas(p)[i] = Deltas(q)[i]
      /\ Deltas(p)[Len(q) + 1] = r.delta
  BY <1>1, <1>2 DEF Deltas
<1>4. SumFunctionOnSet(Deltas(p), 1..(Len(q) + 1))
         = SumFunctionOnSet(Deltas(q), 1..Len(q)) + Deltas(p)[Len(q) + 1]
  BY <1>1, <1>2, <1>3, SumLonger
<1> QED BY <1>1, <1>3, <1>4 DEF DeltaSum

\* What a weighing has not covered, for any record of the feed and any boundary.
UncoveredAt(f, b, start, end) == IF end <= b THEN 0 ELSE f[end] - f[Max({start, b})]

LEMMA UncoveredIs ==
    ASSUME NEW f \in [Times -> Nat], NEW b \in Times \union {Unknown},
           NEW start \in Times, NEW end \in Times
    PROVE  /\ UncoveredAt(f, b, start, end) \in Int
           /\ UncoveredAt(f, b, start, end) =
                 IF end <= b THEN 0
                 ELSE IF b <= start THEN f[end] - f[start] ELSE f[end] - f[b]
<1>1. start \in Nat /\ b \in Nat /\ end \in Nat /\ start >= 1 /\ Unknown = 0
  BY BoundsAssumption DEF Times, Unknown
<1>2. Max({start, b}) = IF start >= b THEN start ELSE b
  BY <1>1, MaxIs
<1>3. f[start] \in Nat /\ f[end] \in Nat /\ (b \in Times => f[b] \in Nat)
  OBVIOUS
<1>4. ~ (b <= start) => b \in Times
  BY <1>1
<1> QED BY <1>1, <1>2, <1>3, <1>4 DEF UncoveredAt

Lacks(f, b, q) == [i \in DOMAIN q |-> UncoveredAt(f, b, q[i].start, q[i].end)]
LackSum(f, b, q) == SumFunctionOnSet(Lacks(f, b, q), DOMAIN q)
LackNow(f, b, o, n) == IF o = NoSegment THEN 0 ELSE UncoveredAt(f, b, o.start, n)

Weights(q) == [i \in DOMAIN q |-> q[i].weight]
WeightSum(q) == SumFunctionOnSet(Weights(q), DOMAIN q)

LEMMA OutstandingIs ==
    Outstanding = LackSum(fed, BoundaryOf(records), queue)
                     + LackNow(fed, BoundaryOf(records), open, now)
BY DEF Outstanding, Uncovered, Boundary, BoundaryOf, LackSum, Lacks, LackNow, UncoveredAt,
       SumFunction

LEMMA OutstandingIsNext ==
    Outstanding' = LackSum(fed', BoundaryOf(records'), queue')
                     + LackNow(fed', BoundaryOf(records'), open', now')
BY DEF Outstanding, Uncovered, Boundary, BoundaryOf, LackSum, Lacks, LackNow, UncoveredAt,
       SumFunction

LEMMA ReportTyped ==
    ASSUME NEW x \in Report
    PROVE  x.start \in Times /\ x.end \in Times /\ x.started \in Times /\ x.weight \in Nat
           /\ x.job \in Nat /\ x.timed \in BOOLEAN /\ x.even \in BOOLEAN
BY DEF Report

LEMMA LackTyped ==
    ASSUME NEW f \in [Times -> Nat], NEW b \in Times \union {Unknown}, NEW q \in Seq(Report)
    PROVE  /\ \A i \in DOMAIN q : Lacks(f, b, q)[i] \in Int
           /\ LackSum(f, b, q) \in Int
<1>1. \A i \in DOMAIN q : q[i] \in Report
  OBVIOUS
<1>2. \A i \in DOMAIN q : Lacks(f, b, q)[i] \in Int
  BY <1>1, ReportTyped, UncoveredIs DEF Lacks
<1>3. DOMAIN q = 1..Len(q) /\ Len(q) \in Nat
  OBVIOUS
<1>4. IsFiniteSet(DOMAIN q)
  BY <1>3, FS_Interval
<1> QED BY <1>2, <1>4, SumInt DEF LackSum

\* A report joins the queue.
LEMMA QueueLonger ==
    ASSUME NEW q \in Seq(Report), NEW x \in Report,
           NEW f \in [Times -> Nat], NEW b \in Times \union {Unknown}
    PROVE  /\ LackSum(f, b, Append(q, x))
                 = LackSum(f, b, q) + UncoveredAt(f, b, x.start, x.end)
           /\ WeightSum(Append(q, x)) = WeightSum(q) + x.weight
<1> DEFINE p == Append(q, x)
<1>1. /\ DOMAIN q = 1..Len(q) /\ DOMAIN p = 1..(Len(q) + 1) /\ Len(q) \in Nat
      /\ p[Len(q) + 1] = x /\ \A i \in 1..Len(q) : p[i] = q[i] /\ q[i] \in Report
  OBVIOUS
<1> HIDE DEF p
<1>2. /\ \A i \in 1..Len(q) :
            /\ Lacks(f, b, q)[i] \in Int /\ Lacks(f, b, p)[i] = Lacks(f, b, q)[i]
            /\ Weights(q)[i] \in Int /\ Weights(p)[i] = Weights(q)[i]
      /\ Lacks(f, b, p)[Len(q) + 1] = UncoveredAt(f, b, x.start, x.end)
      /\ Weights(p)[Len(q) + 1] = x.weight
  <2>1. \A i \in 1..Len(q) : Lacks(f, b, q)[i] \in Int
    BY <1>1, LackTyped
  <2>2. \A i \in 1..Len(q) : q[i].weight \in Int
    BY <1>1, ReportTyped
  <2> QED BY <1>1, <2>1, <2>2 DEF Lacks, Weights
<1>3. UncoveredAt(f, b, x.start, x.end) \in Int /\ x.weight \in Int
  <2>1. x.start \in Times /\ x.end \in Times /\ x.weight \in Nat
    BY ReportTyped
  <2>2. UncoveredAt(f, b, x.start, x.end) \in Int
    BY <2>1, UncoveredIs, Zenon
  <2> QED BY <2>1, <2>2
<1>4. SumFunctionOnSet(Lacks(f, b, p), 1..(Len(q) + 1))
         = SumFunctionOnSet(Lacks(f, b, q), 1..Len(q)) + Lacks(f, b, p)[Len(q) + 1]
  BY <1>1, <1>2, <1>3, SumLonger
<1>5. SumFunctionOnSet(Weights(p), 1..(Len(q) + 1))
         = SumFunctionOnSet(Weights(q), 1..Len(q)) + Weights(p)[Len(q) + 1]
  BY <1>1, <1>2, <1>3, SumLonger
<1> QED BY <1>1, <1>2, <1>4, <1>5 DEF LackSum, WeightSum, p

\* The first report leaves the queue.
LEMMA QueueShorter ==
    ASSUME NEW q \in Seq(Report), q # <<>>,
           NEW f \in [Times -> Nat], NEW b \in Times \union {Unknown}
    PROVE  /\ LackSum(f, b, q)
                 = UncoveredAt(f, b, q[1].start, q[1].end) + LackSum(f, b, Tail(q))
           /\ WeightSum(q) = q[1].weight + WeightSum(Tail(q))
<1> DEFINE p == Tail(q)
           n == Len(q) - 1
<1>1. /\ DOMAIN q = 1..(n + 1) /\ DOMAIN p = 1..n /\ n \in Nat
      /\ \A i \in 1..n : p[i] = q[i + 1]
      /\ \A i \in 1..(n + 1) : q[i] \in Report
  OBVIOUS
<1> HIDE DEF p, n
<1>2. /\ \A i \in 1..(n + 1) : Lacks(f, b, q)[i] \in Int /\ Weights(q)[i] \in Int
      /\ \A i \in 1..n : /\ Lacks(f, b, p)[i] = Lacks(f, b, q)[i + 1]
                         /\ Weights(p)[i] = Weights(q)[i + 1]
      /\ Lacks(f, b, q)[1] = UncoveredAt(f, b, q[1].start, q[1].end)
      /\ Weights(q)[1] = q[1].weight
  <2>1. \A i \in 1..(n + 1) : Lacks(f, b, q)[i] \in Int
    BY <1>1, LackTyped
  <2>2. \A i \in 1..(n + 1) : q[i].weight \in Int
    BY <1>1, ReportTyped
  <2>3. 1 \in 1..(n + 1) /\ \A i \in 1..n : i + 1 \in 1..(n + 1)
    BY <1>1
  <2> QED BY <1>1, <2>1, <2>2, <2>3 DEF Lacks, Weights
<1>3. SumFunctionOnSet(Lacks(f, b, q), 1..(n + 1))
         = Lacks(f, b, q)[1] + SumFunctionOnSet(Lacks(f, b, p), 1..n)
  BY <1>1, <1>2, SumShorter
<1>4. SumFunctionOnSet(Weights(q), 1..(n + 1))
         = Weights(q)[1] + SumFunctionOnSet(Weights(p), 1..n)
  BY <1>1, <1>2, SumShorter
<1> QED BY <1>1, <1>2, <1>3, <1>4 DEF LackSum, WeightSum, p

\* What a weighing lacks of a segment depends on the feed up to the segment's end only.
LEMMA UncoveredSame ==
    ASSUME NEW f \in [Times -> Nat], NEW g \in [Times -> Nat],
           NEW b \in Times \union {Unknown}, NEW n \in Nat, b <= n,
           \A t \in Times : t <= n => g[t] = f[t],
           NEW start \in Times, NEW end \in Times, start <= n, end <= n
    PROVE  UncoveredAt(g, b, start, end) = UncoveredAt(f, b, start, end)
<1>1. UncoveredAt(f, b, start, end) =
         IF end <= b THEN 0 ELSE IF b <= start THEN f[end] - f[start] ELSE f[end] - f[b]
  BY UncoveredIs
<1>2. UncoveredAt(g, b, start, end) =
         IF end <= b THEN 0 ELSE IF b <= start THEN g[end] - g[start] ELSE g[end] - g[b]
  BY UncoveredIs
<1>3. g[start] = f[start] /\ g[end] = f[end] /\ (b \in Times => g[b] = f[b])
  OBVIOUS
<1>4. ~ (b <= start) => b \in Times
  BY BoundsAssumption DEF Times, Unknown
<1> QED BY <1>1, <1>2, <1>3, <1>4

\* The same reports under another record of the feed or another boundary.
LEMMA LackSame ==
    ASSUME NEW q \in Seq(Report), NEW f \in [Times -> Nat], NEW g \in [Times -> Nat],
           NEW b \in Times \union {Unknown}, NEW n \in Nat, b <= n,
           \A t \in Times : t <= n => g[t] = f[t],
           \A i \in DOMAIN q : q[i].start <= n /\ q[i].end <= n
    PROVE  LackSum(g, b, q) = LackSum(f, b, q)
<1>1. DOMAIN q = 1..Len(q) /\ Len(q) \in Nat /\ \A i \in DOMAIN q : q[i] \in Report
  OBVIOUS
<1>2. \A i \in DOMAIN q : Lacks(g, b, q)[i] = Lacks(f, b, q)[i]
  <2> SUFFICES ASSUME NEW i \in DOMAIN q
               PROVE  UncoveredAt(g, b, q[i].start, q[i].end)
                         = UncoveredAt(f, b, q[i].start, q[i].end)
    BY DEF Lacks
  <2>1. q[i].start \in Times /\ q[i].end \in Times
    BY <1>1, ReportTyped
  <2>2. q[i].start <= n /\ q[i].end <= n
    OBVIOUS
  <2> QED BY <2>1, <2>2, UncoveredSame
<1>3. IsFiniteSet(DOMAIN q)
  BY <1>1, FS_Interval
<1>4. \A i \in DOMAIN q : Lacks(f, b, q)[i] \in Int
  BY LackTyped
<1> QED BY <1>2, <1>3, <1>4, SumSame DEF LackSum

\* All of them are covered.
LEMMA LackNothing ==
    ASSUME NEW q \in Seq(Report), NEW f, NEW b, \A i \in DOMAIN q : q[i].end <= b
    PROVE  LackSum(f, b, q) = 0
<1>1. DOMAIN q = 1..Len(q) /\ Len(q) \in Nat
  OBVIOUS
<1>2. \A i \in DOMAIN q : Lacks(f, b, q)[i] = 0
  BY DEF Lacks, UncoveredAt
<1>3. IsFiniteSet(DOMAIN q)
  BY <1>1, FS_Interval
<1> QED BY <1>2, <1>3, SumZero DEF LackSum

-----------------------------------------------------------------------------
(* The invariant's parts as sums. *)

Standings(q) == [i \in DOMAIN q |-> Stands(q[i])]
StandSum(q) == SumFunctionOnSet(Standings(q), DOMAIN q)

\* No report was cut short, and no reversal was reverted.
Clean(q) ==
    \A i \in DOMAIN q : ~Capped(q[i]) /\ (q[i].reverts # 0 => ~q[i].reverted)

PrintedNow(f, o, n) == IF o = NoSegment THEN 0 ELSE f[n] - f[o.start]

LEMMA JobFactIs ==
    JobFact <=> (Clean(records) => StandSum(records) + WeightSum(queue)
                                      + PrintedNow(fed, open, now) = fed[now])
BY DEF JobFact, Clean, StandSum, Standings, WeightSum, Weights, PrintedNow, SumFunction

LEMMA JobFactIsNext ==
    JobFact' <=> (Clean(records') => StandSum(records') + WeightSum(queue')
                                      + PrintedNow(fed', open', now') = fed'[now'])
BY DEF JobFact, Clean, StandSum, Standings, WeightSum, Weights, PrintedNow, SumFunction,
       Stands, Confirmed, Unreconciled, Capped

LEMMA LedgerIs == LedgerAdds <=> used = DeltaSum(records) /\ used <= label
BY DEF LedgerAdds, DeltaSum, Deltas, SumFunction

LEMMA LedgerIsNext == LedgerAdds' <=> used' = DeltaSum(records') /\ used' <= label'
BY DEF LedgerAdds, DeltaSum, Deltas, SumFunction

LEMMA StandsTyped == ASSUME NEW x \in Record PROVE Stands(x) \in Int
BY DEF Record, Stands, Confirmed, Unreconciled

LEMMA SumsTyped ==
    ASSUME TypeOK
    PROVE  /\ LackSum(fed, BoundaryOf(records), queue) \in Int
           /\ LackNow(fed, BoundaryOf(records), open, now) \in Int
           /\ WeightSum(queue) \in Int
           /\ PrintedNow(fed, open, now) \in Int
           /\ StandSum(records) \in Int
           /\ DeltaSum(records) \in Int
<1>1. /\ queue \in Seq(Report) /\ records \in Seq(Record) /\ fed \in [Times -> Nat]
      /\ BoundaryOf(records) \in Times \union {Unknown} /\ now \in Times
      /\ open \in Segment \union {NoSegment}
  BY BoundaryIs DEF TypeOK
<1>2. open # NoSegment => open.start \in Times
  BY <1>1 DEF Segment
<1>3. LackSum(fed, BoundaryOf(records), queue) \in Int
  BY <1>1, LackTyped
<1>4. LackNow(fed, BoundaryOf(records), open, now) \in Int
  <2>1. CASE open # NoSegment
    <3>1. UncoveredAt(fed, BoundaryOf(records), open.start, now) \in Int
      BY <1>1, <1>2, <2>1, UncoveredIs, Zenon
    <3> QED BY <2>1, <3>1 DEF LackNow
  <2> QED BY <2>1 DEF LackNow
<1>5. PrintedNow(fed, open, now) \in Int
  BY <1>1, <1>2 DEF PrintedNow
<1>6. WeightSum(queue) \in Int
  <2>1. DOMAIN queue = 1..Len(queue) /\ Len(queue) \in Nat
        /\ \A i \in DOMAIN queue : queue[i] \in Report
    BY <1>1
  <2>2. \A i \in DOMAIN queue : Weights(queue)[i] \in Int
    BY <2>1, ReportTyped DEF Weights
  <2>3. IsFiniteSet(DOMAIN queue)
    BY <2>1, FS_Interval
  <2> QED BY <2>2, <2>3, SumInt DEF WeightSum
<1>7. DOMAIN records = 1..Len(records) /\ Len(records) \in Nat
      /\ \A i \in DOMAIN records : records[i] \in Record
  BY <1>1
<1>8. IsFiniteSet(DOMAIN records)
  BY <1>7, FS_Interval
<1>9. DeltaSum(records) \in Int
  <2>1. \A x \in Record : x.delta \in Int
    BY DEF Record
  <2>2. \A i \in DOMAIN records : Deltas(records)[i] \in Int
    BY <1>7, <2>1 DEF Deltas
  <2> QED BY <1>8, <2>2, SumInt DEF DeltaSum
<1>10. StandSum(records) \in Int
  <2>1. \A i \in DOMAIN records : Standings(records)[i] \in Int
    BY <1>7, StandsTyped DEF Standings
  <2> QED BY <1>8, <2>1, SumInt DEF StandSum
<1> QED BY <1>3, <1>4, <1>5, <1>6, <1>9, <1>10

LEMMA ExactIs ==
    BalanceExact <=> (~doubt => used + (LackSum(fed, BoundaryOf(records), queue)
                         + LackNow(fed, BoundaryOf(records), open, now)) = Spent + base)
BY OutstandingIs DEF BalanceExact

LEMMA ExactIsNext ==
    BalanceExact' <=> (~doubt' => used' + (LackSum(fed', BoundaryOf(records'), queue')
                         + LackNow(fed', BoundaryOf(records'), open', now')) = Spent' + base')
BY OutstandingIsNext DEF BalanceExact

\* What the values of the variables are numbers of.
LEMMA Typed ==
    ASSUME TypeOK
    PROVE  /\ now \in Times /\ now \in Nat /\ Unknown = 0 /\ Unknown \notin Times
           /\ Times \subseteq Nat
           /\ fed \in [Times -> Nat] /\ fed[now] \in Nat
           /\ flow \in Nat /\ gone \in Nat /\ used \in Nat /\ label \in Nat /\ base \in Int
           /\ Spent \in Nat
           /\ queue \in Seq(Report) /\ records \in Seq(Record)
           /\ Len(queue) \in Nat /\ DOMAIN queue = 1..Len(queue)
           /\ Len(records) \in Nat /\ DOMAIN records = 1..Len(records)
           /\ \A i \in DOMAIN queue : queue[i] \in Report
           /\ \A i \in DOMAIN records : records[i] \in Record
           /\ job.number \in Nat /\ job.started \in Times
           /\ open # NoSegment => open \in Segment
           /\ \A o \in Segment : o.job \in Nat /\ o.start \in Times /\ o.even \in BOOLEAN
           /\ BoundaryOf(records) \in Times \union {Unknown}
<1>1. records \in Seq(Record) /\ queue \in Seq(Report)
  BY DEF TypeOK
<1>2. BoundaryOf(records) \in Times \union {Unknown}
  BY <1>1, BoundaryIs
<1>3. \A o \in Segment : o.job \in Nat /\ o.start \in Times /\ o.even \in BOOLEAN
  BY DEF Segment
<1>4. job.number \in Nat /\ job.started \in Times
  BY BoundsAssumption DEF TypeOK
<1>5. /\ now \in Times /\ now \in Nat /\ Unknown = 0 /\ Unknown \notin Times
      /\ Times \subseteq Nat
  BY BoundsAssumption DEF TypeOK, Times, Unknown
<1>6. fed \in [Times -> Nat] /\ fed[now] \in Nat /\ gone \in Nat /\ Spent \in Nat
  BY <1>5 DEF TypeOK, Spent
<1>7. flow \in Nat /\ used \in Nat /\ label \in Nat /\ base \in Int
  BY BoundsAssumption DEF TypeOK
<1>8. open # NoSegment => open \in Segment
  BY DEF TypeOK
<1> QED BY <1>1, <1>2, <1>3, <1>4, <1>5, <1>6, <1>7, <1>8

LEMMA BoundaryPast ==
    ASSUME TypeOK, RecordsOK
    PROVE  /\ BoundaryOf(records) \in Times \union {Unknown} /\ BoundaryOf(records) \in Nat
           /\ BoundaryOf(records) <= now
<1>1. /\ BoundaryOf(records) \in Times \union {Unknown}
      /\ BoundaryOf(records) = Unknown
            \/ \E i \in DOMAIN records : BoundaryOf(records) = records[i].boundary
  BY BoundaryIs DEF TypeOK
<1>2. \A i \in DOMAIN records : records[i].boundary <= now
  BY DEF RecordsOK, Consistent
<1>3. Times \subseteq Nat /\ now \in Nat /\ Unknown = 0
  BY Typed
<1> DEFINE b == BoundaryOf(records)
<1> HIDE DEF b
<1>4. b = Unknown \/ \E i \in DOMAIN records : b = records[i].boundary
  BY <1>1 DEF b
<1>5. b <= now
  BY <1>2, <1>3, <1>4
<1>6. b \in Times \union {Unknown}
  BY <1>1 DEF b
<1>7. b \in Nat
  BY <1>3, <1>6
<1> QED BY <1>5, <1>6, <1>7 DEF b

-----------------------------------------------------------------------------
(* The printer. *)

LEMMA OneMore == ASSUME NEW a \in Nat, NEW x \in Nat PROVE a * (x + 1) = a * x + a
OBVIOUS

LEMMA TickInv == ASSUME IInv, Tick PROVE IInv'
<1>1. /\ TypeOK /\ FeedOK /\ OpenOK /\ QueueOK /\ RecordsOK /\ Contiguous
      /\ LedgerAdds /\ EmptyHoldsNothing /\ BalanceExact /\ JobFact
  BY DEF IInv, Books
<1>2. /\ now < MaxTime /\ Spent + flow <= Net /\ now' = now + 1
      /\ fed' = [t \in Times |-> IF t > now THEN fed[now] + flow ELSE fed[t]]
      /\ flow' = flow /\ job' = job /\ open' = open /\ queue' = queue /\ label' = label
      /\ used' = used /\ empty' = empty /\ records' = records /\ gone' = gone
      /\ base' = base /\ doubt' = doubt
  BY DEF Tick, spool
<1>3. now + 1 \in Times
  BY <1>1, Typed, <1>2, BoundsAssumption, SMTT(30) DEF Times
<1>4. /\ \A t \in Times : fed'[t] = IF t > now THEN fed[now] + flow ELSE fed[t]
      /\ fed' \in [Times -> Nat] /\ fed'[now + 1] = fed[now] + flow
  BY <1>1, Typed, <1>2, <1>3, SMTT(30)
<1>5. TypeOK'
  BY <1>1, Typed, <1>2, <1>3, <1>4 DEF TypeOK
<1>6. FeedOK'
  <2>1. ASSUME NEW s \in Times, NEW t \in Times, s <= t PROVE fed'[s] <= fed'[t]
    <3>1. s \in Nat /\ t \in Nat /\ fed[s] \in Nat /\ fed[t] \in Nat /\ fed[now] \in Nat
          /\ flow \in Nat /\ now \in Nat
      BY <1>1, Typed
    <3>2. fed[s] <= fed[t] /\ (s <= now => fed[s] <= fed[now])
      BY <1>1, Typed, <2>1 DEF FeedOK
    <3> QED BY <1>4, <2>1, <3>1, <3>2
  <2>2. Spent' = Spent + flow
    BY <1>1, Typed, <1>2, <1>4 DEF Spent
  <2>3. open' = NoSegment => flow' = 0
    BY <1>1, Typed, <1>2 DEF FeedOK
  <2> QED BY <1>2, <2>1, <2>2, <2>3 DEF FeedOK
<1>7. ASSUME NEW rate, NEW start \in Times, NEW end \in Times,
             end <= now, Steady(rate, start, end), NEW t \in start..end
      PROVE  fed'[t] = fed'[start] + rate * (t - start)
  <2>1. t \in Times /\ t <= now /\ start <= now
    BY <1>1, Typed, <1>7, BoundsAssumption, SMTT(60) DEF Times
  <2>2. fed'[t] = fed[t] /\ fed'[start] = fed[start]
    BY <1>1, Typed, <1>4, <1>7, <2>1, SMTT(60)
  <2> QED BY <1>7, <2>2 DEF Steady
<1>8. OpenOK'
  <2> SUFFICES ASSUME open # NoSegment
               PROVE  /\ open.job = job.number /\ open.job >= 1
                      /\ job.started <= open.start /\ open.start <= now + 1
                      /\ open.even => \A t \in open.start..(now + 1) :
                            fed'[t] = fed'[open.start] + flow * (t - open.start)
    BY <1>2 DEF OpenOK, Steady
  <2>1. /\ open.job = job.number /\ open.job >= 1
        /\ job.started <= open.start /\ open.start <= now
        /\ open.even => Steady(flow, open.start, now)
    BY <1>1, Typed DEF OpenOK
  <2>2. open.start \in Times /\ now \in Times /\ now \in Nat /\ open.start \in Nat
    BY <1>1, Typed
  <2>3. ASSUME open.even, NEW t \in open.start..(now + 1)
        PROVE  fed'[t] = fed'[open.start] + flow * (t - open.start)
    <3>1. CASE t \in open.start..now
      <4>1. t \in Times /\ t <= now
        BY <2>2, <3>1, BoundsAssumption DEF Times
      <4>2. fed'[t] = fed[t] /\ fed'[open.start] = fed[open.start]
        BY <1>1, Typed, <1>4, <2>1, <2>2, <4>1
      <4> QED BY <2>1, <2>3, <3>1, <4>2 DEF Steady
    <3>2. CASE t = now + 1
      <4>1. fed[now] = fed[open.start] + flow * (now - open.start)
        BY <2>1, <2>2, <2>3 DEF Steady
      <4>2. fed'[open.start] = fed[open.start] /\ fed'[t] = fed[now] + flow
        BY <1>1, Typed, <1>4, <2>1, <2>2, <3>2
      <4>3. flow * ((now - open.start) + 1) = flow * (now - open.start) + flow
        BY <1>1, Typed, <2>1, <2>2, OneMore
      <4>4. t - open.start = (now - open.start) + 1
        BY <2>2, <3>2
      <4>5. flow * (t - open.start) = flow * (now - open.start) + flow
        BY <4>3, <4>4
      <4>6. flow * (now - open.start) \in Int /\ fed[open.start] \in Int /\ flow \in Int
        BY <1>1, Typed, <2>2
      <4> DEFINE before == flow * (now - open.start)
                 after == flow * (t - open.start)
      <4>7. before \in Int /\ after = before + flow /\ fed[now] = fed[open.start] + before
        BY <4>1, <4>5, <4>6
      <4> HIDE DEF before, after
      <4>8. fed'[t] = fed'[open.start] + after
        BY <4>2, <4>6, <4>7
      <4> QED BY <4>8 DEF after
    <3> QED BY <2>2, <3>1, <3>2
  <2> QED BY <2>1, <2>2, <2>3
<1>9. QueueOK'
  <2> SUFFICES ASSUME NEW i \in DOMAIN queue PROVE Truthful(queue[i])'
    BY <1>2 DEF QueueOK, Truthful, Steady
  <2>1. /\ Truthful(queue[i]) /\ queue[i].start \in Times /\ queue[i].end \in Times
        /\ queue[i].start \in Nat /\ queue[i].end \in Nat /\ now \in Nat
    BY <1>1, Typed, ReportTyped DEF QueueOK
  <2> DEFINE r == queue[i]
  <2>2. fed'[r.start] = fed[r.start] /\ fed'[r.end] = fed[r.end]
    BY <1>4, <2>1 DEF Truthful
  <2>3. r.even => \E rate \in Nat : \A t \in r.start..r.end :
                     fed'[t] = fed'[r.start] + rate * (t - r.start)
    <3> SUFFICES ASSUME r.even
                 PROVE  \E rate \in Nat : \A t \in r.start..r.end :
                           fed'[t] = fed'[r.start] + rate * (t - r.start)
      OBVIOUS
    <3>1. PICK rate \in Nat : Steady(rate, r.start, r.end)
      BY <2>1 DEF Truthful
    <3>2. r.end <= now
      BY <2>1 DEF Truthful
    <3>3. \A t \in r.start..r.end : fed'[t] = fed'[r.start] + rate * (t - r.start)
      BY <1>7, <2>1, <3>1, <3>2
    <3> QED BY <3>3
  <2>4. /\ r.job >= 1 /\ r.job <= job.number
        /\ r.started <= r.start /\ r.start < r.end /\ r.end <= now + 1
        /\ r.weight = fed'[r.end] - fed'[r.start]
    BY <2>1, <2>2 DEF Truthful
  <2> QED BY <1>2, <2>3, <2>4, ZenonT(40) DEF Truthful, Steady
<1>10. RecordsOK'
  <2> SUFFICES ASSUME NEW i \in DOMAIN records PROVE Consistent(records[i])'
    BY <1>2 DEF RecordsOK, Consistent
  <2>1. Consistent(records[i]) /\ records[i].boundary \in Nat
    <3>1. \A x \in Record : x.boundary \in Times \union {Unknown}
      BY DEF Record
    <3> QED BY <1>1, Typed, <3>1 DEF RecordsOK
  <2> QED BY <1>1, Typed, <1>2, <2>1 DEF Consistent
<1>11. Contiguous'
  BY <1>1, Typed, <1>2 DEF Contiguous, After, Leads, OpenReport
<1>12. LedgerAdds' /\ EmptyHoldsNothing'
  BY <1>1, Typed, <1>2 DEF LedgerAdds, EmptyHoldsNothing
<1> DEFINE b == BoundaryOf(records)
<1>13. b \in Times \union {Unknown} /\ b \in Nat /\ b <= now
  BY <1>1, BoundaryPast
<1>14. LackSum(fed', b, queue) = LackSum(fed, b, queue)
  <2>1. \A i \in DOMAIN queue : queue[i].start <= now /\ queue[i].end <= now
    <3> SUFFICES ASSUME NEW i \in DOMAIN queue
                 PROVE  queue[i].start <= now /\ queue[i].end <= now
      OBVIOUS
    <3>1. /\ queue[i].start < queue[i].end /\ queue[i].end <= now
          /\ queue[i].start \in Nat /\ queue[i].end \in Nat /\ now \in Nat
      BY <1>1, Typed, ReportTyped DEF QueueOK, Truthful
    <3> QED BY <3>1
  <2>2. \A t \in Times : t <= now => fed'[t] = fed[t]
    BY <1>1, Typed, <1>4
  <2>3. /\ queue \in Seq(Report) /\ fed \in [Times -> Nat] /\ fed' \in [Times -> Nat]
        /\ now \in Nat
    BY <1>1, Typed, <1>4
  <2> HIDE DEF b
  <2> QED BY <1>13, <2>1, <2>2, <2>3, LackSame
<1>15. LackNow(fed', b, open, now + 1) = LackNow(fed, b, open, now) + flow
  <2>1. CASE open = NoSegment
    BY <1>1, Typed, <2>1 DEF LackNow, FeedOK
  <2>2. CASE open # NoSegment
    <3> DEFINE s == open.start
               At(h, e) == IF e <= b THEN 0 ELSE IF b <= s THEN h[e] - h[s] ELSE h[e] - h[b]
    <3>1. s \in Times /\ s <= now /\ s \in Nat
      BY <1>1, Typed, <2>2 DEF OpenOK
    <3>2. UncoveredAt(fed', b, s, now + 1) = At(fed', now + 1)
      <4> HIDE DEF b, s
      <4> QED BY <1>3, <1>4, <1>13, <3>1, UncoveredIs, Zenon
    <3>3. UncoveredAt(fed, b, s, now) = At(fed, now)
      <4>1. fed \in [Times -> Nat] /\ now \in Times
        BY <1>1, Typed
      <4> HIDE DEF b, s
      <4> QED BY <1>13, <3>1, <4>1, UncoveredIs, Zenon
    <3>4. /\ fed'[s] = fed[s] /\ fed[s] \in Nat /\ fed[now] \in Nat /\ flow \in Nat
          /\ b \in Times => fed'[b] = fed[b] /\ fed[b] \in Nat
      BY <1>1, Typed, <1>4, <1>13, <3>1
    <3>5. (~ (b <= s) => b \in Times) /\ now \in Nat
      BY <1>1, Typed, <1>13, <3>1
    <3>6. now <= b => b = now
      BY <1>13, <3>5
    <3> HIDE DEF b, s
    <3>7. At(fed', now + 1) = At(fed, now) + flow
      BY <1>4, <1>13, <3>1, <3>4, <3>5, <3>6
    <3> HIDE DEF At
    <3>8. UncoveredAt(fed', b, s, now + 1) = UncoveredAt(fed, b, s, now) + flow
      BY <3>2, <3>3, <3>7
    <3> QED BY <2>2, <3>8 DEF LackNow, s
  <2> QED BY <2>1, <2>2
<1>16. Spent' = Spent + flow
  BY <1>1, Typed, <1>2, <1>4 DEF Spent
<1>17. BalanceExact'
  <2>1. ~doubt => used + (LackSum(fed, b, queue) + LackNow(fed, b, open, now)) = Spent + base
    BY <1>1, Typed, ExactIs
  <2>2. /\ LackSum(fed, b, queue) \in Int /\ LackNow(fed, b, open, now) \in Int
        /\ used \in Nat /\ Spent \in Nat /\ base \in Int /\ flow \in Nat
    BY <1>1, Typed, SumsTyped
  <2>3. ~doubt => used + (LackSum(fed', b, queue) + LackNow(fed', b, open, now + 1))
                     = Spent' + base
    BY <1>14, <1>15, <1>16, <2>1, <2>2
  <2> QED BY <1>2, <2>3, ExactIsNext
<1>18. PrintedNow(fed', open, now + 1) = PrintedNow(fed, open, now) + flow
  <2>1. CASE open = NoSegment
    BY <1>1, Typed, <2>1 DEF PrintedNow, FeedOK
  <2>2. CASE open # NoSegment
    <3>1. open.start \in Times /\ open.start <= now /\ open.start \in Nat
      BY <1>1, Typed, <2>2 DEF OpenOK
    <3>2. fed'[open.start] = fed[open.start] /\ fed[open.start] \in Nat /\ fed[now] \in Nat
          /\ flow \in Nat
      BY <1>1, Typed, <1>4, <3>1
    <3> QED BY <1>4, <2>2, <3>2 DEF PrintedNow
  <2> QED BY <2>1, <2>2
<1>19. JobFact'
  <2>1. Clean(records) => StandSum(records) + WeightSum(queue) + PrintedNow(fed, open, now)
                             = fed[now]
    BY <1>1, Typed, JobFactIs
  <2>2. /\ StandSum(records) \in Int /\ WeightSum(queue) \in Int
        /\ PrintedNow(fed, open, now) \in Int /\ fed[now] \in Nat /\ flow \in Nat
    BY <1>1, Typed, SumsTyped
  <2>3. Clean(records) => StandSum(records) + WeightSum(queue) + PrintedNow(fed', open, now + 1)
                             = fed'[now + 1]
    BY <1>4, <1>18, <2>1, <2>2
  <2> QED BY <1>2, <2>3, JobFactIsNext
<1> QED BY <1>5, <1>6, <1>8, <1>9, <1>10, <1>11, <1>12, <1>17, <1>19 DEF IInv, Books

LEMMA InvIs ==
    IInv <=> /\ TypeOK /\ FeedOK /\ OpenOK /\ QueueOK /\ RecordsOK /\ Contiguous
             /\ LedgerAdds /\ EmptyHoldsNothing /\ BalanceExact /\ JobFact
BY DEF IInv, Books

LEMMA InvIsNext ==
    IInv' <=> /\ TypeOK' /\ FeedOK' /\ OpenOK' /\ QueueOK' /\ RecordsOK' /\ Contiguous'
              /\ LedgerAdds' /\ EmptyHoldsNothing' /\ BalanceExact' /\ JobFact'
BY DEF IInv, Books

\* A segment that starts now.
LEMMA Fresh ==
    ASSUME TypeOK, RecordsOK, NEW o, o.start = now
    PROVE  /\ LackNow(fed, BoundaryOf(records), o, now) = 0
           /\ PrintedNow(fed, o, now) = 0
           /\ \A rate \in Nat : Steady(rate, now, now)
<1> DEFINE b == BoundaryOf(records)
<1>1. /\ b \in Times \union {Unknown} /\ b <= now /\ b \in Nat /\ now \in Times /\ now \in Nat
      /\ fed \in [Times -> Nat] /\ fed[now] \in Nat
  BY Typed, BoundaryPast
<1> HIDE DEF b
<1>2. UncoveredAt(fed, b, now, now) =
         IF now <= b THEN 0 ELSE IF b <= now THEN fed[now] - fed[now] ELSE fed[now] - fed[b]
  BY <1>1, UncoveredIs, Zenon
<1>3. UncoveredAt(fed, b, now, now) = 0
  BY <1>1, <1>2
<1>4. LackNow(fed, b, o, now) = 0
  BY <1>3 DEF LackNow
<1>5. PrintedNow(fed, o, now) = 0
  BY <1>1 DEF PrintedNow
<1>6. \A rate \in Nat : Steady(rate, now, now)
  BY <1>1 DEF Steady
<1> QED BY <1>4, <1>5, <1>6 DEF b

LEMMA StartJobInv == ASSUME IInv, StartJob PROVE IInv'
<1>1. /\ TypeOK /\ FeedOK /\ OpenOK /\ QueueOK /\ RecordsOK /\ Contiguous
      /\ LedgerAdds /\ EmptyHoldsNothing /\ BalanceExact /\ JobFact
  BY InvIs
<1>2. /\ open = NoSegment /\ job.number < MaxJobs /\ flow' \in Rates
      /\ job' = [number |-> job.number + 1, started |-> now]
      /\ open' = [job |-> job.number + 1, start |-> now, even |-> TRUE]
      /\ now' = now /\ fed' = fed /\ queue' = queue /\ label' = label
      /\ used' = used /\ empty' = empty /\ records' = records /\ gone' = gone
      /\ base' = base /\ doubt' = doubt
  BY DEF StartJob, spool
<1>3. /\ open' \in Segment /\ open' # NoSegment
      /\ open'.job = job.number + 1 /\ open'.start = now
      /\ job'.number = job.number + 1 /\ job'.started = now
  <2>1. now \in Times /\ now \in Nat /\ job.number \in Nat
    BY <1>1, Typed
  <2>2. open' \in Segment /\ open' \in [job : Nat, start : Nat, even : BOOLEAN]
    BY <1>2, <2>1 DEF Segment
  <2> QED BY <1>2, <2>2, NoSegmentAssumption
<1>4. /\ now \in Times /\ now \in Nat /\ job.number \in Nat /\ flow' \in Nat
      /\ DOMAIN queue = 1..Len(queue) /\ Len(queue) \in Nat
      /\ \A i \in DOMAIN queue : queue[i].job \in Nat
      /\ \A i \in DOMAIN records : records[i].job \in Nat
  <2>1. \A x \in Record : x.job \in Nat
    BY DEF Record
  <2> QED BY <1>1, <1>2, <2>1, Typed, ReportTyped, BoundsAssumption
<1>5. TypeOK'
  <2>1. job' \in [number : 0..MaxJobs, started : Times]
    BY <1>2, <1>4, BoundsAssumption
  <2> QED BY <1>1, <1>2, <1>3, <2>1 DEF TypeOK
<1>6. FeedOK'
  BY <1>1, <1>2, <1>3 DEF FeedOK, Spent
<1>7. OpenOK'
  <2>1. \A t \in now..now : fed[t] = fed[now] + flow' * (t - now)
    BY <1>1, <1>4, Typed
  <2> QED BY <1>2, <1>3, <1>4, <2>1 DEF OpenOK, Steady
<1>8. QueueOK'
  <2>1. \A i \in DOMAIN queue : queue[i].job <= job.number + 1
    BY <1>1, <1>4 DEF QueueOK, Truthful
  <2> QED BY <1>1, <1>2, <1>3, <2>1 DEF QueueOK, Truthful, Steady
<1>9. RecordsOK'
  <2>1. \A i \in DOMAIN records : records[i].job <= job.number + 1
    BY <1>1, <1>4 DEF RecordsOK, Consistent
  <2> QED BY <1>1, <1>2, <1>3, <2>1 DEF RecordsOK, Consistent
<1>10. Contiguous'
  <2> DEFINE new == [job |-> job.number + 1, started |-> now, start |-> now, end |-> now]
  <2>1. OpenReport' = new
    BY <1>2, <1>3 DEF OpenReport
  <2>2. Leads(records, new)
    <3>1. \A i \in DOMAIN records : records[i].job <= job.number
      BY <1>1 DEF RecordsOK, Consistent
    <3>2. JobReportsOf(records, job.number + 1) = {}
      BY <1>4, <3>1 DEF JobReportsOf
    <3>3. \A i \in DOMAIN records : records[i].job <= job.number + 1
      BY <1>4, <3>1
    <3> QED BY <3>2, <3>3 DEF Leads
  <2>3. queue # <<>> => After(queue[Len(queue)], new)
    <3> SUFFICES ASSUME queue # <<>> PROVE After(queue[Len(queue)], new)
      OBVIOUS
    <3>1. Len(queue) \in DOMAIN queue
      BY <1>1, <1>4, Typed
    <3>2. queue[Len(queue)].job <= job.number /\ queue[Len(queue)].job \in Nat
      BY <1>1, <1>4, <3>1 DEF QueueOK, Truthful
    <3> QED BY <1>4, <3>2 DEF After
  <2> HIDE DEF new
  <2> QED BY <1>1, <1>2, <2>1, <2>2, <2>3 DEF Contiguous
<1>11. LedgerAdds' /\ EmptyHoldsNothing'
  BY <1>1, <1>2 DEF LedgerAdds, EmptyHoldsNothing
<1>12. LackNow(fed, BoundaryOf(records), open', now) = 0 /\ PrintedNow(fed, open', now) = 0
  BY <1>1, <1>3, Fresh
<1>13. LackNow(fed, BoundaryOf(records), open, now) = 0 /\ PrintedNow(fed, open, now) = 0
  BY <1>2 DEF LackNow, PrintedNow
<1>14. BalanceExact'
  BY <1>1, <1>2, <1>12, <1>13, ExactIs, ExactIsNext DEF Spent
<1>15. JobFact'
  BY <1>1, <1>2, <1>12, <1>13, JobFactIs, JobFactIsNext
<1> QED BY <1>5, <1>6, <1>7, <1>8, <1>9, <1>10, <1>11, <1>14, <1>15, InvIsNext

LEMMA ChangeFlowInv == ASSUME IInv, ChangeFlow PROVE IInv'
<1>1. /\ TypeOK /\ FeedOK /\ OpenOK /\ QueueOK /\ RecordsOK /\ Contiguous
      /\ LedgerAdds /\ EmptyHoldsNothing /\ BalanceExact /\ JobFact
  BY InvIs
<1>2. /\ open # NoSegment /\ flow' \in Rates \union {0}
      /\ open' = [open EXCEPT !.even = open.even /\ open.start = now]
      /\ now' = now /\ fed' = fed /\ job' = job /\ queue' = queue /\ label' = label
      /\ used' = used /\ empty' = empty /\ records' = records /\ gone' = gone
      /\ base' = base /\ doubt' = doubt
  BY DEF ChangeFlow, spool
<1>3. /\ open' \in Segment /\ open' # NoSegment
      /\ open'.job = open.job /\ open'.start = open.start
      /\ open'.even => open.start = now
  <2>1. open \in Segment /\ Times \subseteq Nat
    BY <1>1, <1>2, Typed
  <2>2. open' \in Segment /\ open'.job = open.job /\ open'.start = open.start
        /\ open'.even = (open.even /\ open.start = now)
    BY <1>2, <2>1 DEF Segment
  <2>3. Segment \subseteq [job : Nat, start : Nat, even : BOOLEAN]
    BY <2>1 DEF Segment
  <2> QED BY <2>2, <2>3, NoSegmentAssumption
<1>4. /\ now \in Times /\ now \in Nat /\ flow' \in Nat /\ fed[now] \in Nat
  BY <1>1, <1>2, Typed, BoundsAssumption, SMTT(30)
<1>5. TypeOK'
  BY <1>1, <1>2, <1>3 DEF TypeOK
<1>6. FeedOK'
  BY <1>1, <1>2, <1>3 DEF FeedOK, Spent
<1>7. OpenOK'
  <2>1. \A t \in now..now : fed[t] = fed[now] + flow' * (t - now)
    BY <1>4
  <2>2. open.job = job.number /\ open.job >= 1 /\ job.started <= open.start /\ open.start <= now
    BY <1>1, <1>2 DEF OpenOK
  <2>3. open'.even => \A t \in open'.start..now : fed[t] = fed[open'.start] + flow' * (t - open'.start)
    BY <1>3, <2>1
  <2> QED BY <1>2, <1>3, <2>2, <2>3 DEF OpenOK, Steady
<1>8. QueueOK' /\ RecordsOK'
  BY <1>1, <1>2 DEF QueueOK, Truthful, Steady, RecordsOK, Consistent
<1>9. Contiguous'
  <2>1. OpenReport' = OpenReport
    BY <1>2, <1>3 DEF OpenReport
  <2> QED BY <1>1, <1>2, <2>1 DEF Contiguous
<1>10. LedgerAdds' /\ EmptyHoldsNothing'
  BY <1>1, <1>2 DEF LedgerAdds, EmptyHoldsNothing
<1>11. /\ LackNow(fed, BoundaryOf(records), open', now) = LackNow(fed, BoundaryOf(records), open, now)
       /\ PrintedNow(fed, open', now) = PrintedNow(fed, open, now)
  BY <1>2, <1>3 DEF LackNow, PrintedNow
<1>12. BalanceExact'
  BY <1>1, <1>2, <1>11, ExactIs, ExactIsNext DEF Spent
<1>13. JobFact'
  BY <1>1, <1>2, <1>11, JobFactIs, JobFactIsNext
<1> QED BY <1>5, <1>6, <1>7, <1>8, <1>9, <1>10, <1>12, <1>13, InvIsNext

LEMMA CaptureInv == ASSUME IInv, Capture PROVE IInv'
<1>1. /\ TypeOK /\ FeedOK /\ OpenOK /\ QueueOK /\ RecordsOK /\ Contiguous
      /\ LedgerAdds /\ EmptyHoldsNothing /\ BalanceExact /\ JobFact
  BY InvIs
<1>2. PICK timed \in BOOLEAN :
         queue' = Append(queue, [job |-> open.job, started |-> job.started,
                                 start |-> open.start, end |-> now,
                                 weight |-> fed[now] - fed[open.start],
                                 timed |-> timed, even |-> open.even])
  BY DEF Capture
<1>3. /\ open # NoSegment /\ fed[now] > fed[open.start]
      /\ open' = [open EXCEPT !.start = now, !.even = TRUE]
      /\ now' = now /\ fed' = fed /\ flow' = flow /\ job' = job /\ label' = label
      /\ used' = used /\ empty' = empty /\ records' = records /\ gone' = gone
      /\ base' = base /\ doubt' = doubt
  BY DEF Capture, spool
<1> DEFINE x == [job |-> open.job, started |-> job.started, start |-> open.start, end |-> now,
                 weight |-> fed[now] - fed[open.start], timed |-> timed, even |-> open.even]
           n == Len(queue)
<1>4. /\ open \in Segment /\ open.job \in Nat /\ open.start \in Times /\ open.even \in BOOLEAN
      /\ open.start \in Nat /\ now \in Times /\ now \in Nat
      /\ job.started \in Times /\ job.started \in Nat
      /\ fed[now] \in Nat /\ fed[open.start] \in Nat /\ flow \in Nat
      /\ queue \in Seq(Report) /\ n \in Nat /\ DOMAIN queue = 1..n /\ Times \subseteq Nat
      /\ fed \in [Times -> Nat]
  BY <1>1, <1>3, Typed
<1>5. /\ open.job = job.number /\ open.job >= 1
      /\ job.started <= open.start /\ open.start <= now
      /\ open.even => Steady(flow, open.start, now)
  BY <1>1, <1>3 DEF OpenOK
<1>6. open.start < now
  BY <1>3, <1>4, <1>5
<1>7. x \in Report
  BY <1>3, <1>4 DEF Report
<1>8. /\ queue' \in Seq(Report) /\ Len(queue') = n + 1 /\ DOMAIN queue' = 1..(n + 1)
      /\ queue'[n + 1] = x /\ \A i \in 1..n : queue'[i] = queue[i]
      /\ queue' # <<>>
  <2> HIDE DEF x
  <2>1. queue' = Append(queue, x)
    BY <1>2 DEF x
  <2> QED BY <1>4, <1>7, <2>1
<1>9. /\ open' \in Segment /\ open' # NoSegment
      /\ open'.job = open.job /\ open'.start = now
  <2>1. open' \in Segment /\ open'.job = open.job /\ open'.start = now
    BY <1>3, <1>4 DEF Segment
  <2>2. Segment \subseteq [job : Nat, start : Nat, even : BOOLEAN]
    BY <1>4 DEF Segment
  <2> QED BY <2>1, <2>2, NoSegmentAssumption
<1>10. TypeOK'
  BY <1>1, <1>3, <1>8, <1>9 DEF TypeOK
<1>11. FeedOK'
  BY <1>1, <1>3, <1>9 DEF FeedOK, Spent
<1>12. OpenOK'
  <2>1. \A t \in now..now : fed[t] = fed[now] + flow * (t - now)
    BY <1>4
  <2>2. job.started <= now
    BY <1>4, <1>5
  <2> QED BY <1>3, <1>4, <1>5, <1>9, <2>1, <2>2 DEF OpenOK, Steady
<1>13. QueueOK'
  <2>1. Truthful(x)
    BY <1>4, <1>5, <1>6 DEF Truthful
  <2>2. \A i \in 1..n : Truthful(queue[i])
    BY <1>1, <1>4 DEF QueueOK
  <2>3. \A i \in DOMAIN queue' : Truthful(queue'[i])
    <3> HIDE DEF x
    <3> QED BY <1>4, <1>8, <2>1, <2>2
  <2> QED BY <1>3, <2>3 DEF QueueOK, Truthful, Steady
<1>14. RecordsOK'
  BY <1>1, <1>3 DEF RecordsOK, Consistent
<1>15. Contiguous'
  <2>1. /\ OpenReport' = [job |-> open.job, started |-> job.started, start |-> now, end |-> now]
        /\ x.job = OpenReport.job /\ x.started = OpenReport.started
        /\ x.start = OpenReport.start
    BY <1>3, <1>9 DEF OpenReport
  <2>2. After(x, OpenReport')
    BY <2>1 DEF After
  <2>3. queue = <<>> => Leads(records, x)
    BY <1>1, <1>3, <2>1 DEF Contiguous, Leads
  <2>4. queue # <<>> => After(queue[n], x)
    <3> SUFFICES ASSUME queue # <<>> PROVE After(queue[n], x)
      OBVIOUS
    <3>1. After(queue[n], OpenReport)
      BY <1>1, <1>3 DEF Contiguous
    <3> HIDE DEF x
    <3> QED BY <2>1, <3>1 DEF After
  <2>5. /\ \A i \in 1..n : i # n => After(queue[i], queue[i + 1])
        /\ queue # <<>> => Leads(records, queue[1])
    BY <1>1, <1>4 DEF Contiguous
  <2>6. (queue = <<>>) <=> n = 0
    BY <1>4
  <2> HIDE DEF x, n
  <2>7. ASSUME NEW i \in 1..n PROVE After(queue'[i], queue'[i + 1])
    <3>1. CASE i = n
      BY <1>4, <1>8, <2>4, <2>6, <3>1
    <3>2. CASE i # n
      <4>1. i + 1 \in 1..n
        BY <1>4, <3>2
      <4> QED BY <1>8, <2>5, <3>2, <4>1
    <3> QED BY <3>1, <3>2
  <2>8. Leads(records, queue'[1])
    <3>1. CASE n = 0
      BY <1>8, <2>3, <2>6, <3>1
    <3>2. CASE n # 0
      <4>1. 1 \in 1..n
        BY <1>4, <3>2
      <4> QED BY <1>8, <2>5, <2>6, <3>2, <4>1
    <3> QED BY <3>1, <3>2
  <2>9. \A i \in DOMAIN queue' : i # Len(queue') => i \in 1..n
    BY <1>4, <1>8
  <2>10. queue'[Len(queue')] = x
    BY <1>8
  <2> QED BY <1>3, <1>8, <2>2, <2>7, <2>8, <2>9, <2>10 DEF Contiguous, n
<1>16. LedgerAdds' /\ EmptyHoldsNothing'
  BY <1>1, <1>3 DEF LedgerAdds, EmptyHoldsNothing
<1> DEFINE b == BoundaryOf(records)
<1>17. /\ LackSum(fed, b, queue') = LackSum(fed, b, queue) + UncoveredAt(fed, b, open.start, now)
       /\ WeightSum(queue') = WeightSum(queue) + (fed[now] - fed[open.start])
  <2>1. b \in Times \union {Unknown}
    BY <1>1, Typed
  <2>2. queue' = Append(queue, x) /\ x.start = open.start /\ x.end = now
        /\ x.weight = fed[now] - fed[open.start]
    BY <1>2
  <2> HIDE DEF x, b
  <2>3. /\ LackSum(fed, b, queue') = LackSum(fed, b, queue) + UncoveredAt(fed, b, x.start, x.end)
        /\ WeightSum(queue') = WeightSum(queue) + x.weight
    BY <1>4, <1>7, <2>1, <2>2, QueueLonger
  <2> QED BY <2>2, <2>3
<1>18. /\ LackNow(fed, b, open', now) = 0 /\ PrintedNow(fed, open', now) = 0
       /\ LackNow(fed, b, open, now) = UncoveredAt(fed, b, open.start, now)
       /\ PrintedNow(fed, open, now) = fed[now] - fed[open.start]
  <2>1. LackNow(fed, b, open', now) = 0 /\ PrintedNow(fed, open', now) = 0
    BY <1>1, <1>9, Fresh
  <2> QED BY <1>3, <2>1 DEF LackNow, PrintedNow
<1>19. /\ LackSum(fed, b, queue) \in Int /\ LackNow(fed, b, open, now) \in Int
       /\ WeightSum(queue) \in Int /\ PrintedNow(fed, open, now) \in Int
       /\ StandSum(records) \in Int
  BY <1>1, SumsTyped
<1>20. /\ LackSum(fed, b, queue') + LackNow(fed, b, open', now)
             = LackSum(fed, b, queue) + LackNow(fed, b, open, now)
       /\ StandSum(records) + WeightSum(queue') + PrintedNow(fed, open', now)
             = StandSum(records) + WeightSum(queue) + PrintedNow(fed, open, now)
  <2> HIDE DEF b
  <2> QED BY <1>17, <1>18, <1>19
<1>21. BalanceExact'
  BY <1>1, <1>3, <1>20, ExactIs, ExactIsNext DEF Spent
<1>22. JobFact'
  BY <1>1, <1>3, <1>20, JobFactIs, JobFactIsNext
<1> QED BY <1>10, <1>11, <1>12, <1>13, <1>14, <1>15, <1>16, <1>21, <1>22, InvIsNext

LEMMA EndJobInv == ASSUME IInv, EndJob PROVE IInv'
<1>1. /\ TypeOK /\ FeedOK /\ OpenOK /\ QueueOK /\ RecordsOK /\ Contiguous
      /\ LedgerAdds /\ EmptyHoldsNothing /\ BalanceExact /\ JobFact
  BY InvIs
<1>2. /\ open # NoSegment /\ fed[now] = fed[open.start] /\ open' = NoSegment /\ flow' = 0
      /\ now' = now /\ fed' = fed /\ job' = job /\ queue' = queue /\ label' = label
      /\ used' = used /\ empty' = empty /\ records' = records /\ gone' = gone
      /\ base' = base /\ doubt' = doubt
  BY DEF EndJob, spool
<1>3. /\ TypeOK' /\ FeedOK' /\ OpenOK' /\ QueueOK' /\ RecordsOK' /\ Contiguous'
      /\ LedgerAdds' /\ EmptyHoldsNothing'
  <2>1. TypeOK'
    BY <1>1, <1>2 DEF TypeOK
  <2>2. FeedOK' /\ OpenOK'
    BY <1>1, <1>2 DEF FeedOK, OpenOK, Spent
  <2>3. QueueOK' /\ RecordsOK'
    BY <1>1, <1>2 DEF QueueOK, Truthful, Steady, RecordsOK, Consistent
  <2>4. Contiguous'
    BY <1>1, <1>2 DEF Contiguous
  <2>5. LedgerAdds' /\ EmptyHoldsNothing'
    BY <1>1, <1>2 DEF LedgerAdds, EmptyHoldsNothing
  <2> QED BY <2>1, <2>2, <2>3, <2>4, <2>5
<1> DEFINE b == BoundaryOf(records)
<1>4. LackNow(fed, b, open, now) = 0
  <2> DEFINE s == open.start
  <2>1. /\ b \in Times \union {Unknown} /\ b <= now /\ b \in Nat /\ Unknown = 0
        /\ now \in Times /\ now \in Nat /\ fed \in [Times -> Nat] /\ fed[now] \in Nat
        /\ s \in Times /\ s \in Nat /\ s <= now
    BY <1>1, <1>2, Typed, BoundaryPast DEF OpenOK
  <2>2. \A m, k \in Times : m <= k => fed[m] <= fed[k]
    BY <1>1 DEF FeedOK
  <2>3. fed[now] = fed[s]
    BY <1>2
  <2> HIDE DEF b, s
  <2>4. UncoveredAt(fed, b, s, now) =
           IF now <= b THEN 0 ELSE IF b <= s THEN fed[now] - fed[s] ELSE fed[now] - fed[b]
    BY <2>1, UncoveredIs, Zenon
  <2>5. ~ (b <= s) => fed[b] = fed[now]
    <3> SUFFICES ASSUME ~ (b <= s) PROVE fed[b] = fed[now]
      OBVIOUS
    <3>1. b \in Times /\ s <= b
      BY <2>1
    <3>2. fed[s] <= fed[b] /\ fed[b] <= fed[now] /\ fed[b] \in Nat
      BY <2>1, <2>2, <3>1
    <3> QED BY <2>1, <2>3, <3>2
  <2>6. UncoveredAt(fed, b, s, now) = 0
    BY <2>1, <2>3, <2>4, <2>5
  <2> QED BY <2>6 DEF LackNow, s
<1>5. PrintedNow(fed, open, now) = 0
  BY <1>1, <1>2, Typed DEF PrintedNow
<1>6. LackNow(fed, b, open', now) = 0 /\ PrintedNow(fed, open', now) = 0
  BY <1>2 DEF LackNow, PrintedNow
<1>7. BalanceExact'
  BY <1>1, <1>2, <1>4, <1>6, ExactIs, ExactIsNext DEF Spent
<1>8. JobFact'
  BY <1>1, <1>2, <1>5, <1>6, JobFactIs, JobFactIsNext
<1> QED BY <1>3, <1>7, <1>8, InvIsNext

-----------------------------------------------------------------------------
(* The history of the spool. *)

\* A weighing leaves what a record of a job stands for.
LEMMA SettlingKeeps ==
    ASSUME TypeOK, NEW x \in Record, NEW r \in Record, Consistent(x)
    PROVE  /\ Settling(x, r) \in Record /\ Consistent(Settling(x, r))
           /\ Stands(Settling(x, r)) = Stands(x) /\ Stands(x) \in Int
           /\ Capped(Settling(x, r)) = Capped(x)
           /\ Settling(x, r).reverted = x.reverted /\ Settling(x, r).reverts = x.reverts
<1>1. Stands(x) \in Int
  BY StandsTyped
<1> DEFINE y == [x EXCEPT !.accounting = "reconciled_by_measurement"]
<1>2. CASE x.accounting = "needs_reconciliation"
  <2>1. /\ y \in Record /\ y.type = x.type /\ y.delta = x.delta /\ y.reported = x.reported
        /\ y.boundary = x.boundary /\ y.job = x.job /\ y.reverts = x.reverts
        /\ y.reverted = x.reverted /\ y.accounting = "reconciled_by_measurement"
    BY DEF Record, Accountings
  <2>2. x.type = "printer_report" /\ x.delta = 0
    BY <1>2 DEF Consistent
  <2>3. x.reported \in Nat
    BY DEF Record
  <2> HIDE DEF y
  <2>4. Consistent(y)
    BY <2>1, <2>2 DEF Consistent
  <2>5. Stands(y) = Stands(x)
    BY <1>2, <2>1, <2>2, <2>3 DEF Stands, Confirmed, Unreconciled
  <2>6. Capped(y) = Capped(x)
    BY <1>2, <2>1 DEF Capped
  <2> QED BY <1>1, <2>1, <2>4, <2>5, <2>6 DEF Settling, y
<1>3. CASE x.accounting # "needs_reconciliation"
  BY <1>1, <1>3 DEF Settling
<1> QED BY <1>2, <1>3

LEMMA RecordedStands ==
    ASSUME TypeOK, NEW q \in Seq(Record), NEW r \in Record,
           \A i \in DOMAIN q : Consistent(q[i])
    PROVE  /\ StandSum(Recorded(q, r)) = StandSum(q) + Stands(r)
           /\ Clean(Recorded(q, r)) => Clean(q) /\ ~Capped(r)
           /\ Consistent(r) => \A i \in DOMAIN Recorded(q, r) : Consistent(Recorded(q, r)[i])
<1> DEFINE p == Recorded(q, r)
           n == Len(q)
<1>1. /\ p \in Seq(Record) /\ Len(p) = n + 1 /\ DOMAIN p = 1..(n + 1) /\ p[n + 1] = r
      /\ \A i \in 1..n : p[i] = Settling(q[i], r)
      /\ n \in Nat /\ DOMAIN q = 1..n /\ \A i \in 1..n : q[i] \in Record
  <2>1. n \in Nat /\ DOMAIN q = 1..n /\ \A i \in 1..n : q[i] \in Record
    OBVIOUS
  <2>2. /\ p \in Seq(Record) /\ Len(p) = n + 1 /\ p[n + 1] = r
        /\ \A i \in 1..n : p[i] = Settling(q[i], r)
    BY RecordedIs
  <2> HIDE DEF p, n
  <2>3. DOMAIN p = 1..(n + 1)
    BY <2>2
  <2> QED BY <2>1, <2>2, <2>3
<1> HIDE DEF p, n
<1>2. \A i \in 1..n : /\ Stands(p[i]) = Stands(q[i]) /\ Stands(q[i]) \in Int
                      /\ Capped(p[i]) = Capped(q[i]) /\ Consistent(p[i])
                      /\ p[i].reverted = q[i].reverted /\ p[i].reverts = q[i].reverts
  BY <1>1, SettlingKeeps
<1>3. Stands(r) \in Int
  BY StandsTyped
<1>4. /\ \A i \in 1..n : Standings(q)[i] \in Int /\ Standings(p)[i] = Standings(q)[i]
      /\ Standings(p)[n + 1] = Stands(r)
  BY <1>1, <1>2 DEF Standings
<1>5. SumFunctionOnSet(Standings(p), 1..(n + 1))
         = SumFunctionOnSet(Standings(q), 1..n) + Standings(p)[n + 1]
  BY <1>1, <1>3, <1>4, SumLonger
<1>6. StandSum(p) = StandSum(q) + Stands(r)
  BY <1>1, <1>4, <1>5 DEF StandSum
<1>7. Clean(p) => Clean(q) /\ ~Capped(r)
  <2>1. n + 1 \in DOMAIN p /\ \A i \in 1..n : i \in DOMAIN p
    BY <1>1
  <2> QED BY <1>1, <1>2, <2>1 DEF Clean
<1>8. Consistent(r) => \A i \in DOMAIN p : Consistent(p[i])
  <2>1. DOMAIN p = 1..n \union {n + 1}
    BY <1>1
  <2> QED BY <1>1, <1>2, <2>1
<1> QED BY <1>6, <1>7, <1>8 DEF p

\* What is still to be charged follows what a longer history knows of as before.
LEMMA LeadsStill ==
    ASSUME NEW q \in Seq(Record), NEW p, NEW r \in Record, Grows(q, p, r),
           r.type # "printer_report", NEW b, Leads(q, b), b.job \in Nat,
           r.job = 0 \/ \E i \in DOMAIN q : r.job = q[i].job
    PROVE  Leads(p, b)
<1>1. JobReportsOf(p, b.job) = JobReportsOf(q, b.job)
  BY GrownReports
<1>2. /\ DOMAIN p = DOMAIN q \union {Len(q) + 1} /\ p[Len(q) + 1] = r
      /\ \A i \in DOMAIN q : p[i].job = q[i].job /\ p[i].observed = q[i].observed
  BY DEF Grows, Same
<1>3. r.job <= b.job
  BY DEF Leads
<1>4. \A i \in DOMAIN p : p[i].job <= b.job
  BY <1>2, <1>3 DEF Leads
<1>5. JobReportsOf(q, b.job) # {} => Max(JobReportsOf(q, b.job)) \in DOMAIN q
  <2>1. JobReportsOf(q, b.job) \subseteq DOMAIN q
    BY DEF JobReportsOf
  <2> QED BY <2>1, LastReport
<1> QED BY <1>1, <1>2, <1>4, <1>5 DEF Leads

\* A record that is not of a report leaves the order of the segments.
LEMMA ContiguousStill ==
    ASSUME IInv, NEW r \in Record, Grows(records, records', r), r.type # "printer_report",
           r.job = 0 \/ \E i \in DOMAIN records : r.job = records[i].job,
           UNCHANGED <<now, job, open, queue>>
    PROVE  Contiguous'
<1>1. TypeOK /\ Contiguous
  BY InvIs
<1>2. /\ records \in Seq(Record) /\ \A i \in DOMAIN queue : queue[i] \in Report
      /\ queue # <<>> => 1 \in DOMAIN queue
      /\ open # NoSegment => open.job \in Nat
  BY <1>1, Typed
<1>3. queue # <<>> => Leads(records', queue[1])
  <2> SUFFICES ASSUME queue # <<>> PROVE Leads(records', queue[1])
    OBVIOUS
  <2>1. Leads(records, queue[1]) /\ queue[1].job \in Nat
    BY <1>1, <1>2, ReportTyped DEF Contiguous
  <2> QED BY <1>2, <2>1, LeadsStill
<1>4. open # NoSegment /\ queue = <<>> => Leads(records', OpenReport)
  <2> SUFFICES ASSUME open # NoSegment, queue = <<>> PROVE Leads(records', OpenReport)
    OBVIOUS
  <2>1. Leads(records, OpenReport) /\ OpenReport.job \in Nat
    BY <1>1, <1>2 DEF Contiguous, OpenReport
  <2> QED BY <1>2, <2>1, LeadsStill
<1>5. OpenReport' = OpenReport
  BY DEF OpenReport
<1> QED BY <1>1, <1>3, <1>4, <1>5 DEF Contiguous

\* After a weighing nothing is outstanding.
LEMMA Weighed ==
    ASSUME IInv, NEW r \in Record, Grows(records, records', r), r.boundary = now
    PROVE  /\ LackSum(fed, BoundaryOf(records'), queue) = 0
           /\ LackNow(fed, BoundaryOf(records'), open, now) = 0
<1>1. TypeOK /\ QueueOK /\ RecordsOK
  BY InvIs
<1>2. BoundaryOf(records') = now
  <2>1. \A i \in DOMAIN records : records[i].boundary <= r.boundary
    BY <1>1 DEF RecordsOK, Consistent
  <2>2. records \in Seq(Record)
    BY <1>1, Typed
  <2> QED BY <2>1, <2>2, GrownBoundary
<1>3. \A i \in DOMAIN queue : queue[i].end <= now
  BY <1>1 DEF QueueOK, Truthful
<1>4. LackSum(fed, now, queue) = 0
  BY <1>1, <1>3, Typed, LackNothing
<1>5. LackNow(fed, now, open, now) = 0
  BY <1>1, Typed DEF LackNow, UncoveredAt
<1> QED BY <1>2, <1>4, <1>5

-----------------------------------------------------------------------------
(* The owner. *)

\* An operation that leaves the printer and its reports alone, and whose record is of no
\* job, keeps the invariant if it keeps the balance.
LEMMA OwnerStep ==
    ASSUME IInv, NEW r \in Record, r.type # "printer_report", r.accounting = "none",
           r.boundary <= now, r.job = 0, r.reverts = 0,
           records' = Recorded(records, r),
           UNCHANGED <<now, fed, flow, job, open, queue>>,
           used' = used + r.delta, used' \in Nat, used' <= label',
           label' \in Labels \union {Label},
           empty' \in BOOLEAN, empty' => used' = label',
           gone' \in Nat, fed[now] + gone' <= Net, base' \in Int, doubt' \in BOOLEAN,
           BalanceExact'
    PROVE  IInv'
<1>1. /\ TypeOK /\ FeedOK /\ OpenOK /\ QueueOK /\ RecordsOK
      /\ LedgerAdds /\ JobFact
  BY InvIs
<1>2. Grows(records, records', r) /\ records \in Seq(Record)
  BY <1>1, Typed, RecordedGrows
<1>3. TypeOK'
  <2>1. records' \in Seq(Record)
    BY <1>2 DEF Grows
  <2> QED BY <1>1, <2>1 DEF TypeOK
<1>4. FeedOK' /\ OpenOK' /\ QueueOK'
  BY <1>1 DEF FeedOK, Spent, OpenOK, QueueOK, Truthful, Steady
<1>5. job.number \in Nat /\ \A i \in DOMAIN records : Consistent(records[i])
  BY <1>1, Typed DEF RecordsOK
<1>6. Consistent(r)
  BY <1>5 DEF Consistent
<1>7. /\ StandSum(records') = StandSum(records) + Stands(r)
      /\ Clean(records') => Clean(records)
      /\ \A i \in DOMAIN records' : Consistent(records'[i])
  BY <1>1, <1>2, <1>5, <1>6, RecordedStands
<1>8. RecordsOK'
  BY <1>7 DEF RecordsOK, Consistent
<1>9. Contiguous'
  BY <1>2, ContiguousStill
<1>10. LedgerAdds'
  <2>1. DeltaSum(records') = DeltaSum(records) + r.delta
    BY <1>2, GrownSum
  <2> QED BY <1>1, <2>1, LedgerIs, LedgerIsNext
<1>11. EmptyHoldsNothing'
  BY DEF EmptyHoldsNothing
<1>12. JobFact'
  <2>1. Stands(r) = 0 /\ StandSum(records) \in Int
    BY <1>1, SumsTyped DEF Stands
  <2>2. StandSum(records') = StandSum(records)
    BY <1>7, <2>1
  <2> QED BY <1>1, <1>7, <2>2, JobFactIs, JobFactIsNext
<1> QED BY <1>3, <1>4, <1>8, <1>9, <1>10, <1>11, <1>12, InvIsNext

LEMMA MeasureInv == ASSUME IInv, Measure PROVE IInv'
<1>1. TypeOK /\ FeedOK
  BY InvIs
<1> DEFINE remaining == Net - Spent
           r == Adjustment("reconcile_adjust", used' - used, now)
           held == Min({label, Max({label - remaining, 0})})
<1>2. /\ remaining <= label /\ used' = held
      /\ empty' \in BOOLEAN /\ (empty' => held >= label) /\ label' = label
      /\ records' = Recorded(records, r) /\ base' = used' - Spent /\ doubt' = FALSE
      /\ now' = now /\ fed' = fed /\ flow' = flow /\ job' = job /\ open' = open
      /\ queue' = queue /\ gone' = gone
  <2>1. /\ remaining <= label /\ used' = held
        /\ empty' = (held >= label) /\ label' = label
        /\ records' = Recorded(records, r) /\ base' = used' - Spent /\ doubt' = FALSE
        /\ now' = now /\ fed' = fed /\ flow' = flow /\ job' = job /\ open' = open
        /\ queue' = queue /\ gone' = gone
    BY DEF Measure, SetUsed, printer
  <2>2. empty' \in BOOLEAN /\ (empty' => held >= label)
    <3> DEFINE full == held >= label
    <3>1. empty' = full /\ full \in BOOLEAN
      BY <2>1
    <3> HIDE DEF full
    <3>2. empty' \in BOOLEAN /\ (empty' => full)
      BY <3>1
    <3> QED BY <3>2 DEF full
  <2> QED BY <2>1, <2>2
<1>3. /\ label \in Nat /\ used \in Nat /\ Spent \in Nat /\ Net \in Nat /\ now \in Nat
      /\ now \in Times /\ label \in Labels \union {Label} /\ gone \in Nat
      /\ Spent = fed[now] + gone /\ Spent <= Net /\ fed[now] \in Nat
  BY <1>1, Typed, BoundsAssumption DEF TypeOK, FeedOK, Spent
<1>4. used' \in Nat /\ used' <= label /\ (empty' => used' = label)
  <2>1. remaining \in Nat /\ remaining <= label
    BY <1>2, <1>3
  <2>2. used' = held /\ (empty' => held >= label)
    BY <1>2
  <2> HIDE DEF remaining
  <2>3. Max({label - remaining, 0}) = label - remaining /\ label - remaining \in Nat
    <3>1. label - remaining \in Nat /\ 0 \in Nat /\ label - remaining >= 0
      BY <1>3, <2>1
    <3> QED BY <3>1, MaxIs
  <2>4. held = label - remaining
    <3> DEFINE over == label - remaining
    <3>1. over \in Nat /\ over <= label
      BY <1>3, <2>1
    <3>2. held = Min({label, over})
      BY <2>3, Zenon
    <3> HIDE DEF over, held
    <3>3. held = over
      BY <1>3, <3>1, <3>2, MinOfTwo
    <3> QED BY <3>3 DEF over
  <2> HIDE DEF held
  <2> QED BY <1>3, <2>1, <2>2, <2>4
<1>5. /\ r \in Record /\ r.type = "reconcile_adjust" /\ r.delta = used' - used
      /\ r.boundary = now /\ r.accounting = "none" /\ r.job = 0 /\ r.reverts = 0
  <2>1. /\ used' - used \in Int /\ now \in Times \union {Unknown}
    BY <1>3, <1>4
  <2> QED BY <2>1 DEF Adjustment, Record, Accountings
<1> HIDE DEF r, held, remaining
<1>6. /\ LackSum(fed, BoundaryOf(records'), queue) = 0
      /\ LackNow(fed, BoundaryOf(records'), open, now) = 0
  <2>1. Grows(records, records', r)
    BY <1>1, <1>2, <1>5, Typed, RecordedGrows
  <2> QED BY <1>5, <2>1, Weighed
<1>7. Spent' = Spent
  BY <1>2 DEF Spent
<1>8. used' + (0 + 0) = Spent + base'
  BY <1>2, <1>3, <1>4
<1>9. BalanceExact'
  BY <1>2, <1>6, <1>7, <1>8, ExactIsNext
<1>10. base' \in Int /\ used' = used + r.delta /\ empty' \in BOOLEAN
  BY <1>2, <1>3, <1>4, <1>5
<1>11. /\ r.type # "printer_report" /\ r.boundary <= now /\ fed[now] + gone' <= Net
       /\ used' <= label' /\ label' \in Labels \union {Label} /\ doubt' \in BOOLEAN
       /\ gone' \in Nat /\ (empty' => used' = label')
  <2>1. doubt' \in BOOLEAN
    BY <1>2, Zenon
  <2>2. fed[now] + gone' <= Net
    BY <1>2, <1>3, <1>4, BoundsAssumption
  <2>3. r.type # "printer_report"
    BY <1>5
  <2> QED BY <1>2, <1>3, <1>4, <1>5, <2>1, <2>2, <2>3
<1> QED BY <1>2, <1>4, <1>5, <1>9, <1>10, <1>11, OwnerStep

LEMMA StateUsedInv == ASSUME IInv, StateUsed PROVE IInv'
<1>1. TypeOK /\ FeedOK
  BY InvIs
<1>2. PICK weight \in Statements :
         /\ weight <= label /\ used' = weight /\ label' = label
         /\ empty' = (weight >= label)
         /\ records' = Recorded(records, Adjustment("manual_adjust", weight - used, now))
  BY DEF StateUsed, SetUsed
<1> DEFINE r == Adjustment("manual_adjust", weight - used, now)
<1>3. /\ base' = used' - Spent /\ doubt' = FALSE
      /\ now' = now /\ fed' = fed /\ flow' = flow /\ job' = job /\ open' = open
      /\ queue' = queue /\ gone' = gone
  BY DEF StateUsed, printer
<1>4. /\ label \in Nat /\ used \in Nat /\ Spent \in Nat /\ now \in Nat /\ weight \in Nat
      /\ now \in Times /\ label \in Labels \union {Label} /\ gone \in Nat
      /\ Spent = fed[now] + gone /\ Spent <= Net /\ fed[now] \in Nat
  BY <1>1, Typed, BoundsAssumption DEF TypeOK, FeedOK, Spent
<1>5. /\ r \in Record /\ r.type = "manual_adjust" /\ r.delta = weight - used
      /\ r.boundary = now /\ r.accounting = "none" /\ r.job = 0 /\ r.reverts = 0
  <2>1. /\ weight - used \in Int /\ now \in Times \union {Unknown}
    BY <1>4
  <2> QED BY <2>1 DEF Adjustment, Record, Accountings
<1>6. records' = Recorded(records, r)
  BY <1>2
<1> HIDE DEF r
<1>7. /\ LackSum(fed, BoundaryOf(records'), queue) = 0
      /\ LackNow(fed, BoundaryOf(records'), open, now) = 0
  <2>1. Grows(records, records', r)
    BY <1>1, <1>5, <1>6, Typed, RecordedGrows
  <2> QED BY <1>5, <2>1, Weighed
<1>8. Spent' = Spent /\ used' + (0 + 0) = Spent + base' /\ base' \in Int
  BY <1>2, <1>3, <1>4 DEF Spent
<1>9. BalanceExact'
  BY <1>3, <1>7, <1>8, ExactIsNext
<1>10. empty' \in BOOLEAN /\ (empty' => used' = label')
  <2>1. empty' = (weight >= label)
    BY <1>2
  <2>2. weight <= label /\ used' = weight /\ label' = label
    BY <1>2
  <2> DEFINE full == weight >= label
  <2>3. empty' = full /\ full \in BOOLEAN
    BY <2>1
  <2> HIDE DEF full
  <2>4. empty' \in BOOLEAN /\ (empty' => full)
    BY <2>3
  <2> QED BY <1>4, <2>2, <2>4 DEF full
<1>11. /\ used' = used + r.delta /\ used' \in Nat
       /\ r.type # "printer_report" /\ r.boundary <= now /\ fed[now] + gone' <= Net
       /\ used' <= label' /\ label' \in Labels \union {Label} /\ doubt' \in BOOLEAN
       /\ gone' \in Nat
  <2>1. doubt' \in BOOLEAN
    BY <1>3, Zenon
  <2>2. fed[now] + gone' <= Net
    BY <1>2, <1>3, <1>4, BoundsAssumption
  <2>3. r.type # "printer_report"
    BY <1>5
  <2> QED BY <1>2, <1>3, <1>4, <1>5, <2>1, <2>2, <2>3
<1> QED BY <1>3, <1>5, <1>6, <1>8, <1>9, <1>10, <1>11, OwnerStep

LEMMA EditLabelInv == ASSUME IInv, EditLabel PROVE IInv'
<1>1. TypeOK /\ FeedOK /\ LedgerAdds /\ EmptyHoldsNothing /\ BalanceExact
  BY InvIs
<1>2. PICK weight \in Labels \ {label} :
         /\ used <= weight /\ label' = weight /\ used' = IF empty THEN weight ELSE used
         /\ empty' = (empty \/ used' >= label')
         /\ records' = Recorded(records, Adjustment("manual_adjust", used' - used, Unknown))
         /\ doubt' = (doubt \/ used' # used)
  BY DEF EditLabel
<1> DEFINE r == Adjustment("manual_adjust", used' - used, Unknown)
<1>3. /\ base' = base
      /\ now' = now /\ fed' = fed /\ flow' = flow /\ job' = job /\ open' = open
      /\ queue' = queue /\ gone' = gone
  BY DEF EditLabel, printer
<1>4. /\ label \in Nat /\ used \in Nat /\ Spent \in Nat /\ now \in Nat /\ weight \in Nat
      /\ base \in Int /\ gone \in Nat /\ Spent = fed[now] + gone /\ Spent <= Net
      /\ empty \in BOOLEAN /\ doubt \in BOOLEAN /\ Unknown = 0
  BY <1>1, Typed, BoundsAssumption DEF TypeOK, FeedOK, Spent
<1>5. used' \in Nat
  BY <1>2, <1>4
<1>6. /\ r \in Record /\ r.type = "manual_adjust" /\ r.delta = used' - used
      /\ r.boundary = Unknown /\ r.accounting = "none" /\ r.job = 0 /\ r.reverts = 0
  <2>1. /\ used' - used \in Int /\ Unknown \in Times \union {Unknown}
    BY <1>4, <1>5
  <2> QED BY <2>1 DEF Adjustment, Record, Accountings
<1>7. records' = Recorded(records, r)
  BY <1>2
<1> HIDE DEF r
<1>8. BoundaryOf(records') = BoundaryOf(records)
  <2>1. Grows(records, records', r)
    BY <1>1, <1>6, <1>7, Typed, RecordedGrows
  <2> QED BY <1>1, <1>6, <2>1, Typed, GrownBoundary
<1>9. BalanceExact'
  BY <1>1, <1>2, <1>3, <1>8, ExactIs, ExactIsNext DEF Spent
<1>10. /\ used' = used + r.delta /\ empty' \in BOOLEAN
       /\ r.type # "printer_report" /\ r.boundary <= now /\ fed[now] + gone' <= Net
       /\ used' <= label' /\ label' \in Labels \union {Label} /\ doubt' \in BOOLEAN
       /\ gone' \in Nat /\ base' \in Int
  BY <1>2, <1>3, <1>4, <1>5, <1>6
<1>11. empty' => used' = label'
  BY <1>2, <1>4, <1>5, <1>10
<1> QED BY <1>3, <1>5, <1>6, <1>7, <1>9, <1>10, <1>11, OwnerStep

LEMMA AvailableIs ==
    ASSUME TypeOK, LedgerAdds
    PROVE  Available \in Nat /\ Available = label - used
BY Typed DEF Available, LedgerAdds

LEMMA WriteOffInv == ASSUME IInv, WriteOff PROVE IInv'
<1>1. TypeOK /\ FeedOK /\ LedgerAdds /\ EmptyHoldsNothing /\ BalanceExact
  BY InvIs
<1> DEFINE taken == Min({1, Available})
           r == Adjustment("manual_adjust", used' - used, Unknown)
<1>2. /\ used' = used + taken /\ empty' = (empty \/ used' >= label) /\ label' = label
      /\ records' = Recorded(records, r)
      /\ Spent < Net /\ gone' = gone + 1 /\ doubt' = (doubt \/ Available = 0)
      /\ base' = base
      /\ now' = now /\ fed' = fed /\ flow' = flow /\ job' = job /\ open' = open
      /\ queue' = queue
  BY DEF WriteOff, Deduct, printer
<1>3. /\ label \in Nat /\ used \in Nat /\ Spent \in Nat /\ now \in Nat /\ Net \in Nat
      /\ base \in Int /\ gone \in Nat /\ Spent = fed[now] + gone /\ fed[now] \in Nat
      /\ empty \in BOOLEAN /\ doubt \in BOOLEAN /\ Unknown = 0
      /\ label \in Labels \union {Label} /\ used <= label
  BY <1>1, Typed, BoundsAssumption DEF TypeOK, FeedOK, Spent, LedgerAdds
<1>4. Available \in Nat /\ Available = label - used
  BY <1>1, AvailableIs
<1>5. taken \in Nat /\ taken <= Available /\ (Available # 0 => taken = 1)
  BY <1>4, MinOfTwo
<1> HIDE DEF taken
<1>6. used' \in Nat /\ used' <= label
  BY <1>2, <1>3, <1>4, <1>5
<1>7. /\ r \in Record /\ r.type = "manual_adjust" /\ r.delta = used' - used
      /\ r.boundary = Unknown /\ r.accounting = "none" /\ r.job = 0 /\ r.reverts = 0
  <2>1. /\ used' - used \in Int /\ Unknown \in Times \union {Unknown}
    BY <1>3, <1>6
  <2> QED BY <2>1 DEF Adjustment, Record, Accountings
<1> HIDE DEF r
<1>8. BoundaryOf(records') = BoundaryOf(records)
  <2>1. Grows(records, records', r)
    BY <1>1, <1>2, <1>7, Typed, RecordedGrows
  <2> QED BY <1>1, <1>7, <2>1, Typed, GrownBoundary
<1>9. BalanceExact'
  <2> SUFFICES ASSUME ~doubt, Available # 0
               PROVE  used' + (LackSum(fed, BoundaryOf(records), queue)
                         + LackNow(fed, BoundaryOf(records), open, now)) = Spent' + base
    BY <1>2, <1>3, <1>8, ExactIsNext
  <2>1. used + (LackSum(fed, BoundaryOf(records), queue)
           + LackNow(fed, BoundaryOf(records), open, now)) = Spent + base
    BY <1>1, ExactIs
  <2>2. Spent' = Spent + 1 /\ used' = used + 1
    BY <1>2, <1>3, <1>5 DEF Spent
  <2>3. /\ LackSum(fed, BoundaryOf(records), queue) \in Int
        /\ LackNow(fed, BoundaryOf(records), open, now) \in Int
    BY <1>1, SumsTyped
  <2> QED BY <1>3, <2>1, <2>2, <2>3
<1>10. /\ used' = used + r.delta /\ empty' \in BOOLEAN
       /\ r.type # "printer_report" /\ r.boundary <= now /\ fed[now] + gone' <= Net
       /\ used' <= label' /\ label' \in Labels \union {Label} /\ doubt' \in BOOLEAN
       /\ gone' \in Nat /\ base' \in Int
  BY <1>2, <1>3, <1>6, <1>7
<1>11. empty' => used' = label'
  <2>1. empty => used = label
    BY <1>1 DEF EmptyHoldsNothing
  <2> QED BY <1>2, <1>3, <1>4, <1>5, <1>6, <2>1
<1> QED BY <1>2, <1>6, <1>7, <1>9, <1>10, <1>11, OwnerStep

\* The record of a reversal and the mark on the reverted one leave what the records of
\* jobs stand for, unless a reversal is reverted.
LEMMA MarkedStands ==
    ASSUME TypeOK, RecordsOK, NEW i \in DOMAIN records, ~records[i].reverted,
           NEW m, m = [records EXCEPT ![i].reverted = TRUE], m \in Seq(Record), Clean(m),
           NEW r \in Record, r.accounting = "none", r.delta = 0 - records[i].delta,
           r.job = records[i].job, r.reported = 0, r.reverted = FALSE
    PROVE  Clean(records) /\ StandSum(m) + Stands(r) = StandSum(records)
<1> DEFINE x == records[i]
           y == m[i]
<1>1. /\ records \in Seq(Record) /\ DOMAIN records = 1..Len(records) /\ Len(records) \in Nat
      /\ \A k \in DOMAIN records : records[k] \in Record
  BY Typed
<1>2. /\ DOMAIN m = DOMAIN records /\ y = [x EXCEPT !.reverted = TRUE]
      /\ \A k \in DOMAIN records : k # i => m[k] = records[k]
  BY <1>1
<1>3. x \in Record /\ y \in Record /\ \A k \in DOMAIN m : m[k] \in Record
  <2>1. \A k \in DOMAIN m : m[k] \in Record
    OBVIOUS
  <2> QED BY <1>1, <1>2, <2>1
<1>4. /\ y.type = x.type /\ y.delta = x.delta /\ y.reported = x.reported
      /\ y.accounting = x.accounting /\ y.job = x.job /\ y.reverts = x.reverts
      /\ y.reverted = TRUE /\ x.reverted = FALSE
  BY <1>2, <1>3 DEF Record
<1>5. ~Capped(y) /\ y.reverts = 0
  BY <1>2, <1>4 DEF Clean
<1>6. Clean(records)
  <2>1. ~Capped(x)
    BY <1>4, <1>5 DEF Capped
  <2> QED BY <1>2, <1>4, <2>1 DEF Clean
<1>7. x.delta \in Int /\ x.reported \in Nat /\ x.accounting \in Accountings /\ x.job \in Nat
  BY <1>3 DEF Record
<1>8. Consistent(x)
  BY DEF RecordsOK
<1> HIDE DEF x, y
<1>9. Stands(y) + Stands(r) = Stands(x)
  <2>1. CASE x.job = 0
    <3>1. r.job = 0
      BY <2>1 DEF x
    <3> QED BY <1>4, <2>1, <3>1 DEF Stands
  <2>2. CASE x.job # 0
    <3>1. r.delta = 0 - x.delta /\ r.job = x.job
      BY DEF x
    <3>2. Stands(r) = 0 - x.delta
      BY <1>7, <2>2, <3>1 DEF Stands, Confirmed, Unreconciled
    <3>3. Stands(y) = x.delta + x.reported
      BY <1>4, <1>7, <2>2 DEF Stands, Confirmed, Unreconciled
    <3>4. x.type = "printer_report"
      BY <1>4, <1>5, <1>8, <2>2 DEF Consistent
    <3>5. CASE x.accounting = "none"
      <4>1. x.delta = x.reported
        BY <1>4, <1>5, <1>7, <1>8, <3>4, <3>5 DEF Consistent, Capped
      <4>2. Stands(x) = x.delta
        BY <1>4, <1>7, <2>2, <3>5 DEF Stands, Confirmed, Unreconciled
      <4> QED BY <1>7, <3>2, <3>3, <4>1, <4>2
    <3>6. CASE x.accounting = "needs_reconciliation"
      <4>1. x.delta = 0
        BY <1>8, <3>4, <3>6 DEF Consistent
      <4>2. Stands(x) = x.delta + x.reported
        BY <1>4, <1>7, <2>2, <3>6 DEF Stands, Confirmed, Unreconciled
      <4> QED BY <1>7, <3>2, <3>3, <4>1, <4>2
    <3>7. CASE x.accounting \in {"already_in_balance", "prorated_after_balance",
                                 "reconciled_by_measurement"}
      <4>1. Stands(x) = x.reported
        BY <1>4, <1>7, <2>2, <3>7 DEF Stands, Confirmed, Unreconciled
      <4> QED BY <1>7, <3>2, <3>3, <4>1
    <3> QED BY <1>7, <3>5, <3>6, <3>7 DEF Accountings
  <2> QED BY <2>1, <2>2
<1>10. /\ \A k \in DOMAIN records : Standings(m)[k] \in Int /\ Standings(records)[k] \in Int
       /\ \A k \in DOMAIN records : k # i => Standings(m)[k] = Standings(records)[k]
       /\ Standings(m)[i] = Stands(y) /\ Standings(records)[i] = Stands(x)
  <2> QED BY <1>1, <1>2, <1>3, StandsTyped DEF Standings, x, y
<1>11. IsFiniteSet(DOMAIN records)
  BY <1>1, FS_Interval
<1>12. SumFunctionOnSet(Standings(m), DOMAIN records)
         = SumFunctionOnSet(Standings(records), DOMAIN records)
              + Standings(m)[i] - Standings(records)[i]
  <2> DEFINE f == Standings(records)
             g == Standings(m)
             D == DOMAIN records
  <2>1. /\ IsFiniteSet(D) /\ i \in D /\ \A k \in D : f[k] \in Int /\ g[k] \in Int
        /\ \A k \in D : k # i => g[k] = f[k]
    BY <1>10, <1>11
  <2> HIDE DEF f, g, D
  <2>2. SumFunctionOnSet(g, D) = SumFunctionOnSet(f, D) + g[i] - f[i]
    BY <2>1, SumChange
  <2> QED BY <2>2 DEF f, g, D
<1>13. StandSum(m) = StandSum(records) + Stands(y) - Stands(x)
  BY <1>2, <1>10, <1>12 DEF StandSum
<1>14. /\ Stands(x) \in Int /\ Stands(y) \in Int /\ StandSum(records) \in Int
       /\ Stands(r) \in Int
  BY <1>1, <1>3, StandsTyped, SumsTyped
<1> QED BY <1>6, <1>9, <1>13, <1>14

LEMMA RevertInv == ASSUME IInv, Revert PROVE IInv'
<1>1. /\ TypeOK /\ FeedOK /\ OpenOK /\ QueueOK /\ RecordsOK /\ Contiguous
      /\ LedgerAdds /\ EmptyHoldsNothing /\ BalanceExact /\ JobFact
  BY InvIs
<1>2. PICK i \in DOMAIN records :
         LET record == records[i]
             weighing == record.type = "manual_adjust" /\ record.boundary # Unknown
         IN /\ Revertible(i)
            /\ used' = used - record.delta
            /\ empty' = (empty /\ used' >= label)
            /\ records' = Recorded(Mark(i),
                  [Adjustment("manual_adjust", 0 - record.delta,
                              IF weighing THEN now ELSE Unknown) EXCEPT
                     !.job = record.job, !.reverts = i])
            /\ base' = IF weighing THEN used' - Spent ELSE base - record.delta
            /\ doubt' = (doubt /\ ~weighing)
  BY DEF Revert
<1> DEFINE x == records[i]
           weighing == x.type = "manual_adjust" /\ x.boundary # Unknown
           r == [Adjustment("manual_adjust", 0 - x.delta,
                            IF weighing THEN now ELSE Unknown) EXCEPT
                   !.job = x.job, !.reverts = i]
           m == [records EXCEPT ![i].reverted = TRUE]
<1>3. /\ now' = now /\ fed' = fed /\ flow' = flow /\ job' = job /\ open' = open
      /\ queue' = queue /\ label' = label /\ gone' = gone
  BY DEF Revert, printer
<1>4. /\ ~x.reverted /\ used - x.delta \in 0..label /\ used' = used - x.delta
      /\ empty' = (empty /\ used' >= label)
      /\ records' = Recorded(m, r)
      /\ base' = IF weighing THEN used' - Spent ELSE base - x.delta
      /\ doubt' = (doubt /\ ~weighing)
  BY <1>2 DEF Revertible, Mark
<1>5. /\ label \in Nat /\ used \in Nat /\ Spent \in Nat /\ now \in Nat /\ now \in Times
      /\ base \in Int /\ empty \in BOOLEAN /\ doubt \in BOOLEAN /\ Unknown = 0
      /\ used <= label
  BY <1>1, Typed DEF TypeOK, LedgerAdds
<1>6. /\ records \in Seq(Record) /\ x \in Record /\ DOMAIN records = 1..Len(records)
      /\ Len(records) \in Nat
  BY <1>1, Typed
<1>7. x.delta \in Int /\ x.job \in Nat /\ i \in Nat /\ i # 0
  BY <1>6 DEF Record
<1>8. /\ r \in Record /\ r.type = "manual_adjust" /\ r.delta = 0 - x.delta
      /\ r.boundary = (IF weighing THEN now ELSE Unknown) /\ r.accounting = "none"
      /\ r.job = x.job /\ r.reverts = i /\ r.reported = 0 /\ r.reverted = FALSE
  <2> DEFINE at == IF weighing THEN now ELSE Unknown
  <2>1. at \in Times \union {Unknown} /\ 0 - x.delta \in Int
    BY <1>5, <1>7
  <2> HIDE DEF at, x
  <2>2. LET a == [Adjustment("manual_adjust", 0 - x.delta, at) EXCEPT
                     !.job = x.job, !.reverts = i]
        IN /\ a \in Record /\ a.type = "manual_adjust" /\ a.delta = 0 - x.delta
           /\ a.boundary = at /\ a.accounting = "none"
           /\ a.job = x.job /\ a.reverts = i /\ a.reported = 0 /\ a.reverted = FALSE
    BY <1>7, <2>1 DEF Adjustment, Record, Accountings
  <2> QED BY <2>2 DEF at
<1>9. m \in Seq(Record) /\ Len(m) = Len(records) /\ Grows(records, records', r)
  <2> HIDE DEF r
  <2> QED BY <1>4, <1>6, <1>8, MarkedGrows
<1>10. \A k \in DOMAIN m : Consistent(m[k])
  <2> SUFFICES ASSUME NEW k \in DOMAIN records PROVE Consistent(m[k])
    BY <1>6, <1>9
  <2>1. Consistent(records[k]) /\ records[k] \in Record
    BY <1>1, <1>6, Typed DEF RecordsOK
  <2>2. CASE k = i
    <3>1. m[k] = [records[k] EXCEPT !.reverted = TRUE]
      BY <1>6, <2>2
    <3>2. LET y == [records[k] EXCEPT !.reverted = TRUE]
          IN  /\ y.boundary = records[k].boundary /\ y.job = records[k].job
              /\ y.type = records[k].type /\ y.accounting = records[k].accounting
              /\ y.delta = records[k].delta /\ y.reported = records[k].reported
              /\ y.reverts = records[k].reverts
      BY <2>1 DEF Record
    <3> QED BY <2>1, <3>1, <3>2 DEF Consistent
  <2>3. CASE k # i
    <3>1. m[k] = records[k]
      BY <2>3
    <3> QED BY <2>1, <3>1
  <2> QED BY <2>2, <2>3
<1> HIDE DEF r, m, weighing
<1>11. Consistent(r)
  <2>1. Consistent(x)
    BY <1>1 DEF RecordsOK
  <2>2. r.boundary <= now
    BY <1>5, <1>8
  <2> QED BY <1>7, <1>8, <2>1, <2>2 DEF Consistent
<1>12. /\ StandSum(records') = StandSum(m) + Stands(r)
       /\ Clean(records') => Clean(m)
       /\ \A k \in DOMAIN records' : Consistent(records'[k])
  BY <1>1, <1>4, <1>8, <1>9, <1>10, <1>11, RecordedStands
<1>13. used' \in Nat /\ used' <= label /\ base' \in Int /\ empty' \in BOOLEAN
       /\ doubt' \in BOOLEAN
  <2>1. used' \in Nat /\ used' <= label
    BY <1>4, <1>5, <1>7
  <2>2. base' \in Int
    BY <1>4, <1>5, <1>7, <2>1
  <2>3. empty' \in BOOLEAN /\ doubt' \in BOOLEAN
    BY <1>4, Zenon
  <2> QED BY <2>1, <2>2, <2>3
<1>14. TypeOK'
  <2>1. records' \in Seq(Record)
    BY <1>9 DEF Grows
  <2> QED BY <1>1, <1>3, <1>13, <2>1 DEF TypeOK
<1>15. FeedOK' /\ OpenOK' /\ QueueOK'
  BY <1>1, <1>3 DEF FeedOK, Spent, OpenOK, QueueOK, Truthful, Steady
<1>16. RecordsOK'
  BY <1>3, <1>12 DEF RecordsOK, Consistent
<1>17. Contiguous'
  BY <1>3, <1>6, <1>8, <1>9, ContiguousStill
<1>18. LedgerAdds'
  <2>1. DeltaSum(records') = DeltaSum(records) + (0 - x.delta)
    BY <1>6, <1>8, <1>9, GrownSum
  <2>2. DeltaSum(records') = used - x.delta
    BY <1>1, <1>5, <1>7, <2>1, LedgerIs
  <2> QED BY <1>3, <1>4, <1>13, <2>2, LedgerIsNext
<1>19. EmptyHoldsNothing'
  <2>1. empty' => used' >= label
    BY <1>4
  <2> QED BY <1>3, <1>5, <1>13, <2>1 DEF EmptyHoldsNothing
<1>20. JobFact'
  <2> SUFFICES ASSUME Clean(records')
               PROVE  StandSum(records') + WeightSum(queue) + PrintedNow(fed, open, now) = fed[now]
    BY <1>3, JobFactIsNext
  <2>1. Clean(records) /\ StandSum(m) + Stands(r) = StandSum(records)
    BY <1>1, <1>4, <1>8, <1>9, <1>12, MarkedStands DEF m
  <2> QED BY <1>1, <1>12, <2>1, JobFactIs
<1>21. BalanceExact'
  <2>1. Spent' = Spent
    BY <1>3 DEF Spent
  <2>2. CASE weighing
    <3>1. /\ LackSum(fed, BoundaryOf(records'), queue) = 0
          /\ LackNow(fed, BoundaryOf(records'), open, now) = 0
      BY <1>8, <1>9, <2>2, Weighed
    <3>2. used' + (0 + 0) = Spent + base'
      BY <1>4, <1>5, <1>13, <2>2
    <3> QED BY <1>3, <2>1, <3>1, <3>2, ExactIsNext
  <2>3. CASE ~weighing
    <3>1. BoundaryOf(records') = BoundaryOf(records)
      BY <1>6, <1>8, <1>9, <2>3, GrownBoundary
    <3>2. /\ LackSum(fed, BoundaryOf(records), queue) \in Int
          /\ LackNow(fed, BoundaryOf(records), open, now) \in Int
      BY <1>1, SumsTyped
    <3>3. ~doubt => used + (LackSum(fed, BoundaryOf(records), queue)
                       + LackNow(fed, BoundaryOf(records), open, now)) = Spent + base
      BY <1>1, ExactIs
    <3>4. used' = used - x.delta /\ base' = base - x.delta /\ (~doubt' => ~doubt)
      BY <1>4, <2>3
    <3> HIDE DEF x
    <3>5. ~doubt' => used' + (LackSum(fed, BoundaryOf(records), queue)
                       + LackNow(fed, BoundaryOf(records), open, now)) = Spent + base'
      BY <1>5, <1>7, <3>2, <3>3, <3>4
    <3> QED BY <1>3, <2>1, <3>1, <3>5, ExactIsNext
  <2> QED BY <2>2, <2>3
<1> QED BY <1>14, <1>15, <1>16, <1>17, <1>18, <1>19, <1>20, <1>21, InvIsNext

-----------------------------------------------------------------------------
(* A report is charged. *)

\* A quotient of natural numbers, and one that is exact.
LEMMA Quotient ==
    ASSUME NEW n \in Nat \ {0}
    PROVE  /\ \A a \in Nat : a \div n \in Nat
           /\ \A p \in Nat : (n * p) \div n = p
OBVIOUS

LEMMA Product == ASSUME NEW a \in Nat, NEW b \in Nat PROVE a * b \in Nat
OBVIOUS

LEMMA Regrouped ==
    ASSUME NEW a \in Nat, NEW b \in Nat, NEW c \in Nat
    PROVE  (a * b) * c = b * (a * c)
OBVIOUS

LEMMA HeadIs ==
    ASSUME IInv, queue # <<>>
    PROVE  /\ Head(queue) = queue[1] /\ Head(queue) \in Report /\ Truthful(Head(queue))
           /\ Leads(records, Head(queue)) /\ 1 \in DOMAIN queue
           /\ BoundaryOf(records) = Boundary
<1>1. TypeOK /\ QueueOK /\ Contiguous
  BY InvIs
<1>2. queue \in Seq(Report) /\ Head(queue) = queue[1] /\ 1 \in DOMAIN queue
  BY <1>1, Typed
<1>3. queue[1] \in Report /\ Truthful(queue[1]) /\ Leads(records, queue[1])
  BY <1>1, <1>2 DEF QueueOK, Contiguous
<1> QED BY <1>2, <1>3 DEF Boundary, BoundaryOf

\* Where the code takes the segment to start is where it started, or it knows that it is
\* a guess, which is not later.
LEMMA SegmentStartIs ==
    ASSUME IInv, queue # <<>>
    PROVE  LET x == Head(queue)
               start == SegmentStart(x)
           IN  /\ start.at \in Times /\ start.at <= x.start
               /\ start.known => start.at = x.start
<1> DEFINE x == Head(queue)
           previous == records[Max(JobReports(x.job))].observed
<1>1. x \in Report /\ Truthful(x) /\ Leads(records, x)
  BY HeadIs
<1>2. /\ x.start \in Times /\ x.started \in Times /\ x.start \in Nat /\ x.started <= x.start
      /\ Unknown \notin Times
  <2>1. TypeOK
    BY InvIs
  <2>2. x.start \in Times /\ x.started \in Times
    BY <1>1, ReportTyped
  <2> QED BY <1>1, <2>1, <2>2, Typed DEF Truthful
<1>3. JobReports(x.job) = JobReportsOf(records, x.job)
  BY DEF JobReports, JobReportsOf
<1> HIDE DEF x
<1>4. CASE JobReports(x.job) = {}
  <2>1. SegmentStart(x) = [at |-> x.started, known |-> TRUE]
    BY <1>4 DEF SegmentStart
  <2>2. x.start = x.started
    BY <1>1, <1>3, <1>4 DEF Leads
  <2> QED BY <1>2, <2>1, <2>2 DEF x
<1>5. CASE JobReports(x.job) # {} /\ previous # Unknown
  <2>1. SegmentStart(x) = [at |-> previous, known |-> TRUE]
    BY <1>5 DEF SegmentStart
  <2>2. previous = x.start
    BY <1>1, <1>3, <1>5 DEF Leads
  <2> QED BY <1>2, <2>1, <2>2 DEF x
<1>6. CASE JobReports(x.job) # {} /\ previous = Unknown
  <2>1. SegmentStart(x) = [at |-> x.started, known |-> FALSE]
    BY <1>6 DEF SegmentStart
  <2> QED BY <1>2, <2>1 DEF x
<1> QED BY <1>4, <1>5, <1>6

LEMMA DueIs ==
    ASSUME IInv, queue # <<>>
    PROVE  LET x == Head(queue)
           IN  /\ Due(x) \in Nat /\ Accounting(x) \in Accountings
               /\ Accounting(x) = "none" => Due(x) = x.weight
               /\ Accounting(x) # "reconciled_by_measurement"
               /\ Accounting(x) \in {"needs_reconciliation", "already_in_balance"} => Due(x) = 0
<1> DEFINE x == Head(queue)
           b == Boundary
           at == SegmentStart(x).at
<1>1. /\ x \in Report /\ x.weight \in Nat /\ x.end \in Times /\ x.start \in Times
      /\ b \in Times \union {Unknown}
      /\ x.end \in Nat /\ b \in Nat /\ at \in Nat /\ Unknown = 0
  <2>1. TypeOK /\ RecordsOK
    BY InvIs
  <2>2. x \in Report /\ b = BoundaryOf(records)
    BY HeadIs
  <2>3. at \in Times
    BY SegmentStartIs
  <2>4. b \in Times \union {Unknown} /\ b \in Nat
    BY <2>1, <2>2, BoundaryPast
  <2>5. x.weight \in Nat /\ x.end \in Times /\ x.start \in Times
    BY <2>2, ReportTyped
  <2>6. Times \subseteq Nat /\ Unknown = 0
    BY <2>1, Typed
  <2> QED BY <2>2, <2>3, <2>4, <2>5, <2>6
<1> HIDE DEF x
<1>2. Accounting(x) \in {"none", "needs_reconciliation", "already_in_balance",
                         "prorated_after_balance"}
  BY DEF Accounting
<1>3. Accounting(x) = "none" => Due(x) = x.weight
  BY DEF Due
<1>4. Accounting(x) \in {"needs_reconciliation", "already_in_balance"} => Due(x) = 0
  BY DEF Due
<1>5. ASSUME Accounting(x) = "prorated_after_balance" PROVE Due(x) \in Nat
  <2>1. Due(x) = (x.weight * (x.end - b)) \div (x.end - at)
    BY <1>5 DEF Due
  <2>2. ~ (x.end <= b) /\ ~ (at >= b)
    BY <1>5 DEF Accounting
  <2> HIDE DEF b, at
  <2>3. x.end - b \in Nat /\ x.end - at \in Nat \ {0}
    BY <1>1, <2>2
  <2>4. x.weight * (x.end - b) \in Nat
    BY <1>1, <2>3, Product
  <2> QED BY <2>1, <2>3, <2>4, Quotient
<1>6. Due(x) \in Nat
  BY <1>1, <1>2, <1>3, <1>4, <1>5
<1> QED BY <1>2, <1>3, <1>4, <1>6 DEF x, Accountings

\* What is due of a report is what no weighing has covered of it, where the code can know.
LEMMA DueUncovered ==
    ASSUME IInv, queue # <<>>,
           Accounting(Head(queue)) # "needs_reconciliation",
           Accounting(Head(queue)) = "prorated_after_balance" => Head(queue).even
    PROVE  Due(Head(queue)) = UncoveredAt(fed, BoundaryOf(records), Head(queue).start,
                                          Head(queue).end)
<1> DEFINE x == Head(queue)
           b == BoundaryOf(records)
           at == SegmentStart(x).at
           A == Accounting(x)
           s == x.start
           e == x.end
<1>1. /\ x \in Report /\ Truthful(x) /\ b = Boundary
      /\ x.weight \in Nat /\ s \in Times /\ e \in Times
  BY HeadIs, ReportTyped
<1>2. at \in Times /\ at <= s /\ (SegmentStart(x).known => at = s)
  BY SegmentStartIs
<1>3. /\ b \in Times \union {Unknown} /\ b \in Nat /\ s \in Nat /\ e \in Nat /\ at \in Nat
      /\ fed \in [Times -> Nat] /\ Unknown = 0 /\ s >= 1 /\ Unknown \notin Times
      /\ fed[s] \in Nat /\ fed[e] \in Nat
  <2>1. TypeOK /\ RecordsOK
    BY InvIs
  <2>2. /\ fed \in [Times -> Nat] /\ Unknown = 0 /\ Unknown \notin Times
        /\ Times \subseteq Nat
    BY <2>1, Typed
  <2>3. b \in Times \union {Unknown} /\ b \in Nat
    BY <2>1, BoundaryPast
  <2>4. s >= 1
    BY <1>1, BoundsAssumption DEF Times
  <2> QED BY <1>1, <1>2, <2>2, <2>3, <2>4
<1>4. s < e /\ x.weight = fed[e] - fed[s]
  BY <1>1 DEF Truthful
<1>5. UncoveredAt(fed, b, s, e) =
         IF e <= b THEN 0 ELSE IF b <= s THEN fed[e] - fed[s] ELSE fed[e] - fed[b]
  <2> HIDE DEF b, s, e
  <2> QED BY <1>1, <1>3, UncoveredIs, Zenon
<1>6. A = IF b = Unknown THEN "none"
          ELSE IF ~x.timed THEN "needs_reconciliation"
          ELSE IF e <= b THEN "already_in_balance"
          ELSE IF at >= b THEN "none"
          ELSE IF SegmentStart(x).known THEN "prorated_after_balance"
          ELSE "needs_reconciliation"
  BY <1>1 DEF Accounting
<1>7. /\ A = "none" => Due(x) = x.weight
      /\ A = "already_in_balance" => Due(x) = 0
      /\ A = "prorated_after_balance" => Due(x) = (x.weight * (e - b)) \div (e - at)
  BY <1>1 DEF Due
<1>8. A # "needs_reconciliation" /\ (A = "prorated_after_balance" => x.even)
  OBVIOUS
<1> HIDE DEF A, at, b, s, e, x
<1>9. CASE b = Unknown
  <2>1. A = "none" /\ b <= s /\ ~ (e <= b)
    BY <1>3, <1>4, <1>6, <1>9
  <2> QED BY <1>4, <1>5, <1>7, <2>1 DEF b, s, e, x
<1>10. CASE b # Unknown /\ e <= b
  <2>1. A = "already_in_balance"
    BY <1>6, <1>8, <1>10
  <2> QED BY <1>5, <1>7, <1>10, <2>1 DEF b, s, e, x
<1>11. CASE b # Unknown /\ ~ (e <= b) /\ at >= b
  <2>1. A = "none" /\ b <= s
    BY <1>2, <1>3, <1>6, <1>8, <1>11
  <2> QED BY <1>4, <1>5, <1>7, <1>11, <2>1 DEF b, s, e, x
<1>12. CASE b # Unknown /\ ~ (e <= b) /\ ~ (at >= b)
  <2>1. A = "prorated_after_balance" /\ at = s
    BY <1>2, <1>6, <1>8, <1>12
  <2>2. PICK rate \in Nat : \A t \in s..e : fed[t] = fed[s] + rate * (t - s)
    <3>1. x.even
      BY <1>8, <2>1
    <3> QED BY <1>1, <3>1 DEF Truthful, Steady, s, e
  <2>3. b \in s..e /\ e \in s..e /\ ~ (b <= s) /\ b \in Times
    BY <1>3, <1>12, <2>1
  <2>4. /\ fed[e] = fed[s] + rate * (e - s) /\ fed[b] = fed[s] + rate * (b - s)
    BY <2>2, <2>3
  <2> DEFINE n == e - s
             p == e - b
             k == b - s
  <2>5. n \in Nat \ {0} /\ p \in Nat /\ k \in Nat /\ n = p + k /\ e - at = n
    BY <1>3, <1>4, <1>12, <2>1, <2>3
  <2>6. fed[e] = fed[s] + rate * n /\ fed[b] = fed[s] + rate * k
    BY <2>4
  <2>7. Due(x) = (x.weight * p) \div n
    BY <1>7, <2>1, <2>5
  <2> HIDE DEF n, p, k
  <2>8. rate * n \in Nat /\ rate * k \in Nat /\ rate * p \in Nat
    BY <2>5, Product
  <2>9. rate * n = rate * p + rate * k
    BY <2>5
  <2>10. x.weight = rate * n
    BY <1>3, <1>4, <2>6, <2>8
  <2>11. x.weight * p = n * (rate * p)
    BY <2>5, <2>10, Regrouped
  <2>12. Due(x) = rate * p
    BY <2>5, <2>7, <2>8, <2>11, Quotient
  <2>13. fed[e] - fed[b] = rate * p
    BY <1>3, <2>6, <2>8, <2>9
  <2>14. UncoveredAt(fed, b, s, e) = fed[e] - fed[b]
    BY <1>5, <1>12, <2>3
  <2> QED BY <2>12, <2>13, <2>14 DEF b, s, e, x
<1> QED BY <1>9, <1>10, <1>11, <1>12

\* The segment after a charged one comes right after what the history knows of then.
LEMMA LeadsNext ==
    ASSUME NEW q \in Seq(Record), NEW p, NEW r \in Record, Grows(q, p, r),
           r.type = "printer_report", NEW x, x.job = r.job, x.job \in Nat,
           r.observed \in {Unknown, x.end}, Leads(q, x),
           NEW y, y.job \in Nat, After(x, y)
    PROVE  Leads(p, y)
<1>1. /\ DOMAIN p = DOMAIN q \union {Len(q) + 1} /\ p[Len(q) + 1] = r
      /\ \A i \in DOMAIN q : p[i].job = q[i].job
  BY DEF Grows, Same
<1>2. \A i \in DOMAIN q : q[i].job <= x.job /\ q[i].job \in Nat
  <2>1. \A z \in Record : z.job \in Nat
    BY DEF Record
  <2> QED BY <2>1 DEF Leads
<1>3. x.job <= y.job
  BY DEF After
<1>4. \A i \in DOMAIN p : p[i].job <= y.job
  BY <1>1, <1>2, <1>3
<1>5. CASE x.job = y.job
  <2>1. JobReportsOf(p, y.job) # {} /\ Max(JobReportsOf(p, y.job)) = Len(q) + 1
    <3>1. y.job = r.job
      BY <1>5
    <3>2. JobReportsOf(p, r.job) = JobReportsOf(q, r.job) \union {Len(q) + 1}
      BY GrownReports
    <3>3. Max(JobReportsOf(p, r.job)) = Len(q) + 1
      BY NewLastReport
    <3> QED BY <3>1, <3>2, <3>3
  <2>2. y.start = x.end
    BY <1>5 DEF After
  <2> QED BY <1>1, <1>4, <2>1, <2>2 DEF Leads
<1>6. CASE x.job # y.job
  <2>1. x.job < y.job /\ y.start = y.started
    BY <1>6 DEF After
  <2>2. JobReportsOf(q, y.job) = {}
    BY <1>2, <2>1 DEF JobReportsOf
  <2>3. JobReportsOf(p, y.job) = {}
    BY <1>6, <2>2, GrownReports
  <2> QED BY <1>4, <2>1, <2>3 DEF Leads
<1> QED BY <1>5, <1>6

LEMMA ChargeInv == ASSUME IInv, Charge PROVE IInv'
<1>1. /\ TypeOK /\ FeedOK /\ OpenOK /\ QueueOK /\ RecordsOK /\ Contiguous
      /\ LedgerAdds /\ EmptyHoldsNothing /\ BalanceExact /\ JobFact
  BY InvIs
<1> DEFINE x == Head(queue)
           taken == Consumed(x)
           r == [Adjustment("printer_report", taken, Unknown) EXCEPT
                    !.reported = x.weight, !.accounting = Accounting(x), !.job = x.job,
                    !.observed = IF x.timed THEN x.end ELSE Unknown]
           uncertain == \/ doubt
                        \/ Accounting(x) = "needs_reconciliation"
                        \/ Accounting(x) = "prorated_after_balance" /\ ~x.even
                        \/ taken < Due(x)
<1>2. /\ queue # <<>> /\ queue' = Tail(queue)
      /\ used' = used + taken /\ empty' = (empty \/ used' >= label) /\ label' = label
      /\ records' = Recorded(records, r) /\ doubt' = uncertain
      /\ now' = now /\ fed' = fed /\ flow' = flow /\ job' = job /\ open' = open
      /\ gone' = gone /\ base' = base
  BY DEF Charge, Deduct, printer
<1>3. /\ x \in Report /\ Truthful(x) /\ Leads(records, x) /\ x = queue[1]
      /\ x.weight \in Nat /\ x.job \in Nat /\ x.end \in Times /\ x.start \in Times
  BY <1>2, HeadIs, ReportTyped
<1>4. /\ Due(x) \in Nat /\ Accounting(x) \in Accountings
      /\ Accounting(x) = "none" => Due(x) = x.weight
      /\ Accounting(x) # "reconciled_by_measurement"
      /\ Accounting(x) \in {"needs_reconciliation", "already_in_balance"} => Due(x) = 0
  BY <1>2, DueIs
<1>5. /\ label \in Nat /\ used \in Nat /\ Spent \in Nat /\ now \in Nat /\ base \in Int
      /\ doubt \in BOOLEAN /\ Unknown = 0 /\ used <= label /\ fed \in [Times -> Nat]
      /\ records \in Seq(Record) /\ queue \in Seq(Report) /\ job.number \in Nat
      /\ BoundaryOf(records) \in Times \union {Unknown}
      /\ label \in Labels \union {Label} /\ (empty => used = label)
  BY <1>1, Typed DEF TypeOK, LedgerAdds, EmptyHoldsNothing
<1>6. Available \in Nat /\ Available = label - used
  BY <1>1, AvailableIs
<1>7. taken \in Nat /\ taken <= Available /\ taken <= Due(x)
  <2>1. taken = Min({Due(x), Available})
    BY DEF Consumed
  <2> QED BY <1>4, <1>6, <2>1, MinOfTwo
<1>8. /\ r \in Record /\ r.type = "printer_report" /\ r.delta = taken /\ r.boundary = Unknown
      /\ r.reported = x.weight /\ r.accounting = Accounting(x) /\ r.job = x.job
      /\ r.observed \in {Unknown, x.end} /\ r.reverted = FALSE /\ r.reverts = 0
  <2> DEFINE A == Accounting(x)
             seen == IF x.timed THEN x.end ELSE Unknown
  <2>1. A \in Accountings /\ seen \in {Unknown, x.end} /\ seen \in Times \union {Unknown}
    BY <1>3, <1>4
  <2> HIDE DEF A, seen, x, taken
  <2> DEFINE w == [type |-> "printer_report", delta |-> taken, reported |-> x.weight,
                   accounting |-> A, reverted |-> FALSE, boundary |-> Unknown,
                   observed |-> seen, job |-> x.job, reverts |-> 0]
  <2>2. r = w
    <3> HIDE DEF r
    <3>1. r = [[[[Adjustment("printer_report", taken, Unknown) EXCEPT
                    !.reported = x.weight] EXCEPT !.accounting = A] EXCEPT !.job = x.job]
                 EXCEPT !.observed = seen]
      BY DEF r, A, seen
    <3> QED BY <3>1 DEF Adjustment
  <2>3. w \in Record
    BY <1>3, <1>7, <2>1 DEF Record
  <2> HIDE DEF r
  <2> QED BY <2>1, <2>2, <2>3 DEF A
<1> HIDE DEF r, taken, x
<1>9. Grows(records, records', r)
  BY <1>2, <1>5, <1>8, RecordedGrows
<1>10. Consistent(r)
  <2>1. x.job >= 1 /\ x.job <= job.number
    BY <1>3 DEF Truthful
  <2>2. r.boundary <= now
    BY <1>5, <1>8
  <2>3. r.accounting = "none" => r.delta <= r.reported
    BY <1>4, <1>7, <1>8
  <2>4. r.accounting \in {"needs_reconciliation", "already_in_balance",
                          "reconciled_by_measurement"} => r.delta = 0
    BY <1>4, <1>7, <1>8
  <2> QED BY <1>3, <1>8, <2>1, <2>2, <2>3, <2>4 DEF Consistent
<1>11. /\ StandSum(records') = StandSum(records) + Stands(r)
       /\ Clean(records') => Clean(records) /\ ~Capped(r)
       /\ \A i \in DOMAIN records' : Consistent(records'[i])
  <2>1. \A i \in DOMAIN records : Consistent(records[i])
    BY <1>1 DEF RecordsOK
  <2> QED BY <1>1, <1>2, <1>5, <1>8, <1>10, <2>1, RecordedStands
<1> DEFINE n == Len(queue) - 1
<1>12. /\ n \in Nat /\ DOMAIN queue = 1..(n + 1) /\ Len(queue) = n + 1
       /\ queue' \in Seq(Report) /\ DOMAIN queue' = 1..n /\ Len(queue') = n
       /\ \A i \in 1..n : queue'[i] = queue[i + 1]
       /\ \A i \in 1..(n + 1) : queue[i] \in Report
       /\ (queue' = <<>>) <=> n = 0
  <2>1. n \in Nat /\ DOMAIN queue = 1..(n + 1) /\ Len(queue) = n + 1
    BY <1>2, <1>5
  <2>2. \A i \in 1..(n + 1) : queue[i] \in Report
    BY <1>5, <2>1
  <2>3. /\ queue' \in Seq(Report) /\ Len(queue') = n
        /\ \A i \in 1..n : queue'[i] = queue[i + 1]
    BY <1>2, <1>5
  <2> HIDE DEF n
  <2>4. DOMAIN queue' = 1..n /\ ((queue' = <<>>) <=> n = 0)
    BY <2>1, <2>3
  <2> QED BY <2>1, <2>2, <2>3, <2>4
<1> HIDE DEF n
<1>13. TypeOK'
  <2>1. records' \in Seq(Record)
    BY <1>9 DEF Grows
  <2>2. used' \in Nat
    BY <1>2, <1>5, <1>7
  <2>3. empty' \in BOOLEAN /\ doubt' \in BOOLEAN
    BY <1>2, Zenon
  <2> QED BY <1>1, <1>2, <1>12, <2>1, <2>2, <2>3 DEF TypeOK
<1>14. FeedOK' /\ OpenOK'
  BY <1>1, <1>2 DEF FeedOK, Spent, OpenOK, Steady
<1>15. QueueOK'
  <2>1. \A i \in 1..n : i + 1 \in 1..(n + 1)
    BY <1>12
  <2>2. \A i \in DOMAIN queue' : Truthful(queue'[i])
    BY <1>1, <1>12, <2>1 DEF QueueOK
  <2> QED BY <1>2, <2>2 DEF QueueOK, Truthful, Steady
<1>16. RecordsOK'
  BY <1>2, <1>11 DEF RecordsOK, Consistent
<1>17. Contiguous'
  <2>1. \A i \in 1..n : After(queue[i], queue[i + 1])
    <3>1. \A i \in 1..n : i \in DOMAIN queue /\ i # Len(queue)
      BY <1>12
    <3> QED BY <1>1, <3>1 DEF Contiguous
  <2>2. ASSUME NEW i \in DOMAIN queue', i # Len(queue')
        PROVE  After(queue'[i], queue'[i + 1])
    <3>1. i \in 1..n /\ i + 1 \in 1..n
      BY <1>12, <2>2
    <3> QED BY <1>12, <2>1, <3>1
  <2>3. queue' # <<>> => Leads(records', queue'[1])
    <3> SUFFICES ASSUME queue' # <<>> PROVE Leads(records', queue'[1])
      OBVIOUS
    <3>1. 1 \in 1..n /\ 1 + 1 \in 1..(n + 1)
      BY <1>12
    <3>2. After(x, queue[2]) /\ queue'[1] = queue[2] /\ queue[2].job \in Nat
      BY <1>3, <1>12, <2>1, <3>1, ReportTyped
    <3> QED BY <1>3, <1>5, <1>8, <1>9, <3>2, LeadsNext
  <2>4. OpenReport' = OpenReport
    BY <1>2 DEF OpenReport
  <2>5. open # NoSegment => After(queue[n + 1], OpenReport)
    BY <1>1, <1>2, <1>12 DEF Contiguous
  <2>6. open # NoSegment /\ queue' = <<>> => Leads(records', OpenReport)
    <3> SUFFICES ASSUME open # NoSegment, queue' = <<>> PROVE Leads(records', OpenReport)
      OBVIOUS
    <3>1. After(x, OpenReport)
      BY <1>3, <1>12, <2>5
    <3>2. OpenReport.job \in Nat
      BY <1>1, Typed DEF OpenReport
    <3> QED BY <1>3, <1>5, <1>8, <1>9, <3>1, <3>2, LeadsNext
  <2>7. open # NoSegment /\ queue' # <<>> => After(queue'[Len(queue')], OpenReport)
    <3>1. n # 0 => n \in 1..n
      BY <1>12
    <3> QED BY <1>12, <2>5, <3>1
  <2> QED BY <1>2, <2>2, <2>3, <2>4, <2>6, <2>7 DEF Contiguous
<1>18. LedgerAdds'
  <2>1. DeltaSum(records') = DeltaSum(records) + taken
    BY <1>5, <1>8, <1>9, GrownSum
  <2>2. used = DeltaSum(records)
    BY <1>1, LedgerIs
  <2>3. used' = DeltaSum(records') /\ used' <= label
    BY <1>2, <1>5, <1>6, <1>7, <2>1, <2>2
  <2> QED BY <1>2, <2>3, LedgerIsNext
<1>19. EmptyHoldsNothing'
  <2>1. used' \in Nat /\ used' <= label /\ (empty => used' = label)
    BY <1>2, <1>5, <1>6, <1>7
  <2>2. empty' => empty \/ used' >= label
    BY <1>2
  <2> QED BY <1>2, <1>5, <2>1, <2>2 DEF EmptyHoldsNothing
<1>20. /\ LackSum(fed, BoundaryOf(records), queue)
             = UncoveredAt(fed, BoundaryOf(records), x.start, x.end)
                  + LackSum(fed, BoundaryOf(records), queue')
       /\ WeightSum(queue) = x.weight + WeightSum(queue')
       /\ BoundaryOf(records') = BoundaryOf(records)
  <2>1. BoundaryOf(records') = BoundaryOf(records)
    BY <1>5, <1>8, <1>9, GrownBoundary
  <2> DEFINE b == BoundaryOf(records)
  <2>2. b \in Times \union {Unknown}
    BY <1>5
  <2> HIDE DEF b
  <2>3. /\ LackSum(fed, b, queue)
              = UncoveredAt(fed, b, queue[1].start, queue[1].end) + LackSum(fed, b, Tail(queue))
        /\ WeightSum(queue) = queue[1].weight + WeightSum(Tail(queue))
    BY <1>2, <1>5, <2>2, QueueShorter
  <2> QED BY <1>2, <1>3, <2>1, <2>3 DEF b
<1>21. LackSum(fed, BoundaryOf(records), queue') \in Int /\ WeightSum(queue') \in Int
  <2>1. LackSum(fed, BoundaryOf(records), queue') \in Int
    BY <1>5, <1>12, LackTyped
  <2>2. WeightSum(queue') \in Int
    <3>1. \A i \in DOMAIN queue' : Weights(queue')[i] \in Int
      <4>1. \A i \in DOMAIN queue' : queue'[i] \in Report
        BY <1>12
      <4> QED BY <4>1, ReportTyped DEF Weights
    <3>2. IsFiniteSet(DOMAIN queue')
      BY <1>12, FS_Interval
    <3> QED BY <3>1, <3>2, SumInt DEF WeightSum
  <2> QED BY <2>1, <2>2
<1>22. BalanceExact'
  <2> DEFINE b == BoundaryOf(records)
  <2> SUFFICES ASSUME ~uncertain
               PROVE  used' + (LackSum(fed, b, queue') + LackNow(fed, b, open, now))
                         = Spent + base
    <3>1. Spent' = Spent
      BY <1>2 DEF Spent
    <3> QED BY <1>2, <1>20, <3>1, ExactIsNext
  <2>1. taken = Due(x)
    <3>1. ~ (taken < Due(x))
      OBVIOUS
    <3> QED BY <1>4, <1>7, <3>1
  <2>2. Due(x) = UncoveredAt(fed, b, x.start, x.end)
    BY <1>2, DueUncovered DEF x
  <2>3. used + (LackSum(fed, b, queue) + LackNow(fed, b, open, now)) = Spent + base
    BY <1>1, ExactIs
  <2>4. LackNow(fed, b, open, now) \in Int
    BY <1>1, SumsTyped
  <2>5. used' = used + UncoveredAt(fed, b, x.start, x.end)
    BY <1>2, <2>1, <2>2
  <2>6. UncoveredAt(fed, b, x.start, x.end) \in Nat
    BY <1>4, <2>2
  <2> HIDE DEF b
  <2>7. LackSum(fed, b, queue) = UncoveredAt(fed, b, x.start, x.end) + LackSum(fed, b, queue')
        /\ LackSum(fed, b, queue') \in Int
    BY <1>13, <1>20, <1>21 DEF b
  <2> QED BY <1>5, <2>3, <2>4, <2>5, <2>6, <2>7
<1>23. JobFact'
  <2> SUFFICES ASSUME Clean(records')
               PROVE  StandSum(records') + WeightSum(queue') + PrintedNow(fed, open, now)
                         = fed[now]
    BY <1>2, JobFactIsNext
  <2>1. StandSum(records) + WeightSum(queue) + PrintedNow(fed, open, now) = fed[now]
    BY <1>1, <1>11, JobFactIs
  <2>2. Stands(r) = x.weight
    <3>1. r.job # 0
      BY <1>3, <1>8 DEF Truthful
    <3>2. ~Capped(r)
      BY <1>11
    <3>3. CASE r.accounting = "none"
      <4>1. r.delta = x.weight
        BY <1>3, <1>4, <1>7, <1>8, <3>2, <3>3 DEF Capped
      <4> QED BY <1>3, <1>8, <3>1, <3>3, <4>1 DEF Stands, Confirmed, Unreconciled
    <3>4. CASE r.accounting = "needs_reconciliation"
      <4>1. r.delta = 0
        BY <1>4, <1>7, <1>8, <3>4
      <4> QED BY <1>3, <1>8, <3>1, <3>4, <4>1 DEF Stands, Confirmed, Unreconciled
    <3>5. CASE r.accounting \in {"already_in_balance", "prorated_after_balance",
                                 "reconciled_by_measurement"}
      BY <1>3, <1>8, <3>1, <3>5 DEF Stands, Confirmed, Unreconciled
    <3> QED BY <1>4, <1>8, <3>3, <3>4, <3>5 DEF Accountings
  <2>3. /\ StandSum(records) \in Int /\ WeightSum(queue') \in Int
        /\ PrintedNow(fed, open, now) \in Int
    BY <1>1, <1>13, <1>21, SumsTyped
  <2> QED BY <1>3, <1>11, <1>20, <2>1, <2>2, <2>3
<1> QED BY <1>13, <1>14, <1>15, <1>16, <1>17, <1>18, <1>19, <1>22, <1>23, InvIsNext

-----------------------------------------------------------------------------
(* The theorems. *)

\* The opening balance is a weighing of which nothing is outstanding.
LEMMA InitInv == Init => IInv
<1> SUFFICES ASSUME Init PROVE IInv
  OBVIOUS
<1> DEFINE r == Adjustment("reconcile_adjust", used, now)
<1>1. /\ now = 1 /\ fed = [t \in Times |-> 0] /\ flow = 0
      /\ job = [number |-> 0, started |-> 1] /\ open = NoSegment /\ queue = <<>>
      /\ label = Label /\ used \in Openings /\ empty = FALSE
      /\ records = IF used = 0 THEN <<>> ELSE Recorded(<<>>, r)
      /\ gone = 0 /\ base = used /\ doubt = FALSE
  BY DEF Init
<1>2. 1 \in Times /\ MaxTime \in Nat /\ \A t \in Times : fed[t] = 0
  BY <1>1, BoundsAssumption DEF Times
<1>3. fed[now] = 0 /\ used \in Nat /\ used < label /\ label \in Nat
  BY <1>1, <1>2, BoundsAssumption
<1>4. queue \in Seq(Report) /\ DOMAIN queue = {} /\ Len(queue) = 0
  BY <1>1
<1>5. /\ r \in Record /\ r.type = "reconcile_adjust" /\ r.delta = used /\ r.job = 0
      /\ r.boundary = now /\ r.accounting = "none" /\ r.reverts = 0
  BY <1>1, <1>2, <1>3 DEF Adjustment, Record, Accountings
<1> HIDE DEF r
<1>6. /\ records \in Seq(Record)
      /\ used # 0 => Grows(<<>>, records, r)
  <2>1. <<>> \in Seq(Record)
    OBVIOUS
  <2>2. Recorded(<<>>, r) \in Seq(Record) /\ Grows(<<>>, Recorded(<<>>, r), r)
    BY <1>5, <2>1, RecordedIs, RecordedGrows
  <2> QED BY <1>1, <2>1, <2>2
<1>7. TypeOK
  <2>1. fed \in [Times -> Nat]
    BY <1>1
  <2>2. job \in [number : 0..MaxJobs, started : Times]
    BY <1>1, <1>2, BoundsAssumption
  <2>3. /\ now \in Times /\ flow \in Rates \union {0} /\ open \in Segment \union {NoSegment}
        /\ label \in Labels \union {Label} /\ used \in Nat /\ gone \in Nat /\ base \in Int
    BY <1>1, <1>2, <1>3
  <2>4. empty \in BOOLEAN /\ doubt \in BOOLEAN
    BY <1>1
  <2> QED BY <1>4, <1>6, <2>1, <2>2, <2>3, <2>4 DEF TypeOK
<1>8. /\ DeltaSum(records) = used /\ StandSum(records) = 0
       /\ \A i \in DOMAIN records : Consistent(records[i])
  <2> DEFINE before == <<>>
  <2>1. /\ before \in Seq(Record) /\ DOMAIN before = {}
        /\ DeltaSum(before) = 0 /\ StandSum(before) = 0
    BY SumEmpty DEF DeltaSum, StandSum
  <2>2. CASE used = 0
    BY <1>1, <2>1, <2>2
  <2>3. CASE used # 0
    <3>1. Grows(before, records, r) /\ records = Recorded(before, r)
      BY <1>1, <1>6, <2>3
    <3> HIDE DEF before
    <3>2. DeltaSum(records) = used
      <4>1. DeltaSum(records) = DeltaSum(before) + r.delta
        BY <1>5, <2>1, <3>1, GrownSum
      <4> QED BY <1>3, <1>5, <2>1, <4>1
    <3>3. Stands(r) = 0 /\ Consistent(r)
      BY <1>1, <1>5 DEF Stands, Consistent
    <3>4. \A i \in DOMAIN before : Consistent(before[i])
      BY <2>1
    <3>5. /\ StandSum(records) = StandSum(before) + Stands(r)
          /\ \A i \in DOMAIN records : Consistent(records[i])
      BY <1>5, <1>7, <2>1, <3>1, <3>3, <3>4, RecordedStands
    <3> QED BY <2>1, <3>2, <3>3, <3>5
  <2> QED BY <2>2, <2>3
<1>9. FeedOK
  BY <1>1, <1>2, <1>3, BoundsAssumption DEF FeedOK, Spent
<1>10. OpenOK /\ QueueOK /\ RecordsOK
  BY <1>1, <1>4, <1>8 DEF OpenOK, QueueOK, RecordsOK
<1>11. Contiguous
  BY <1>1, <1>4 DEF Contiguous
<1>12. WeightSum(queue) = 0 /\ LackSum(fed, BoundaryOf(records), queue) = 0
  BY <1>4, SumEmpty DEF WeightSum, LackSum
<1>13. /\ LackNow(fed, BoundaryOf(records), open, now) = 0 /\ PrintedNow(fed, open, now) = 0
  BY <1>1 DEF LackNow, PrintedNow
<1>14. LedgerAdds
  BY <1>3, <1>8, LedgerIs
<1>15. EmptyHoldsNothing
  BY <1>1 DEF EmptyHoldsNothing
<1>16. BalanceExact
  <2>1. Spent = 0
    BY <1>1, <1>3 DEF Spent
  <2> QED BY <1>1, <1>3, <1>12, <1>13, <2>1, ExactIs
<1>17. JobFact
  BY <1>3, <1>12, <1>13, <1>8, JobFactIs
<1> QED BY <1>7, <1>9, <1>10, <1>11, <1>14, <1>15, <1>16, <1>17, InvIs

LEMMA NextInv == IInv /\ [Next]_vars => IInv'
<1> SUFFICES ASSUME IInv, [Next]_vars PROVE IInv'
  OBVIOUS
<1>1. CASE Tick
  BY <1>1, TickInv
<1>2. CASE StartJob
  BY <1>2, StartJobInv
<1>3. CASE ChangeFlow
  BY <1>3, ChangeFlowInv
<1>4. CASE Capture
  BY <1>4, CaptureInv
<1>5. CASE EndJob
  BY <1>5, EndJobInv
<1>6. CASE Charge
  BY <1>6, ChargeInv
<1>7. CASE Measure
  BY <1>7, MeasureInv
<1>8. CASE StateUsed
  BY <1>8, StateUsedInv
<1>9. CASE EditLabel
  BY <1>9, EditLabelInv
<1>10. CASE WriteOff
  BY <1>10, WriteOffInv
<1>11. CASE Revert
  BY <1>11, RevertInv
<1>12. CASE UNCHANGED vars
  <2> USE <1>12 DEF vars, printer, spool
  <2>1. TypeOK' /\ FeedOK' /\ OpenOK'
    BY InvIs DEF TypeOK, FeedOK, OpenOK, Steady, Spent
  <2>2. QueueOK' /\ RecordsOK'
    BY InvIs DEF QueueOK, Truthful, Steady, RecordsOK, Consistent
  <2>3. Contiguous'
    BY InvIs DEF Contiguous, OpenReport
  <2>4. LedgerAdds' /\ EmptyHoldsNothing'
    BY InvIs DEF LedgerAdds, EmptyHoldsNothing
  <2>5. BalanceExact'
    BY InvIs, ExactIs, ExactIsNext DEF Spent
  <2>6. JobFact'
    BY InvIs, JobFactIs, JobFactIsNext
  <2> QED BY <2>1, <2>2, <2>3, <2>4, <2>5, <2>6, InvIsNext
<1> QED BY <1>1, <1>2, <1>3, <1>4, <1>5, <1>6, <1>7, <1>8, <1>9, <1>10, <1>11, <1>12 DEF Next

LEMMA Invariance == Spec => []IInv
<1>1. Init => IInv
  BY InitInv
<1>2. IInv /\ [Next]_vars => IInv'
  BY NextInv
<1> QED BY <1>1, <1>2, PTL DEF Spec

\* The variables keep their types: in particular the used weight never falls below zero.
THEOREM TypeCorrect == Spec => []TypeOK
<1>1. IInv => TypeOK
  BY InvIs
<1> QED BY <1>1, Invariance, PTL

\* Between two statements of the amount the balance takes what left the spool, each unit
\* once, less what is still under way: for any spool, rates, labels and statements, and
\* however reports, weighings, label edits, write-offs and reversals interleave.
THEOREM BalanceIsExact == Spec => []BalanceExact
<1>1. IInv => BalanceExact
  BY InvIs
<1> QED BY <1>1, Invariance, PTL

\* The used weight is the sum of the spool's history and at most what the label says.
THEOREM HistoryAddsUp == Spec => []LedgerAdds
<1>1. IInv => LedgerAdds
  BY InvIs
<1> QED BY <1>1, Invariance, PTL

\* A spool the cloud takes for empty holds nothing.
THEOREM EmptyIsEmpty == Spec => []EmptyHoldsNothing
<1>1. IInv => EmptyHoldsNothing
  BY InvIs
<1> QED BY <1>1, Invariance, PTL

\* What the jobs are said to have consumed is what was printed, whatever was weighed, and
\* whichever reports were reverted since, in a history without a capped report and without
\* a reverted reversal (JobFact's premise).
THEOREM JobsKeepTheirFact == Spec => []JobFact
<1>1. IInv => JobFact
  BY InvIs
<1> QED BY <1>1, Invariance, PTL
=============================================================================
