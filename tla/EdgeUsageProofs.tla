--------------------------- MODULE EdgeUsageProofs ---------------------------
(***************************************************************************)
(* Proofs about module EdgeUsage, for any routes, files, prints, changes    *)
(* of the feed, restarts and saves that fail.                               *)
(***************************************************************************)
EXTENDS EdgeUsage, Induction

-----------------------------------------------------------------------------
(* The inductive invariant. *)

\* The segments of a job in a log.
Of(log, job) == {i \in DOMAIN log : log[i].job = job}

\* SegmentsInOrder, of any log.
Ordered(log) ==
    \A i \in DOMAIN log :
        LET earlier == {j \in 1..(i - 1) : log[j].job = log[i].job}
        IN /\ log[i].segment = Cardinality(earlier) + 1
           /\ \A j \in earlier : log[j].type = "checkpoint"
           /\ \A j \in 1..(i - 1) : log[j].job <= log[i].job

\* The tracker goes on where the log ends.  Nothing is pending without a route, and
\* nothing after the end.
Continues(p) ==
    LET t == p.tracker
    IN t # NoTracker =>
          /\ t.route # Native
          /\ t.route = NoRoute \/ t.done => t.pending = 0
          /\ t.next = Cardinality(Of(p.log, t.job)) + 1
          /\ \A i \in DOMAIN p.log : p.log[i].job <= t.job
          /\ ~t.done => \A i \in Of(p.log, t.job) : p.log[i].type = "checkpoint"

\* A tracker made in print n of printer p has its file and a counter not above its own.
Traces(t, q, n) ==
    t # NoTracker =>
        /\ t.print <= n
        /\ t.print = n /\ q.state # "standby" => t.file = q.file /\ t.used <= q.used

\* The feed has not come back to the route of a tracker that is not suspended.
Unbroken(t, s) == t # NoTracker /\ ~t.suspended => t.route \in s

\* No route is charged more than it fed (x), also if the next sample charges all that the
\* counter of printer q has advanced.
Covered(p, q, f, x) ==
    LET t == p.tracker
    IN \A r \in Routes :
          /\ ChargedTo(p.log, r) + PendingOn(t, r) <= x[r]
          /\ t # NoTracker /\ ~t.suspended /\ t.route = r /\ f = r /\ t.used < q.used
                => ChargedTo(p.log, r) + t.pending + (q.used - t.used) <= x[r]

\* A tracker made in print n, which runs on one spool, has charged or pending all it saw.
Full(p, f, n, s) ==
    LET t == p.tracker
    IN t # NoTracker /\ t.print = n /\ s /\ f \in Routes =>
          /\ t.route = f /\ ~t.suspended /\ t.base <= t.used
          /\ ChargedFor(p.log, t.job) + t.pending = t.used - t.base

\* What p holds of the tracker and log of the state file.
Sound(p, q, f, n, x, s, st) ==
    /\ Ordered(p.log) /\ Continues(p)
    /\ Traces(p.tracker, q, n) /\ Unbroken(p.tracker, s)
    /\ Covered(p, q, f, x) /\ Full(p, f, n, st)

\* What the tracker of d holds as pending is pending in m too, or in a new event of m,
\* or its print is over.
Keeps(m, d, q, n) ==
    LET t == d.tracker
        u == m.tracker
    IN t # NoTracker /\ t.pending > 0 =>
          \/ /\ u # NoTracker /\ u.job = t.job /\ u.print = t.print
             /\ u.route = t.route /\ u.pending >= t.pending
          \/ \E i \in DOMAIN m.log :
                /\ i > Len(d.log)
                /\ m.log[i].job = t.job /\ m.log[i].route = t.route
                /\ m.log[i].length >= t.pending
          \/ t.print < n \/ q.state = "standby"

IInv ==
    /\ TypeOK
    /\ feed \in since
    /\ Sound(mem, printer, feed, print, extruded, since, steady)
    /\ Sound(disk, printer, feed, print, extruded, since, steady)
    /\ Len(disk.log) <= Len(mem.log)
    /\ Keeps(mem, disk, printer, print)

-----------------------------------------------------------------------------
(* Logs. *)

LEMMA Appended ==
    ASSUME NEW log \in Seq(Event), NEW e \in Event
    PROVE  /\ log \o <<e>> \in Seq(Event)
           /\ Len(log \o <<e>>) = Len(log) + 1
           /\ DOMAIN log = 1..Len(log) /\ DOMAIN (log \o <<e>>) = 1..(Len(log) + 1)
           /\ \A i \in 1..Len(log) : (log \o <<e>>)[i] = log[i]
           /\ (log \o <<e>>)[Len(log) + 1] = e
OBVIOUS

LEMMA NothingAppended ==
    ASSUME NEW log \in Seq(Event)
    PROVE  log \o <<>> = log
OBVIOUS

\* An event adds its length to what its route is charged.
LEMMA ChargedToGrows ==
    ASSUME NEW log \in Seq(Event), NEW e \in Event, NEW r
    PROVE  /\ ChargedTo(log, r) \in Nat
           /\ ChargedTo(log \o <<e>>, r) =
                 ChargedTo(log, r) + (IF e.route = r THEN e.length ELSE 0)
<1> DEFINE n == Len(log)
           more == log \o <<e>>
           F == [i \in DOMAIN log |-> IF log[i].route = r THEN log[i].length ELSE 0]
           G == [i \in DOMAIN more |-> IF more[i].route = r THEN more[i].length ELSE 0]
<1>1. n \in Nat /\ DOMAIN F = 1..n /\ DOMAIN G = 1..(n + 1)
  BY Appended
<1>2. /\ \A i \in 1..n : F[i] \in Nat /\ G[i] = F[i]
      /\ G[n + 1] = IF e.route = r THEN e.length ELSE 0
      /\ G[n + 1] \in Nat
  <2>1. \A i \in 1..n : log[i].length \in Nat /\ more[i] = log[i]
    <3>1. \A i \in 1..n : log[i] \in Event
      OBVIOUS
    <3>2. \A i \in 1..n : log[i].length \in Nat
      BY <3>1 DEF Event
    <3> QED BY <3>2, Appended
  <2>2. \A i \in 1..n : F[i] = IF log[i].route = r THEN log[i].length ELSE 0
    BY Appended
  <2>3. \A i \in 1..(n + 1) : G[i] = IF more[i].route = r THEN more[i].length ELSE 0
    BY Appended
  <2>4. more[n + 1] = e /\ e.length \in Nat /\ n \in Nat
    BY Appended DEF Event
  <2> HIDE DEF n, F, G, more
  <2>5. n + 1 \in 1..(n + 1) /\ \A i \in 1..n : i \in 1..(n + 1)
    BY <2>4
  <2> QED BY <2>1, <2>2, <2>3, <2>4, <2>5
<1>3. IsFiniteSet(1..n)
  BY <1>1, FS_Interval
<1>4. ChargedTo(log, r) = SumFunctionOnSet(F, 1..n)
  BY <1>1, Zenon DEF ChargedTo, SumFunction
<1>5. ChargedTo(more, r) = SumFunctionOnSet(G, 1..(n + 1))
  BY <1>1, Zenon DEF ChargedTo, SumFunction
<1> HIDE DEF n, F, G
<1>6. SumFunctionOnSet(F, 1..n) \in Nat
  BY <1>2, <1>3, SumNat
<1>7. (\A i \in 1..n : F[i] \in Int /\ G[i] = F[i]) /\ G[n + 1] \in Int
  BY <1>2
<1>8. SumFunctionOnSet(G, 1..(n + 1)) = SumFunctionOnSet(F, 1..n) + G[n + 1]
  BY <1>1, <1>7, SumLonger
<1> QED BY <1>2, <1>4, <1>5, <1>6, <1>8, Zenon

\* An event adds its length to what its job is charged.
LEMMA ChargedForGrows ==
    ASSUME NEW log \in Seq(Event), NEW e \in Event, NEW job
    PROVE  /\ ChargedFor(log, job) \in Nat
           /\ ChargedFor(log \o <<e>>, job) =
                 ChargedFor(log, job) + (IF e.job = job THEN e.length ELSE 0)
<1> DEFINE n == Len(log)
           more == log \o <<e>>
           F == [i \in DOMAIN log |-> IF log[i].job = job THEN log[i].length ELSE 0]
           G == [i \in DOMAIN more |-> IF more[i].job = job THEN more[i].length ELSE 0]
<1>1. n \in Nat /\ DOMAIN F = 1..n /\ DOMAIN G = 1..(n + 1)
  BY Appended
<1>2. /\ \A i \in 1..n : F[i] \in Nat /\ G[i] = F[i]
      /\ G[n + 1] = IF e.job = job THEN e.length ELSE 0
      /\ G[n + 1] \in Nat
  <2>1. \A i \in 1..n : log[i].length \in Nat /\ more[i] = log[i]
    <3>1. \A i \in 1..n : log[i] \in Event
      OBVIOUS
    <3>2. \A i \in 1..n : log[i].length \in Nat
      BY <3>1 DEF Event
    <3> QED BY <3>2, Appended
  <2>2. \A i \in 1..n : F[i] = IF log[i].job = job THEN log[i].length ELSE 0
    BY Appended
  <2>3. \A i \in 1..(n + 1) : G[i] = IF more[i].job = job THEN more[i].length ELSE 0
    BY Appended
  <2>4. more[n + 1] = e /\ e.length \in Nat /\ n \in Nat
    BY Appended DEF Event
  <2> HIDE DEF n, F, G, more
  <2>5. n + 1 \in 1..(n + 1) /\ \A i \in 1..n : i \in 1..(n + 1)
    BY <2>4
  <2> QED BY <2>1, <2>2, <2>3, <2>4, <2>5
<1>3. IsFiniteSet(1..n)
  BY <1>1, FS_Interval
<1>4. ChargedFor(log, job) = SumFunctionOnSet(F, 1..n)
  BY <1>1, Zenon DEF ChargedFor, SumFunction
<1>5. ChargedFor(more, job) = SumFunctionOnSet(G, 1..(n + 1))
  BY <1>1, Zenon DEF ChargedFor, SumFunction
<1> HIDE DEF n, F, G
<1>6. SumFunctionOnSet(F, 1..n) \in Nat
  BY <1>2, <1>3, SumNat
<1>7. (\A i \in 1..n : F[i] \in Int /\ G[i] = F[i]) /\ G[n + 1] \in Int
  BY <1>2
<1>8. SumFunctionOnSet(G, 1..(n + 1)) = SumFunctionOnSet(F, 1..n) + G[n + 1]
  BY <1>1, <1>7, SumLonger
<1> QED BY <1>2, <1>4, <1>5, <1>6, <1>8, Zenon

LEMMA ChargedTyped ==
    ASSUME NEW log \in Seq(Event), NEW x
    PROVE  ChargedTo(log, x) \in Nat /\ ChargedFor(log, x) \in Nat
<1> DEFINE e == [job |-> 0, segment |-> 0, type |-> "checkpoint", route |-> NoRoute, length |-> 0]
<1>1. e \in Event
  BY DEF Event, Feeds
<1> HIDE DEF e
<1> QED BY <1>1, ChargedToGrows, ChargedForGrows

\* A job that no event bears is charged nothing and has no segment.
LEMMA NothingYet ==
    ASSUME NEW log \in Seq(Event), NEW job, \A i \in DOMAIN log : log[i].job # job
    PROVE  ChargedFor(log, job) = 0 /\ Of(log, job) = {} /\ Cardinality(Of(log, job)) = 0
<1> DEFINE n == Len(log)
           F == [i \in DOMAIN log |-> IF log[i].job = job THEN log[i].length ELSE 0]
<1>1. n \in Nat /\ DOMAIN F = 1..n
  OBVIOUS
<1>2. \A i \in 1..n : F[i] = 0
  OBVIOUS
<1>3. IsFiniteSet(1..n)
  BY <1>1, FS_Interval
<1>4. ChargedFor(log, job) = SumFunctionOnSet(F, 1..n)
  BY <1>1, Zenon DEF ChargedFor, SumFunction
<1>5. Of(log, job) = {}
  BY DEF Of
<1> HIDE DEF n, F
<1>6. SumFunctionOnSet(F, 1..n) = 0
  BY <1>2, <1>3, SumZero
<1> QED BY <1>4, <1>5, <1>6, FS_EmptySet

\* The segments of a job are those before the last and, if it is its own, the last.
LEMMA OfGrows ==
    ASSUME NEW log \in Seq(Event), NEW e \in Event, NEW job
    PROVE  /\ IsFiniteSet(Of(log, job)) /\ Cardinality(Of(log, job)) \in Nat
           /\ Of(log, job) = {j \in 1..Len(log) : log[j].job = job}
           /\ Of(log \o <<e>>, job) = IF e.job = job THEN Of(log, job) \union {Len(log) + 1}
                                      ELSE Of(log, job)
           /\ Cardinality(Of(log \o <<e>>, job)) =
                 Cardinality(Of(log, job)) + (IF e.job = job THEN 1 ELSE 0)
<1>1. IsFiniteSet(Of(log, job)) /\ Cardinality(Of(log, job)) \in Nat
  <2>1. Len(log) \in Nat /\ Of(log, job) \subseteq 1..Len(log)
    BY Appended DEF Of
  <2>2. IsFiniteSet(1..Len(log))
    BY <2>1, FS_Interval
  <2>3. IsFiniteSet(Of(log, job))
    BY <2>1, <2>2, FS_Subset
  <2> QED BY <2>3, FS_CardinalityType
<1>2. Of(log, job) = {j \in 1..Len(log) : log[j].job = job}
  BY Appended DEF Of
<1>3. Of(log \o <<e>>, job) = IF e.job = job THEN Of(log, job) \union {Len(log) + 1}
                              ELSE Of(log, job)
  <2>1. Of(log \o <<e>>, job) = {j \in 1..(Len(log) + 1) : (log \o <<e>>)[j].job = job}
    BY Appended DEF Of
  <2>2. 1..(Len(log) + 1) = (1..Len(log)) \union {Len(log) + 1} /\ Len(log) + 1 \notin 1..Len(log)
    OBVIOUS
  <2>3. \A j \in 1..Len(log) : (log \o <<e>>)[j] = log[j]
    BY Appended
  <2>4. (log \o <<e>>)[Len(log) + 1] = e
    BY Appended
  <2> DEFINE more == log \o <<e>>
  <2> HIDE DEF more
  <2> QED BY <1>2, <2>1, <2>2, <2>3, <2>4 DEF more
<1>4. Len(log) + 1 \notin Of(log, job)
  BY <1>2
<1>5. Cardinality(Of(log, job) \union {Len(log) + 1}) = Cardinality(Of(log, job)) + 1
  BY <1>1, <1>4, FS_AddElement
<1> QED BY <1>1, <1>2, <1>3, <1>5

\* The log stays in order when its job's next segment follows.
LEMMA OrderedGrows ==
    ASSUME NEW log \in Seq(Event), NEW e \in Event, Ordered(log),
           \A i \in DOMAIN log : log[i].job <= e.job,
           e.segment = Cardinality(Of(log, e.job)) + 1,
           \A i \in Of(log, e.job) : log[i].type = "checkpoint"
    PROVE  Ordered(log \o <<e>>)
<1> DEFINE more == log \o <<e>>
           Before(l, i) == {j \in 1..(i - 1) : l[j].job = l[i].job}
           InOrder(l, i) ==
              /\ l[i].segment = Cardinality(Before(l, i)) + 1
              /\ \A j \in Before(l, i) : l[j].type = "checkpoint"
              /\ \A j \in 1..(i - 1) : l[j].job <= l[i].job
<1>1. Len(log) \in Nat /\ DOMAIN log = 1..Len(log) /\ DOMAIN more = 1..(Len(log) + 1)
      /\ (\A i \in 1..Len(log) : more[i] = log[i]) /\ more[Len(log) + 1] = e
  BY Appended
<1>2. \A i \in DOMAIN log : InOrder(log, i)
  BY DEF Ordered
<1>3. Of(log, e.job) = {j \in 1..Len(log) : log[j].job = e.job}
  BY OfGrows
<1> HIDE DEF more
<1>4. ASSUME NEW i \in 1..Len(log) PROVE InOrder(more, i)
  <2>1. \A j \in 1..(i - 1) : j \in 1..Len(log) /\ more[j] = log[j]
    BY <1>1
  <2>2. more[i] = log[i]
    BY <1>1
  <2>3. Before(more, i) = Before(log, i)
    BY <2>1, <2>2
  <2>4. InOrder(log, i)
    BY <1>1, <1>2
  <2> QED BY <2>1, <2>2, <2>3, <2>4
<1>5. InOrder(more, Len(log) + 1)
  <2>1. (Len(log) + 1) - 1 = Len(log)
    BY <1>1
  <2>2. Before(more, Len(log) + 1) = Of(log, e.job)
    BY <1>1, <1>3, <2>1
  <2>3. \A j \in Of(log, e.job) : more[j].type = "checkpoint"
    BY <1>1, <1>3
  <2>4. \A j \in 1..Len(log) : more[j].job <= e.job
    BY <1>1
  <2> QED BY <1>1, <2>1, <2>2, <2>3, <2>4
<1>6. \A i \in DOMAIN more : InOrder(more, i)
  <2>1. \A i \in 1..(Len(log) + 1) : i \in 1..Len(log) \/ i = Len(log) + 1
    BY <1>1
  <2> QED BY <1>1, <1>4, <1>5, <2>1
<1> QED BY <1>6, Zenon DEF Ordered, more

-----------------------------------------------------------------------------
(* A new job. *)

LEMMA JobsBounded ==
    ASSUME NEW log \in Seq(Event), Ordered(log)
    PROVE  \E n \in Nat : \A i \in DOMAIN log : log[i].job \in 0..n
<1>1. \A i \in DOMAIN log : log[i].job \in Nat
  <2>1. \A i \in DOMAIN log : log[i] \in Event
    OBVIOUS
  <2> QED BY <2>1 DEF Event
<1>2. Len(log) \in Nat /\ DOMAIN log = 1..Len(log)
  OBVIOUS
<1>3. CASE Len(log) = 0
  <2>1. DOMAIN log = {}
    BY <1>2, <1>3
  <2> QED BY <2>1
<1>4. CASE Len(log) # 0
  <2> DEFINE k == Len(log)
  <2>1. k \in DOMAIN log
    BY <1>2, <1>4
  <2>2. \A j \in 1..(k - 1) : log[j].job <= log[k].job
    BY <2>1 DEF Ordered
  <2>3. \A j \in DOMAIN log : j \in 1..(k - 1) \/ j = k
    BY <1>2
  <2>4. log[k].job \in Nat
    BY <1>1, <2>1
  <2>5. ASSUME NEW i \in DOMAIN log PROVE log[i].job \in 0..log[k].job
    <3>1. log[i].job \in Nat /\ log[i].job <= log[k].job
      BY <1>1, <2>2, <2>3, <2>4
    <3> QED BY <2>4, <3>1
  <2> QED BY <2>4, <2>5
<1> QED BY <1>3, <1>4

\* A new job is above every job in memory that has evidence.
LEMMA NewJobIsNew ==
    ASSUME mem \in EdgeState, disk \in EdgeState, Ordered(mem.log), Ordered(disk.log)
    PROVE  /\ NewJob \in Nat
           /\ \A i \in DOMAIN mem.log : mem.log[i].job < NewJob
           /\ mem.tracker # NoTracker /\ mem.tracker.pending > 0 => mem.tracker.job < NewJob
<1> DEFINE logged == {e.job : e \in Range(mem.log) \union Range(disk.log)}
           tracked == {t.job : t \in {t \in {mem.tracker, disk.tracker} \ {NoTracker} : t.pending > 0}}
           T == {0} \union logged \union tracked
<1>1. /\ mem.log \in Seq(Event) /\ disk.log \in Seq(Event)
      /\ mem.tracker \in Tracker \union {NoTracker}
      /\ disk.tracker \in Tracker \union {NoTracker}
  BY DEF EdgeState
<1>2. PICK m \in Nat : \A i \in DOMAIN mem.log : mem.log[i].job \in 0..m
  BY <1>1, JobsBounded
<1>3. PICK d \in Nat : \A i \in DOMAIN disk.log : disk.log[i].job \in 0..d
  BY <1>1, JobsBounded
<1>4. PICK a \in Nat : mem.tracker # NoTracker => mem.tracker.job \in 0..a
  <2>1. CASE mem.tracker = NoTracker
    BY <2>1
  <2>2. CASE mem.tracker # NoTracker
    <3>1. mem.tracker.job \in Nat
      BY <1>1, <2>2 DEF Tracker
    <3> QED BY <3>1
  <2> QED BY <2>1, <2>2
<1>5. PICK b \in Nat : disk.tracker # NoTracker => disk.tracker.job \in 0..b
  <2>1. CASE disk.tracker = NoTracker
    BY <2>1
  <2>2. CASE disk.tracker # NoTracker
    <3>1. disk.tracker.job \in Nat
      BY <1>1, <2>2 DEF Tracker
    <3> QED BY <3>1
  <2> QED BY <2>1, <2>2
<1>6. \A x \in logged : x \in 0..m \/ x \in 0..d
  <2>1. ASSUME NEW e \in Range(mem.log) \union Range(disk.log)
        PROVE  e.job \in 0..m \/ e.job \in 0..d
    <3>1. (\E i \in DOMAIN mem.log : e = mem.log[i]) \/ (\E i \in DOMAIN disk.log : e = disk.log[i])
      BY Zenon DEF Range
    <3> QED BY <1>2, <1>3, <3>1
  <2> QED BY <2>1
<1>7. \A x \in tracked : x \in 0..a \/ x \in 0..b
  BY <1>4, <1>5
<1> DEFINE n == m + d + a + b
<1>8. n \in Nat /\ T \in SUBSET (0..n) /\ T # {}
  <2> HIDE DEF logged, tracked
  <2> QED BY <1>6, <1>7
<1>9. Max(T) \in T /\ \A y \in T : y <= Max(T)
  <2> HIDE DEF n, T
  <2> QED BY <1>8, Greatest
<1>10. NewJob = 1 + Max(T)
  BY Zenon DEF NewJob
<1>11. \A i \in DOMAIN mem.log : mem.log[i].job \in T
  <2>1. \A i \in DOMAIN mem.log : mem.log[i] \in Range(mem.log)
    BY Zenon DEF Range
  <2> QED BY <2>1, Zenon
<1>12. mem.tracker # NoTracker /\ mem.tracker.pending > 0 => mem.tracker.job \in T
  OBVIOUS
<1>13. Max(T) \in Nat
  BY <1>8, <1>9
<1> HIDE DEF T, n
<1>14. \A i \in DOMAIN mem.log : mem.log[i].job \in Nat /\ mem.log[i].job <= Max(T)
  BY <1>2, <1>9, <1>11
<1>15. mem.tracker # NoTracker /\ mem.tracker.pending > 0
          => mem.tracker.job \in Nat /\ mem.tracker.job <= Max(T)
  BY <1>4, <1>9, <1>12
<1> QED BY <1>10, <1>13, <1>14, <1>15

-----------------------------------------------------------------------------
(* What a sample may do to the tracker and the log, step by step. *)

\* The printer, its feed and its history.
Env ==
    /\ printer \in [state : {"standby"} \union Active \union Ended,
                    file : Files \union {NoFile}, used : Nat]
    /\ feed \in Feeds /\ since \subseteq Feeds /\ feed \in since
    /\ disk \in EdgeState
    /\ print \in Nat
    /\ extruded \in [Routes -> Nat]

\* What an Edge state has to be like next to the present state file.
Good(p) ==
    /\ p \in EdgeState
    /\ Sound(p, printer, feed, print, extruded, since, steady)
    /\ Len(disk.log) <= Len(p.log)
    /\ Keeps(p, disk, printer, print)

LEMMA TrackerTyped ==
    ASSUME NEW t \in Tracker
    PROVE  /\ t.job \in Nat /\ t.used \in Nat /\ t.route \in Feeds /\ t.next \in Nat
           /\ t.pending \in Nat /\ t.done \in BOOLEAN /\ t.suspended \in BOOLEAN
           /\ t.print \in Nat /\ t.base \in Nat /\ t.state \in Active \union Ended
           /\ t.file \in Files \union {NoFile} /\ t # NoTracker
BY NoTrackerAssumption DEF Tracker

\* The fields of a state that is taken as it stands.
LEMMA StateIs ==
    ASSUME NEW t, NEW log
    PROVE  [tracker |-> t, log |-> log].tracker = t /\ [tracker |-> t, log |-> log].log = log
OBVIOUS

LEMMA Advanced ==
    ASSUME NEW t \in Tracker, NEW n \in Nat, NEW k \in Nat, NEW b \in BOOLEAN
    PROVE  [t EXCEPT !.next = n, !.pending = k, !.done = b] \in Tracker
BY DEF Tracker

\* The pending length becomes an event, which may be the last one.
LEMMA ChargeGood ==
    ASSUME Env, NEW t \in Tracker, NEW log \in Seq(Event),
           Good([tracker |-> t, log |-> log]), ~t.done,
           NEW type \in {"checkpoint", "terminal"},
           NEW e, e = EventOf(t, t.next, type, t.route, t.pending),
           NEW u, u = [t EXCEPT !.next = @ + 1, !.pending = 0, !.done = (type = "terminal")]
    PROVE  u \in Tracker /\ Good([tracker |-> u, log |-> log \o <<e>>])
<1> DEFINE p == [tracker |-> t, log |-> log]
           more == log \o <<e>>
           q == [tracker |-> u, log |-> more]
<1>1. p.tracker = t /\ p.log = log /\ q.tracker = u /\ q.log = more
  BY StateIs
<1>2. /\ t.job \in Nat /\ t.used \in Nat /\ t.route \in Feeds /\ t.next \in Nat
      /\ t.pending \in Nat /\ t.done \in BOOLEAN /\ t.suspended \in BOOLEAN
      /\ t.print \in Nat /\ t.base \in Nat /\ t.state \in Active \union Ended
      /\ t.file \in Files \union {NoFile} /\ t # NoTracker
  BY TrackerTyped
<1>3. /\ u \in Tracker
      /\ u.next = t.next + 1 /\ u.pending = 0 /\ u.done = (type = "terminal")
      /\ u.job = t.job /\ u.file = t.file /\ u.state = t.state /\ u.used = t.used
      /\ u.route = t.route /\ u.suspended = t.suspended /\ u.print = t.print /\ u.base = t.base
  <2> DEFINE ends == type = "terminal"
  <2>1. ends \in BOOLEAN /\ t.next + 1 \in Nat
    BY <1>2
  <2> HIDE DEF ends
  <2>2. u = [t EXCEPT !.next = t.next + 1, !.pending = 0, !.done = ends]
    BY DEF ends
  <2>3. u.done = ends
    BY <2>2, Zenon DEF Tracker
  <2>6. u \in Tracker
    <3>1. 0 \in Nat
      OBVIOUS
    <3>2. [t EXCEPT !.next = t.next + 1, !.pending = 0, !.done = ends] \in Tracker
      BY <2>1, <3>1, Advanced, Zenon
    <3> QED BY <2>2, <3>2, Zenon
  <2>4. /\ u.next = t.next + 1 /\ u.pending = 0
        /\ u.job = t.job /\ u.file = t.file /\ u.state = t.state /\ u.used = t.used
    BY <2>2 DEF Tracker
  <2>5. u.route = t.route /\ u.suspended = t.suspended /\ u.print = t.print /\ u.base = t.base
    BY <2>2 DEF Tracker
  <2> QED BY <2>3, <2>4, <2>5, <2>6, Zenon DEF ends
<1>4. u # NoTracker
  BY <1>3, TrackerTyped
<1>5. /\ e \in Event /\ e.job = t.job /\ e.segment = t.next /\ e.type = type
      /\ e.length = t.pending /\ e.route = IF t.pending > 0 THEN t.route ELSE NoRoute
  BY <1>2 DEF EventOf, Event, Feeds
<1>6. /\ more \in Seq(Event) /\ Len(more) = Len(log) + 1 /\ Len(log) \in Nat
      /\ DOMAIN log = 1..Len(log) /\ DOMAIN more = 1..(Len(log) + 1)
      /\ \A i \in 1..Len(log) : more[i] = log[i]
      /\ more[Len(log) + 1] = e
  BY <1>5, Appended
<1>7. /\ Sound(p, printer, feed, print, extruded, since, steady)
      /\ Len(disk.log) <= Len(log) /\ Keeps(p, disk, printer, print)
  BY <1>1 DEF Good
<1> HIDE DEF p, q, more
<1>8. /\ Ordered(log) /\ Continues(p) /\ Traces(t, printer, print) /\ Unbroken(t, since)
      /\ Covered(p, printer, feed, extruded) /\ Full(p, feed, print, steady)
  BY <1>1, <1>7 DEF Sound
<1>9. /\ t.route # Native /\ (t.route = NoRoute => t.pending = 0)
      /\ t.next = Cardinality(Of(log, t.job)) + 1
      /\ \A i \in DOMAIN log : log[i].job <= t.job
      /\ \A i \in Of(log, t.job) : log[i].type = "checkpoint"
  BY <1>1, <1>2, <1>8 DEF Continues
<1>10. Ordered(more)
  BY <1>5, <1>8, <1>9, OrderedGrows DEF more
<1>11. Continues(q)
  <2>1. Cardinality(Of(more, t.job)) = Cardinality(Of(log, t.job)) + 1
        /\ Cardinality(Of(log, t.job)) \in Nat
        /\ Of(more, t.job) = Of(log, t.job) \union {Len(log) + 1}
        /\ Of(log, t.job) = {j \in 1..Len(log) : log[j].job = t.job}
    BY <1>5, OfGrows, ZenonT(40) DEF more
  <2>2. u.next = Cardinality(Of(more, u.job)) + 1
    BY <1>3, <1>9, <2>1
  <2>3. \A i \in DOMAIN more : more[i].job <= u.job
    <3>1. \A i \in 1..(Len(log) + 1) : i \in 1..Len(log) \/ i = Len(log) + 1
      BY <1>6
    <3> QED BY <1>2, <1>3, <1>5, <1>6, <1>9, <3>1
  <2>4. ASSUME ~u.done PROVE \A i \in Of(more, u.job) : more[i].type = "checkpoint"
    <3>1. e.type = "checkpoint"
      BY <1>3, <1>5, <2>4
    <3>2. \A i \in Of(log, t.job) : more[i].type = "checkpoint"
      BY <1>6, <1>9, <2>1
    <3> QED BY <1>3, <1>6, <2>1, <3>1, <3>2
  <2> QED BY <1>1, <1>3, <1>9, <2>2, <2>3, <2>4 DEF Continues
<1>12. Traces(u, printer, print) /\ Unbroken(u, since)
  BY <1>2, <1>3, <1>8 DEF Traces, Unbroken
<1>13. Covered(q, printer, feed, extruded)
  <2> SUFFICES ASSUME NEW r \in Routes
               PROVE  /\ ChargedTo(more, r) + PendingOn(u, r) <= extruded[r]
                      /\ u # NoTracker /\ ~u.suspended /\ u.route = r /\ feed = r
                            /\ u.used < printer.used
                         => ChargedTo(more, r) + u.pending + (printer.used - u.used) <= extruded[r]
    BY <1>1 DEF Covered
  <2>1. /\ ChargedTo(log, r) \in Nat
        /\ ChargedTo(more, r) = ChargedTo(log, r) + (IF e.route = r THEN e.length ELSE 0)
    BY <1>5, ChargedToGrows DEF more
  <2>2. r # NoRoute
    BY NamesAssumption
  <2>3. /\ ChargedTo(log, r) + PendingOn(t, r) <= extruded[r]
        /\ ~t.suspended /\ t.route = r /\ feed = r /\ t.used < printer.used
             => ChargedTo(log, r) + t.pending + (printer.used - t.used) <= extruded[r]
    BY <1>1, <1>2, <1>8 DEF Covered
  <2>4. PendingOn(u, r) = 0 /\ PendingOn(t, r) = IF t.route = r THEN t.pending ELSE 0
    BY <1>2, <1>3, <1>4 DEF PendingOn
  <2>5. ChargedTo(more, r) = ChargedTo(log, r) + PendingOn(t, r)
    BY <1>2, <1>5, <2>1, <2>2, <2>4
  <2>6. printer.used \in Nat /\ extruded[r] \in Nat
    BY DEF Env
  <2>7. ChargedTo(more, r) + PendingOn(u, r) <= extruded[r]
    BY <1>2, <2>1, <2>3, <2>4, <2>5, <2>6
  <2>8. ASSUME ~u.suspended, u.route = r, feed = r, u.used < printer.used
        PROVE  ChargedTo(more, r) + u.pending + (printer.used - u.used) <= extruded[r]
    <3>1. ChargedTo(log, r) + t.pending + (printer.used - t.used) <= extruded[r]
      BY <1>3, <2>3, <2>8
    <3> QED BY <1>2, <1>3, <2>1, <2>4, <2>5, <2>6, <2>8, <3>1
  <2> QED BY <2>7, <2>8
<1>14. Full(q, feed, print, steady)
  <2> SUFFICES ASSUME t.print = print, steady, feed \in Routes
               PROVE  /\ u.route = feed /\ ~u.suspended /\ u.base <= u.used
                      /\ ChargedFor(more, u.job) + u.pending = u.used - u.base
    BY <1>1, <1>3 DEF Full
  <2>1. /\ t.route = feed /\ ~t.suspended /\ t.base <= t.used
        /\ ChargedFor(log, t.job) + t.pending = t.used - t.base
    BY <1>1, <1>2, <1>8 DEF Full
  <2>2. /\ ChargedFor(log, t.job) \in Nat
        /\ ChargedFor(more, t.job) = ChargedFor(log, t.job) + t.pending
    BY <1>5, ChargedForGrows DEF more
  <2> QED BY <1>2, <1>3, <2>1, <2>2
<1>15. Keeps(q, disk, printer, print)
  <2> DEFINE d == disk.tracker
  <2> SUFFICES ASSUME d # NoTracker, d.pending > 0, ~ (d.print < print \/ printer.state = "standby")
               PROVE  \E i \in DOMAIN more :
                         /\ i > Len(disk.log)
                         /\ more[i].job = d.job /\ more[i].route = d.route
                         /\ more[i].length >= d.pending
    BY <1>1 DEF Keeps
  <2>1. \/ t.job = d.job /\ t.print = d.print /\ t.route = d.route /\ t.pending >= d.pending
        \/ \E i \in DOMAIN log : /\ i > Len(disk.log)
                                 /\ log[i].job = d.job /\ log[i].route = d.route
                                 /\ log[i].length >= d.pending
    BY <1>1, <1>7 DEF Keeps
  <2>2. CASE t.job = d.job /\ t.print = d.print /\ t.route = d.route /\ t.pending >= d.pending
    <3>1. d \in Tracker /\ Len(disk.log) \in Nat
      BY DEF Env, EdgeState
    <3>2. d.pending \in Nat
      BY <3>1, TrackerTyped
    <3>3. e.route = d.route /\ e.job = d.job /\ e.length >= d.pending
      BY <1>2, <1>5, <2>2, <3>2
    <3>4. Len(log) + 1 \in DOMAIN more /\ Len(log) + 1 > Len(disk.log)
      BY <1>6, <1>7, <3>1
    <3> QED BY <1>6, <3>3, <3>4
  <2>3. CASE \E i \in DOMAIN log : /\ i > Len(disk.log)
                                   /\ log[i].job = d.job /\ log[i].route = d.route
                                   /\ log[i].length >= d.pending
    BY <1>6, <2>3
  <2> QED BY <2>1, <2>2, <2>3
<1>16. q \in EdgeState
  BY <1>3, <1>6 DEF q, EdgeState
<1>17. Len(disk.log) <= Len(more)
  <2>1. Len(disk.log) \in Nat
    BY DEF Env, EdgeState
  <2> QED BY <1>6, <1>7, <2>1
<1>18. Sound(q, printer, feed, print, extruded, since, steady)
  BY <1>1, <1>10, <1>11, <1>12, <1>13, <1>14 DEF Sound
<1>19. Good(q)
  BY <1>1, <1>15, <1>16, <1>17, <1>18 DEF Good
<1> QED BY <1>3, <1>19 DEF q, more

LEMMA PendingTyped ==
    ASSUME NEW t \in Tracker \union {NoTracker}, NEW r
    PROVE  /\ PendingOn(t, r) \in Nat
           /\ t # NoTracker => PendingOn(t, r) = IF t.route = r THEN t.pending ELSE 0
<1>1. t # NoTracker => t.pending \in Nat
  BY TrackerTyped
<1> QED BY <1>1 DEF PendingOn

\* What is known of a state that fits.
LEMMA GoodIs ==
    ASSUME NEW t, NEW log, Good([tracker |-> t, log |-> log])
    PROVE  /\ Ordered(log) /\ Continues([tracker |-> t, log |-> log])
           /\ Traces(t, printer, print) /\ Unbroken(t, since)
           /\ Covered([tracker |-> t, log |-> log], printer, feed, extruded)
           /\ Full([tracker |-> t, log |-> log], feed, print, steady)
           /\ Len(disk.log) <= Len(log) /\ Keeps([tracker |-> t, log |-> log], disk, printer, print)
<1> DEFINE p == [tracker |-> t, log |-> log]
<1>1. p.tracker = t /\ p.log = log
  BY StateIs
<1> HIDE DEF p
<1>2. Good(p)
  BY DEF p
<1> QED BY <1>1, <1>2 DEF Good, Sound, p

LEMMA IsGood ==
    ASSUME NEW t \in Tracker \union {NoTracker}, NEW log \in Seq(Event),
           Ordered(log), Continues([tracker |-> t, log |-> log]),
           Traces(t, printer, print), Unbroken(t, since),
           Covered([tracker |-> t, log |-> log], printer, feed, extruded),
           Full([tracker |-> t, log |-> log], feed, print, steady),
           Len(disk.log) <= Len(log), Keeps([tracker |-> t, log |-> log], disk, printer, print)
    PROVE  Good([tracker |-> t, log |-> log])
<1> DEFINE p == [tracker |-> t, log |-> log]
<1>1. p.tracker = t /\ p.log = log
  BY StateIs
<1>2. p \in EdgeState
  BY DEF EdgeState
<1> HIDE DEF p
<1>3. /\ Continues(p) /\ Covered(p, printer, feed, extruded) /\ Full(p, feed, print, steady)
      /\ Keeps(p, disk, printer, print)
  BY DEF p
<1>4. Good(p)
  BY <1>1, <1>2, <1>3 DEF Good, Sound
<1> QED BY <1>4 DEF p

LEMMA Sampling ==
    ASSUME NEW t \in Tracker, NEW state \in Active \union Ended, NEW n \in Nat,
           NEW route \in Feeds, NEW k \in Nat
    PROVE  [t EXCEPT !.state = state, !.used = n, !.route = route, !.pending = k] \in Tracker
BY DEF Tracker

\* A reading of the tracked job, whose length is not yet an event.
LEMMA SampleGood ==
    ASSUME Env, NEW t \in Tracker, NEW log \in Seq(Event),
           Good([tracker |-> t, log |-> log]), ~t.done, ~t.suspended, SameJob(t),
           feed # Native, printer.state # "standby",
           t.route \notin {feed, NoRoute} => t.pending = 0,
           NEW u, u = [t EXCEPT !.state = printer.state, !.used = printer.used, !.route = feed,
                                !.pending = Attributed(t)]
    PROVE  u \in Tracker /\ Good([tracker |-> u, log |-> log])
<1> DEFINE p == [tracker |-> t, log |-> log]
           q == [tracker |-> u, log |-> log]
<1>1. p.tracker = t /\ p.log = log /\ q.tracker = u /\ q.log = log
  BY StateIs
<1>2. /\ t.job \in Nat /\ t.used \in Nat /\ t.route \in Feeds /\ t.next \in Nat
      /\ t.pending \in Nat /\ t.done \in BOOLEAN /\ t.suspended \in BOOLEAN
      /\ t.print \in Nat /\ t.base \in Nat /\ t.state \in Active \union Ended
      /\ t.file \in Files \union {NoFile} /\ t # NoTracker
  BY TrackerTyped
<1>3. /\ printer.used \in Nat /\ printer.state \in Active \union Ended /\ feed \in Feeds
      /\ printer.used >= t.used /\ feed \in since
  BY DEF Env, SameJob
<1>4. /\ Attributed(t) = IF t.route # feed THEN 0
                         ELSE IF feed = NoRoute THEN t.pending
                         ELSE t.pending + (printer.used - t.used)
      /\ Attributed(t) \in Nat
  BY <1>2, <1>3 DEF Attributed
<1>5. /\ u \in Tracker
      /\ u.used = printer.used /\ u.route = feed /\ u.pending = Attributed(t)
      /\ u.job = t.job /\ u.file = t.file /\ u.next = t.next /\ u.print = t.print
      /\ u.base = t.base /\ (u.done <=> t.done) /\ (u.suspended <=> t.suspended)
  <2> DEFINE k == Attributed(t)
  <2> HIDE DEF k
  <2>1. u = [t EXCEPT !.state = printer.state, !.used = printer.used, !.route = feed, !.pending = k]
    BY DEF k
  <2>2. u \in Tracker
    <3>1. k \in Nat
      BY <1>4 DEF k
    <3>2. [t EXCEPT !.state = printer.state, !.used = printer.used, !.route = feed, !.pending = k]
             \in Tracker
      BY <1>3, <3>1, Sampling, Zenon
    <3> QED BY <2>1, <3>2, Zenon
  <2>3. /\ u.used = printer.used /\ u.route = feed /\ u.pending = k
        /\ u.job = t.job /\ u.file = t.file /\ u.next = t.next /\ u.print = t.print
        /\ u.base = t.base
    BY <2>1 DEF Tracker
  <2>4. u.done = t.done /\ u.suspended = t.suspended
    BY <2>1 DEF Tracker
  <2> QED BY <2>2, <2>3, <2>4 DEF k
<1>6. u # NoTracker
  BY <1>5, TrackerTyped
<1>7. /\ Ordered(log) /\ Continues(p) /\ Traces(t, printer, print) /\ Unbroken(t, since)
      /\ Covered(p, printer, feed, extruded) /\ Full(p, feed, print, steady)
      /\ Len(disk.log) <= Len(log) /\ Keeps(p, disk, printer, print)
  BY GoodIs
<1> HIDE DEF p, q
<1>8. /\ t.route = NoRoute => t.pending = 0
      /\ t.next = Cardinality(Of(log, t.job)) + 1
      /\ \A i \in DOMAIN log : log[i].job <= t.job
      /\ \A i \in Of(log, t.job) : log[i].type = "checkpoint"
  BY <1>1, <1>2, <1>7 DEF Continues
<1>9. Continues(q)
  <2>1. u.route = NoRoute => u.pending = 0
    BY <1>4, <1>5, <1>8
  <2> QED BY <1>1, <1>5, <1>8, <2>1 DEF Continues
<1>10. Traces(u, printer, print) /\ Unbroken(u, since)
  BY <1>2, <1>3, <1>5, <1>7 DEF Traces, Unbroken
<1>11. Covered(q, printer, feed, extruded)
  <2> SUFFICES ASSUME NEW r \in Routes
               PROVE  ChargedTo(log, r) + PendingOn(u, r) <= extruded[r]
    BY <1>1, <1>3, <1>5 DEF Covered
  <2>1. /\ ChargedTo(log, r) + PendingOn(t, r) <= extruded[r]
        /\ t.route = r /\ feed = r /\ t.used < printer.used
             => ChargedTo(log, r) + t.pending + (printer.used - t.used) <= extruded[r]
    BY <1>1, <1>2, <1>7 DEF Covered
  <2>2. ChargedTo(log, r) \in Nat
    BY ChargedTyped
  <2>3. /\ PendingOn(t, r) = IF t.route = r THEN t.pending ELSE 0
        /\ PendingOn(u, r) = IF feed = r THEN Attributed(t) ELSE 0
    BY <1>2, <1>5, <1>6 DEF PendingOn
  <2>4. r # NoRoute /\ extruded[r] \in Nat
    BY NamesAssumption DEF Env
  <2>5. CASE t.route = r /\ feed = r
    <3>1. CASE t.used < printer.used
      BY <1>2, <1>3, <1>4, <2>1, <2>2, <2>3, <2>4, <2>5, <3>1
    <3>2. CASE ~ (t.used < printer.used)
      BY <1>2, <1>3, <1>4, <2>1, <2>2, <2>3, <2>4, <2>5, <3>2
    <3> QED BY <3>1, <3>2
  <2>6. CASE ~ (t.route = r /\ feed = r)
    BY <1>2, <1>4, <2>1, <2>2, <2>3, <2>4, <2>6
  <2> QED BY <2>5, <2>6
<1>12. Full(q, feed, print, steady)
  <2> SUFFICES ASSUME t.print = print, steady, feed \in Routes
               PROVE  /\ u.route = feed /\ ~u.suspended /\ u.base <= u.used
                      /\ ChargedFor(log, u.job) + u.pending = u.used - u.base
    BY <1>1, <1>5 DEF Full
  <2>1. /\ t.route = feed /\ ~t.suspended /\ t.base <= t.used
        /\ ChargedFor(log, t.job) + t.pending = t.used - t.base
    BY <1>1, <1>2, <1>7 DEF Full
  <2>2. ChargedFor(log, t.job) \in Nat
    BY ChargedTyped
  <2>3. feed # NoRoute
    BY NamesAssumption
  <2> QED BY <1>2, <1>3, <1>4, <1>5, <2>1, <2>2, <2>3, SMTT(30)
<1>13. Keeps(q, disk, printer, print)
  <2> DEFINE d == disk.tracker
             Written == \E i \in DOMAIN log :
                           /\ i > Len(disk.log)
                           /\ log[i].job = d.job /\ log[i].route = d.route
                           /\ log[i].length >= d.pending
  <2> SUFFICES ASSUME d # NoTracker, d.pending > 0, ~ (d.print < print \/ printer.state = "standby")
               PROVE  \/ /\ u.job = d.job /\ u.print = d.print
                         /\ u.route = d.route /\ u.pending >= d.pending
                      \/ Written
    BY <1>1, <1>6 DEF Keeps
  <2>1. \/ t.job = d.job /\ t.print = d.print /\ t.route = d.route /\ t.pending >= d.pending
        \/ Written
    BY <1>1, <1>7 DEF Keeps
  <2>2. d.pending \in Nat
    <3>1. d \in Tracker
      BY DEF Env, EdgeState
    <3> QED BY <3>1, TrackerTyped
  <2> HIDE DEF d, Written
  <2>3. CASE t.job = d.job /\ t.print = d.print /\ t.route = d.route /\ t.pending >= d.pending
    <3>1. t.pending > 0
      BY <1>2, <2>2, <2>3
    <3>2. t.route = feed /\ feed # NoRoute
      BY <1>8, <3>1
    <3> QED BY <1>2, <1>3, <1>4, <1>5, <2>2, <2>3, <3>2
  <2> QED BY <2>1, <2>3
<1>14. Good(q)
  BY <1>5, <1>7, <1>9, <1>10, <1>11, <1>12, <1>13, IsGood DEF q
<1> QED BY <1>5, <1>14 DEF q

\* The first reading after a suspension: what was pending has become an event before.
LEMMA ResumeGood ==
    ASSUME Env, NEW t \in Tracker, NEW log \in Seq(Event),
           Good([tracker |-> t, log |-> log]), t.suspended, t.pending = 0,
           SameJob(t), feed # Native,
           NEW u, u = [t EXCEPT !.suspended = FALSE, !.used = printer.used, !.route = feed]
    PROVE  u \in Tracker /\ Good([tracker |-> u, log |-> log])
<1> DEFINE p == [tracker |-> t, log |-> log]
           q == [tracker |-> u, log |-> log]
<1>1. p.tracker = t /\ p.log = log /\ q.tracker = u /\ q.log = log
  BY StateIs
<1>2. /\ t.job \in Nat /\ t.used \in Nat /\ t.route \in Feeds /\ t.next \in Nat
      /\ t.pending \in Nat /\ t.done \in BOOLEAN /\ t.suspended \in BOOLEAN
      /\ t.print \in Nat /\ t.base \in Nat /\ t.state \in Active \union Ended
      /\ t.file \in Files \union {NoFile} /\ t # NoTracker
  BY TrackerTyped
<1>3. printer.used \in Nat /\ feed \in Feeds /\ feed \in since
  BY DEF Env
<1>4. /\ u \in Tracker
      /\ u.used = printer.used /\ u.route = feed /\ u.pending = 0
      /\ u.job = t.job /\ u.file = t.file /\ u.next = t.next /\ u.print = t.print
      /\ u.base = t.base /\ (u.done <=> t.done) /\ ~u.suspended
  <2>1. u \in Tracker
    BY <1>3 DEF Tracker
  <2>2. /\ u.used = printer.used /\ u.route = feed /\ u.pending = 0
        /\ u.job = t.job /\ u.file = t.file /\ u.next = t.next /\ u.print = t.print
        /\ u.base = t.base
    BY DEF Tracker
  <2>3. u.done = t.done /\ u.suspended = FALSE
    BY DEF Tracker
  <2> QED BY <2>1, <2>2, <2>3
<1>5. u # NoTracker
  BY <1>4, TrackerTyped
<1>6. /\ Ordered(log) /\ Continues(p) /\ Traces(t, printer, print) /\ Unbroken(t, since)
      /\ Covered(p, printer, feed, extruded) /\ Full(p, feed, print, steady)
      /\ Len(disk.log) <= Len(log) /\ Keeps(p, disk, printer, print)
  BY GoodIs
<1> HIDE DEF p, q
<1>7. Continues(q)
  BY <1>1, <1>2, <1>4, <1>6 DEF Continues
<1>8. Traces(u, printer, print) /\ Unbroken(u, since)
  BY <1>2, <1>3, <1>4, <1>6 DEF Traces, Unbroken
<1>9. Covered(q, printer, feed, extruded)
  <2> SUFFICES ASSUME NEW r \in Routes
               PROVE  ChargedTo(log, r) + PendingOn(u, r) <= extruded[r]
    BY <1>1, <1>3, <1>4 DEF Covered
  <2>1. ChargedTo(log, r) + PendingOn(t, r) <= extruded[r]
    BY <1>1, <1>6 DEF Covered
  <2>2. PendingOn(t, r) = 0 /\ PendingOn(u, r) = 0
    BY <1>4 DEF PendingOn
  <2> QED BY <2>1, <2>2
<1>10. Full(q, feed, print, steady)
  BY <1>1, <1>2, <1>4, <1>6 DEF Full
<1>11. Keeps(q, disk, printer, print)
  <2>1. disk.tracker # NoTracker => disk.tracker.pending \in Nat
    BY TrackerTyped DEF Env, EdgeState
  <2> QED BY <1>1, <1>6, <2>1 DEF Keeps
<1>12. Good(q)
  BY <1>4, <1>6, <1>7, <1>8, <1>9, <1>10, <1>11, IsGood DEF q
<1> QED BY <1>4, <1>12 DEF q

\* What a tracker holds that is given up: its print is over, or the printer was reset.
LEMMA GivenUp ==
    ASSUME Env, NEW t \in Tracker \union {NoTracker}, NEW log \in Seq(Event),
           Good([tracker |-> t, log |-> log]),
           t = NoTracker \/ t.done \/ ~SameJob(t) \/ printer.state = "standby",
           NEW u
    PROVE  Keeps([tracker |-> u, log |-> log], disk, printer, print)
<1> DEFINE p == [tracker |-> t, log |-> log]
           q == [tracker |-> u, log |-> log]
           d == disk.tracker
           Written == \E i \in DOMAIN log :
                         /\ i > Len(disk.log)
                         /\ log[i].job = d.job /\ log[i].route = d.route
                         /\ log[i].length >= d.pending
<1>1. p.tracker = t /\ p.log = log /\ q.tracker = u /\ q.log = log
  BY StateIs
<1>2. Continues(p) /\ Traces(t, printer, print) /\ Keeps(p, disk, printer, print)
  BY GoodIs
<1>3. d # NoTracker => d \in Tracker /\ d.pending \in Nat
  <2>1. d \in Tracker \union {NoTracker}
    BY DEF Env, EdgeState
  <2> QED BY <2>1, TrackerTyped
<1> HIDE DEF p, q
<1> SUFFICES ASSUME d # NoTracker, d.pending > 0, ~ (d.print < print \/ printer.state = "standby")
             PROVE  Written
  BY <1>1 DEF Keeps
<1>4. \/ /\ t # NoTracker /\ t.job = d.job /\ t.print = d.print
         /\ t.route = d.route /\ t.pending >= d.pending
      \/ Written
  BY <1>1, <1>2 DEF Keeps
<1> HIDE DEF d, Written
<1>5. ASSUME t # NoTracker, t.print = d.print, t.pending >= d.pending PROVE FALSE
  <2>1. t \in Tracker /\ t.pending \in Nat /\ t.used \in Nat /\ t.print \in Nat
    BY <1>5, TrackerTyped
  <2>2. printer.used \in Nat /\ print \in Nat
    BY DEF Env
  <2>3. t.pending > 0
    BY <1>3, <1>5, <2>1
  <2>4. ~t.done
    BY <1>1, <1>2, <1>5, <2>3 DEF Continues
  <2>5. t.print = print /\ t.file = printer.file /\ t.used <= printer.used
    BY <1>2, <1>5, <2>1, <2>2 DEF Traces
  <2>6. SameJob(t)
    BY <2>1, <2>2, <2>5 DEF SameJob
  <2> QED BY <1>5, <2>4, <2>6
<1> QED BY <1>4, <1>5

\* The tracker is dropped.
LEMMA NoneGood ==
    ASSUME Env, NEW t \in Tracker \union {NoTracker}, NEW log \in Seq(Event),
           Good([tracker |-> t, log |-> log]),
           t = NoTracker \/ t.done \/ ~SameJob(t) \/ printer.state = "standby"
    PROVE  Good([tracker |-> NoTracker, log |-> log])
<1> DEFINE p == [tracker |-> t, log |-> log]
           q == [tracker |-> NoTracker, log |-> log]
<1>1. p.tracker = t /\ p.log = log /\ q.tracker = NoTracker /\ q.log = log
  BY StateIs
<1>2. /\ Ordered(log) /\ Covered(p, printer, feed, extruded) /\ Len(disk.log) <= Len(log)
  BY GoodIs
<1>3. Keeps(q, disk, printer, print)
  BY GivenUp
<1> HIDE DEF p, q
<1>4. Continues(q) /\ Full(q, feed, print, steady)
  BY <1>1 DEF Continues, Full
<1>5. Traces(NoTracker, printer, print) /\ Unbroken(NoTracker, since)
  BY DEF Traces, Unbroken
<1>6. Covered(q, printer, feed, extruded)
  <2> SUFFICES ASSUME NEW r \in Routes
               PROVE  ChargedTo(log, r) + PendingOn(NoTracker, r) <= extruded[r]
    BY <1>1 DEF Covered
  <2>1. ChargedTo(log, r) + PendingOn(t, r) <= extruded[r]
    BY <1>1, <1>2 DEF Covered
  <2>2. ChargedTo(log, r) \in Nat /\ PendingOn(t, r) \in Nat /\ extruded[r] \in Nat
    BY ChargedTyped, PendingTyped DEF Env
  <2>3. PendingOn(NoTracker, r) = 0
    BY DEF PendingOn
  <2> QED BY <2>1, <2>2, <2>3
<1>7. Good(q)
  BY <1>2, <1>3, <1>4, <1>5, <1>6, IsGood DEF q
<1> QED BY <1>7 DEF q

\* Another job is tracked from now on.
LEMMA FreshGood ==
    ASSUME Env, NEW t \in Tracker \union {NoTracker}, NEW log \in Seq(Event),
           Good([tracker |-> t, log |-> log]),
           t = NoTracker \/ t.done \/ ~SameJob(t),
           feed # Native, printer.state # "standby",
           NewJob \in Nat, \A i \in DOMAIN log : log[i].job < NewJob
    PROVE  NewTracker \in Tracker /\ Good([tracker |-> NewTracker, log |-> log])
<1> DEFINE p == [tracker |-> t, log |-> log]
           u == NewTracker
           q == [tracker |-> u, log |-> log]
<1>1. p.tracker = t /\ p.log = log /\ q.tracker = u /\ q.log = log
  BY StateIs
<1>2. /\ Ordered(log) /\ Covered(p, printer, feed, extruded) /\ Len(disk.log) <= Len(log)
  BY GoodIs
<1>3. Keeps(q, disk, printer, print)
  BY GivenUp
<1>4. /\ u.job = NewJob /\ u.file = printer.file /\ u.used = printer.used /\ u.route = feed
      /\ u.next = 1 /\ u.pending = 0 /\ ~u.suspended /\ u.print = print /\ u.base = printer.used
  BY DEF NewTracker
<1>5. u \in Tracker
  <2>1. /\ printer.state \in Active \union Ended /\ printer.file \in Files \union {NoFile}
        /\ printer.used \in Nat /\ feed \in Feeds /\ print \in Nat
    BY DEF Env
  <2>2. (printer.state \in Ended) \in BOOLEAN
    OBVIOUS
  <2> QED BY <2>1, <2>2 DEF NewTracker, Tracker
<1>6. u # NoTracker
  BY <1>5, TrackerTyped
<1>7. \A i \in DOMAIN log : log[i].job \in Nat
  <2>1. \A i \in DOMAIN log : log[i] \in Event
    OBVIOUS
  <2> QED BY <2>1 DEF Event
<1>8. /\ \A i \in DOMAIN log : log[i].job # NewJob /\ log[i].job <= NewJob
      /\ printer.used \in Nat /\ print \in Nat /\ feed \in since
  BY <1>7 DEF Env
<1>9. ChargedFor(log, NewJob) = 0 /\ Of(log, NewJob) = {} /\ Cardinality(Of(log, NewJob)) = 0
  BY <1>8, NothingYet
<1> HIDE DEF p, q, u
<1>10. Continues(q)
  BY <1>1, <1>4, <1>8, <1>9 DEF Continues
<1>11. Traces(u, printer, print) /\ Unbroken(u, since)
  BY <1>4, <1>8 DEF Traces, Unbroken
<1>12. Covered(q, printer, feed, extruded)
  <2> SUFFICES ASSUME NEW r \in Routes
               PROVE  ChargedTo(log, r) + PendingOn(u, r) <= extruded[r]
    BY <1>1, <1>4, <1>8 DEF Covered
  <2>1. ChargedTo(log, r) + PendingOn(t, r) <= extruded[r]
    BY <1>1, <1>2 DEF Covered
  <2>2. ChargedTo(log, r) \in Nat /\ PendingOn(t, r) \in Nat /\ extruded[r] \in Nat
    BY ChargedTyped, PendingTyped DEF Env
  <2>3. PendingOn(u, r) = 0
    BY <1>4 DEF PendingOn
  <2> QED BY <2>1, <2>2, <2>3
<1>13. Full(q, feed, print, steady)
  BY <1>1, <1>4, <1>8, <1>9 DEF Full
<1>14. Good(q)
  BY <1>2, <1>3, <1>5, <1>10, <1>11, <1>12, <1>13, IsGood DEF q
<1> QED BY <1>5, <1>14 DEF q, u

-----------------------------------------------------------------------------
(* The functions of usage.py. *)

LEMMA Joined ==
    ASSUME NEW log \in Seq(Event), NEW a \in Event, NEW b \in Event
    PROVE  /\ log \o (<<>> \o <<>>) = log
           /\ log \o (<<a>> \o <<>>) = log \o <<a>>
           /\ log \o (<<>> \o <<a>>) = log \o <<a>>
           /\ log \o (<<a>> \o <<b>>) = (log \o <<a>>) \o <<b>>
<1>1. /\ <<>> \in Seq(Event) /\ <<a>> \in Seq(Event) /\ <<b>> \in Seq(Event)
  OBVIOUS
<1>2. <<>> \o <<>> = <<>> /\ <<a>> \o <<>> = <<a>> /\ <<>> \o <<a>> = <<a>>
  BY <1>1
<1>3. log \o <<>> = log
  OBVIOUS
<1>4. (log \o <<a>>) \o <<b>> = log \o (<<a>> \o <<b>>)
  BY <1>1, ConcatAssociative
<1> QED BY <1>2, <1>3, <1>4

LEMMA SameFields ==
    ASSUME NEW t \in Tracker, NEW u \in Tracker,
           t.job = u.job, t.file = u.file, t.state = u.state, t.used = u.used,
           t.route = u.route, t.next = u.next, t.pending = u.pending, t.done = u.done,
           t.suspended = u.suspended, t.print = u.print, t.base = u.base
    PROVE  t = u
BY DEF Tracker

\* The longer log has no jobs but those of the other log and of a tracker with evidence.
SameJobs(more, log, t) ==
    \A i \in DOMAIN more :
        \/ \E j \in DOMAIN log : more[i].job = log[j].job
        \/ t # NoTracker /\ t.pending > 0 /\ more[i].job = t.job

\* capture_pending_usage_event.
LEMMA FlushGood ==
    ASSUME Env, NEW t \in Tracker \union {NoTracker}, NEW log \in Seq(Event),
           Good([tracker |-> t, log |-> log]),
           NEW c, c = CapturePending(t)
    PROVE  /\ c.tracker \in Tracker \union {NoTracker}
           /\ c.events \in Seq(Event) /\ log \o c.events \in Seq(Event)
           /\ Good([tracker |-> c.tracker, log |-> log \o c.events])
           /\ c.tracker = NoTracker <=> t = NoTracker
           /\ t # NoTracker => /\ c.tracker.pending = 0
                               /\ c.tracker.suspended = t.suspended
           /\ SameJobs(log \o c.events, log, t)
<1> DEFINE p == [tracker |-> t, log |-> log]
<1>1. p.tracker = t /\ p.log = log
  BY StateIs
<1>2. Continues(p)
  BY GoodIs
<1> HIDE DEF p
<1>3. CASE t = NoTracker \/ t.done \/ t.route = NoRoute \/ t.pending = 0
  <2>1. c.tracker = t /\ c.events = <<>>
    BY <1>3 DEF CapturePending, Result
  <2>2. log \o c.events = log /\ c.events \in Seq(Event)
    BY <2>1
  <2>3. t # NoTracker => t.pending = 0
    BY <1>1, <1>2, <1>3 DEF Continues
  <2>4. SameJobs(log, log, t)
    BY DEF SameJobs
  <2> QED BY <2>1, <2>2, <2>3, <2>4, Zenon
<1>4. CASE ~ (t = NoTracker \/ t.done \/ t.route = NoRoute \/ t.pending = 0)
  <2> DEFINE e == EventOf(t, t.next, "checkpoint", t.route, t.pending)
             u == [t EXCEPT !.next = @ + 1, !.pending = 0]
             v == [t EXCEPT !.next = @ + 1, !.pending = 0, !.done = ("checkpoint" = "terminal")]
  <2>1. c.tracker = u /\ c.events = <<e>>
    BY <1>4, Zenon DEF CapturePending, Result
  <2>2. t \in Tracker /\ t # NoTracker /\ ~t.done
    BY <1>4
  <2>3. t.pending \in Nat /\ t.next \in Nat /\ t.job \in Nat /\ t.route \in Feeds
    BY <2>2, TrackerTyped
  <2>4. e \in Event /\ e.job = t.job
    BY <2>3 DEF EventOf, Event, Feeds
  <2>5. v \in Tracker /\ Good([tracker |-> v, log |-> log \o <<e>>])
    BY <2>2, ChargeGood, Zenon
  <2>6. u = v
    <3>1. t.done = FALSE
      BY <2>2, TrackerTyped
    <3>2. ("checkpoint" = "terminal") = FALSE
      OBVIOUS
    <3>3. v = [t EXCEPT !.next = @ + 1, !.pending = 0, !.done = FALSE]
      BY <3>2, Zenon
    <3> QED BY <2>2, <3>1, <3>3 DEF Tracker
  <2>7. u.pending = 0 /\ u.suspended = t.suspended /\ u # NoTracker
    <3>1. u.pending = 0 /\ u.suspended = t.suspended
      BY <2>2 DEF Tracker
    <3> QED BY <2>5, <2>6, <3>1, TrackerTyped
  <2> HIDE DEF e, u, v
  <2>8. /\ <<e>> \in Seq(Event) /\ log \o <<e>> \in Seq(Event)
        /\ \A i \in DOMAIN (log \o <<e>>) :
              \/ \E j \in DOMAIN log : (log \o <<e>>)[i].job = log[j].job
              \/ (log \o <<e>>)[i].job = t.job
    <3>1. Len(log) \in Nat /\ \A i \in 1..(Len(log) + 1) : i \in 1..Len(log) \/ i = Len(log) + 1
      OBVIOUS
    <3> QED BY <2>4, <3>1, Appended
  <2>9. t.pending > 0
    BY <1>4, <2>3
  <2>10. SameJobs(log \o <<e>>, log, t)
    BY <2>2, <2>8, <2>9 DEF SameJobs
  <2> QED BY <2>1, <2>2, <2>5, <2>6, <2>7, <2>8, <2>10
<1> QED BY <1>3, <1>4

LEMMA ResultIs ==
    ASSUME NEW t, NEW events
    PROVE  Result(t, events).tracker = t /\ Result(t, events).events = events
BY DEF Result

\* A reading of the tracked job.
LEMMA AdvanceGood ==
    ASSUME Env, NEW t \in Tracker, NEW log \in Seq(Event),
           Good([tracker |-> t, log |-> log]), ~t.done, ~t.suspended, SameJob(t),
           feed # Native, printer.state # "standby", NEW due \in BOOLEAN,
           NEW a, a = Advance(t, due)
    PROVE  /\ a.tracker \in Tracker /\ a.tracker.route = feed
           /\ a.events \in Seq(Event) /\ log \o a.events \in Seq(Event)
           /\ Good([tracker |-> a.tracker, log |-> log \o a.events])
<1> DEFINE Leaves == t.route \notin {feed, NoRoute} /\ t.pending > 0
           ending == printer.state \in Ended
           pending == Attributed(t)
           Flushes == pending > 0 /\ (due \/ (printer.state = "paused" /\ t.state # "paused"))
           type == IF ending THEN "terminal" ELSE "checkpoint"
           e1 == EventOf(t, t.next, "checkpoint", t.route, t.pending)
           left == IF Leaves THEN <<e1>> ELSE <<>>
           e2 == EventOf(t, t.next + Len(left), type, feed, pending)
           now == IF ending \/ Flushes THEN <<e2>> ELSE <<>>
           s == [t EXCEPT !.next = @ + 1, !.pending = 0, !.done = ("checkpoint" = "terminal")]
           t1 == IF Leaves THEN s ELSE t
           log1 == IF Leaves THEN log \o <<e1>> ELSE log
           t2 == [t1 EXCEPT !.state = printer.state, !.used = printer.used, !.route = feed,
                            !.pending = Attributed(t1)]
           u == [t2 EXCEPT !.next = @ + 1, !.pending = 0, !.done = (type = "terminal")]
           t3 == IF ending \/ Flushes THEN u ELSE t2
           log2 == IF ending \/ Flushes THEN log1 \o <<e2>> ELSE log1
<1>1. /\ a.tracker = [t EXCEPT !.state = printer.state, !.used = printer.used, !.route = feed,
                               !.next = @ + Len(left) + Len(now),
                               !.pending = IF now # <<>> THEN 0 ELSE pending,
                               !.done = ending]
      /\ a.events = left \o now
  <2> DEFINE rec == [t EXCEPT !.state = printer.state, !.used = printer.used, !.route = feed,
                              !.next = @ + Len(left) + Len(now),
                              !.pending = IF now # <<>> THEN 0 ELSE pending,
                              !.done = ending]
             all == left \o now
  <2>1. a = Result(rec, all)
    BY Zenon DEF Advance
  <2> HIDE DEF rec, all
  <2>2. a.tracker = rec /\ a.events = all
    <3>1. Result(rec, all).tracker = rec /\ Result(rec, all).events = all
      BY ResultIs
    <3> QED BY <2>1, <3>1
  <2> QED BY <2>2, Zenon DEF rec, all
<1>2. /\ t.job \in Nat /\ t.used \in Nat /\ t.route \in Feeds /\ t.next \in Nat
      /\ t.pending \in Nat /\ t.done \in BOOLEAN /\ t.suspended \in BOOLEAN
      /\ t.print \in Nat /\ t.base \in Nat /\ t.state \in Active \union Ended
      /\ t.file \in Files \union {NoFile} /\ t # NoTracker
  BY TrackerTyped
<1>3. /\ printer.used \in Nat /\ printer.state \in Active \union Ended /\ feed \in Feeds
      /\ printer.used >= t.used /\ feed \in since
  BY DEF Env, SameJob
<1>4. /\ pending \in Nat /\ (t.route # feed => pending = 0) /\ ending \in BOOLEAN
  BY <1>2, <1>3 DEF Attributed
<1>5. e1 \in Event
  BY <1>2 DEF EventOf, Event, Feeds
<1>6. s \in Tracker /\ (Good([tracker |-> s, log |-> log \o <<e1>>]))
  <2>1. "checkpoint" \in {"checkpoint", "terminal"}
    OBVIOUS
  <2> QED BY <2>1, ChargeGood, Zenon
<1>7. /\ s.next = t.next + 1 /\ s.pending = 0 /\ s.job = t.job /\ s.file = t.file
      /\ s.used = t.used /\ s.route = t.route /\ s.print = t.print /\ s.base = t.base
      /\ ~s.done /\ s.suspended = t.suspended
  <2>1. /\ s.next = t.next + 1 /\ s.pending = 0 /\ s.job = t.job /\ s.file = t.file
        /\ s.used = t.used /\ s.route = t.route /\ s.print = t.print /\ s.base = t.base
    BY DEF Tracker
  <2>2. s.done = ("checkpoint" = "terminal") /\ s.suspended = t.suspended
    BY Zenon DEF Tracker
  <2>3. "checkpoint" # "terminal"
    OBVIOUS
  <2> QED BY <2>1, <2>2, <2>3
<1> HIDE DEF s
<1>8. /\ t1 \in Tracker /\ log1 \in Seq(Event) /\ Good([tracker |-> t1, log |-> log1])
      /\ t1.next = t.next + Len(left) /\ t1.job = t.job /\ t1.file = t.file
      /\ t1.used = t.used /\ t1.route = t.route /\ t1.print = t.print /\ t1.base = t.base
      /\ ~t1.done /\ ~t1.suspended /\ t1.suspended = t.suspended
      /\ (t1.route \notin {feed, NoRoute} => t1.pending = 0)
      /\ Attributed(t1) = pending
  <2>1. CASE Leaves
    <3>1. t1 = s /\ log1 = log \o <<e1>> /\ Len(left) = 1
      BY <2>1
    <3>2. log \o <<e1>> \in Seq(Event)
      BY <1>5, Appended
    <3>3. Attributed(s) = 0 /\ pending = 0
      BY <1>7, <2>1 DEF Attributed
    <3> QED BY <1>6, <1>7, <3>1, <3>2, <3>3
  <2>2. CASE ~Leaves
    <3>1. t1 = t /\ log1 = log /\ Len(left) = 0
      BY <2>2
    <3>2. t.route \notin {feed, NoRoute} => t.pending = 0
      BY <1>2, <2>2
    <3> QED BY <1>2, <3>1, <3>2
  <2> QED BY <2>1, <2>2
<1> HIDE DEF t1, log1, left, e1
<1>9. t2 \in Tracker /\ Good([tracker |-> t2, log |-> log1])
  <2>1. SameJob(t1)
    BY <1>8 DEF SameJob
  <2> QED BY <1>8, <2>1, SampleGood, Zenon
<1>10. /\ t2.state = printer.state /\ t2.used = printer.used /\ t2.route = feed
       /\ t2.pending = pending /\ t2.next = t.next + Len(left) /\ t2.job = t.job
       /\ t2.file = t.file /\ t2.print = t.print /\ t2.base = t.base
       /\ ~t2.done /\ t2.suspended = t.suspended
  <2>1. /\ t2.state = printer.state /\ t2.used = printer.used /\ t2.route = feed
        /\ t2.pending = Attributed(t1) /\ t2.next = t1.next /\ t2.job = t1.job
        /\ t2.file = t1.file /\ t2.print = t1.print /\ t2.base = t1.base
    BY <1>8 DEF Tracker
  <2>2. t2.done = t1.done /\ t2.suspended = t1.suspended
    BY <1>8, Zenon DEF Tracker
  <2> QED BY <1>8, <2>1, <2>2, Zenon
<1> HIDE DEF t2
<1>11. e2 = EventOf(t2, t2.next, type, t2.route, t2.pending)
  <2> HIDE DEF type, pending
  <2> QED BY <1>10 DEF EventOf
<1>12. e2 \in Event
  <2>1. type \in {"checkpoint", "terminal"} /\ t2.next \in Nat
    BY <1>9, TrackerTyped
  <2> HIDE DEF type, pending
  <2> QED BY <1>2, <1>3, <1>4, <1>10, <1>11, <2>1 DEF EventOf, Event, Feeds
<1>13. u \in Tracker /\ Good([tracker |-> u, log |-> log1 \o <<e2>>])
  <2>1. type \in {"checkpoint", "terminal"}
    OBVIOUS
  <2> HIDE DEF type, e2
  <2> QED BY <1>8, <1>9, <1>10, <1>11, <2>1, ChargeGood, Zenon
<1>14. /\ u.state = printer.state /\ u.used = printer.used /\ u.route = feed
       /\ u.pending = 0 /\ u.next = t.next + Len(left) + 1 /\ u.job = t.job
       /\ u.file = t.file /\ u.print = t.print /\ u.base = t.base
       /\ u.done = (type = "terminal") /\ u.suspended = t.suspended
  <2> HIDE DEF type
  <2>1. /\ u.state = t2.state /\ u.used = t2.used /\ u.route = t2.route
        /\ u.pending = 0 /\ u.next = t2.next + 1 /\ u.job = t2.job
        /\ u.file = t2.file /\ u.print = t2.print /\ u.base = t2.base
    BY <1>9 DEF Tracker
  <2>2. u.done = (type = "terminal") /\ u.suspended = t2.suspended
    BY <1>9, Zenon DEF Tracker
  <2> HIDE DEF u
  <2> QED BY <1>10, <2>1, <2>2, Zenon
<1>15. (type = "terminal") = ending
  <2>1. "terminal" # "checkpoint"
    OBVIOUS
  <2> HIDE DEF ending
  <2>2. CASE ending
    <3>1. ending = TRUE /\ (type = "terminal") = TRUE
      BY <1>4, <2>2
    <3> QED BY <3>1, Zenon
  <2>3. CASE ~ending
    <3>1. ending = FALSE
      BY <1>4, <2>3
    <3>2. (type = "terminal") = FALSE
      BY <2>1, <2>3
    <3> QED BY <3>1, <3>2, Zenon
  <2> QED BY <2>2, <2>3
<1> HIDE DEF u, e2, pending
<1>16. /\ a.tracker.state = printer.state /\ a.tracker.used = printer.used
       /\ a.tracker.route = feed /\ a.tracker.next = t.next + Len(left) + Len(now)
       /\ a.tracker.pending = (IF now # <<>> THEN 0 ELSE pending)
       /\ a.tracker.job = t.job /\ a.tracker.file = t.file /\ a.tracker.print = t.print
       /\ a.tracker.base = t.base
  <2> HIDE DEF now, ending
  <2> QED BY <1>1 DEF Tracker
<1>17. a.tracker.done = ending /\ a.tracker.suspended = t.suspended
  <2> HIDE DEF now, ending
  <2> QED BY <1>1, Zenon DEF Tracker
<1>18. Len(left) \in Nat /\ Len(now) \in Nat
  BY DEF left
<1>19. a.tracker \in Tracker
  <2> HIDE DEF now, ending
  <2>1. t.next + Len(left) + Len(now) \in Nat /\ (IF now # <<>> THEN 0 ELSE pending) \in Nat
    BY <1>2, <1>4, <1>18
  <2> QED BY <1>1, <1>3, <1>4, <2>1, ZenonT(40) DEF Tracker
<1>20. t3 \in Tracker /\ Good([tracker |-> t3, log |-> log2])
  BY <1>9, <1>13, Zenon
<1>21. a.tracker = t3
  <2>1. CASE ending \/ Flushes
    <3>1. t3 = u /\ Len(now) = 1 /\ now # <<>>
      BY <2>1
    <3>2. u.done = a.tracker.done
      BY <1>14, <1>15, <1>17, Zenon
    <3>3. u.next = a.tracker.next /\ u.pending = a.tracker.pending
      BY <1>14, <1>16, <3>1
    <3> HIDE DEF t3, now, type, ending, Flushes
    <3>4. u = a.tracker
      BY <1>13, <1>14, <1>16, <1>17, <1>19, <3>2, <3>3, SameFields, ZenonT(40)
    <3> QED BY <3>1, <3>4
  <2>2. CASE ~ (ending \/ Flushes)
    <3>1. t3 = t2 /\ Len(now) = 0 /\ now = <<>>
      BY <2>2
    <3>2. t2.done = a.tracker.done
      <4>1. ending = FALSE
        BY <1>4, <2>2
      <4>2. t2.done = FALSE
        BY <1>9, <1>10, TrackerTyped
      <4> QED BY <1>17, <4>1, <4>2, Zenon
    <3>3. t2.next = a.tracker.next /\ t2.pending = a.tracker.pending
      BY <1>2, <1>10, <1>16, <1>18, <3>1
    <3> HIDE DEF t3, now, type, ending, Flushes
    <3>4. t2 = a.tracker
      BY <1>9, <1>10, <1>16, <1>17, <1>19, <3>2, <3>3, SameFields, Zenon
    <3> QED BY <3>1, <3>4
  <2> QED BY <2>1, <2>2
<1>22. log \o a.events = log2 /\ log2 \in Seq(Event)
  <2>1. /\ log \o (<<>> \o <<>>) = log
        /\ log \o (<<e1>> \o <<>>) = log \o <<e1>>
        /\ log \o (<<>> \o <<e2>>) = log \o <<e2>>
        /\ log \o (<<e1>> \o <<e2>>) = (log \o <<e1>>) \o <<e2>>
    BY <1>5, <1>12, Joined, Zenon
  <2>2. log \o (left \o now) = log2
    <3> HIDE DEF Leaves, ending, Flushes
    <3> QED BY <2>1, Zenon DEF left, log1
  <2>3. log1 \o <<e2>> \in Seq(Event)
    BY <1>8, <1>12, Appended
  <2> QED BY <1>1, <1>8, <2>2, <2>3
<1>23. left \o now \in Seq(Event)
  <2>1. left \in Seq(Event) /\ now \in Seq(Event)
    <3> HIDE DEF Leaves, ending, Flushes
    <3> QED BY <1>5, <1>12 DEF left
  <2> HIDE DEF now
  <2> QED BY <2>1
<1> HIDE DEF t3, log2, now
<1> QED BY <1>1, <1>16, <1>20, <1>21, <1>22, <1>23, Zenon

\* A reading of a job that is not suspended.
LEMMA SampledGood ==
    ASSUME Env, NEW t \in Tracker \union {NoTracker}, NEW log \in Seq(Event),
           Good([tracker |-> t, log |-> log]), t # NoTracker => ~t.suspended,
           feed # Native, NEW due \in BOOLEAN,
           NewJob \in Nat, \A i \in DOMAIN log : log[i].job < NewJob,
           NEW a, a = Sampled(t, due)
    PROVE  /\ a.tracker \in Tracker \union {NoTracker}
           /\ a.tracker # NoTracker => a.tracker.route = feed
           /\ a.events \in Seq(Event) /\ log \o a.events \in Seq(Event)
           /\ Good([tracker |-> a.tracker, log |-> log \o a.events])
<1>1. log \o <<>> = log /\ <<>> \in Seq(Event)
  OBVIOUS
<1>2. CASE printer.state = "standby"
  <2>1. a.tracker = NoTracker /\ a.events = <<>>
    BY <1>2, ResultIs DEF Sampled
  <2>2. Good([tracker |-> NoTracker, log |-> log])
    BY <1>2, NoneGood
  <2> QED BY <1>1, <2>1, <2>2
<1>3. CASE printer.state # "standby" /\ (t = NoTracker \/ t.done \/ ~SameJob(t))
  <2>1. a.tracker = NewTracker /\ a.events = <<>>
    BY <1>3, ResultIs DEF Sampled
  <2>2. NewTracker \in Tracker /\ Good([tracker |-> NewTracker, log |-> log])
    BY <1>3, FreshGood
  <2>3. NewTracker.route = feed
    BY DEF NewTracker
  <2> QED BY <1>1, <2>1, <2>2, <2>3
<1>4. CASE printer.state # "standby" /\ ~ (t = NoTracker \/ t.done \/ ~SameJob(t))
  <2>1. a = Advance(t, due)
    BY <1>4, Zenon DEF Sampled
  <2>2. t \in Tracker /\ ~t.done /\ ~t.suspended /\ SameJob(t)
    BY <1>4
  <2> QED BY <1>4, <2>1, <2>2, AdvanceGood
<1> QED BY <1>2, <1>3, <1>4

\* capture_usage_events with a reading.
LEMMA CaptureGood ==
    ASSUME Env, mem \in EdgeState, Good(mem), Ordered(disk.log), feed # Native,
           NEW due \in BOOLEAN, NEW c, c = CaptureUsage(mem.tracker, due)
    PROVE  /\ c.tracker \in Tracker \union {NoTracker}
           /\ c.tracker # NoTracker => c.tracker.route = feed
           /\ mem.log \o c.events \in Seq(Event)
           /\ Good([tracker |-> c.tracker, log |-> mem.log \o c.events])
<1> DEFINE t == mem.tracker
           log == mem.log
<1>1. /\ t \in Tracker \union {NoTracker} /\ log \in Seq(Event) /\ disk \in EdgeState
      /\ mem = [tracker |-> t, log |-> log]
  BY DEF EdgeState, Env
<1>2. Good([tracker |-> t, log |-> log])
  BY <1>1
<1>3. Ordered(log)
  BY DEF Good, Sound
<1>4. /\ NewJob \in Nat
      /\ \A i \in DOMAIN log : log[i].job < NewJob
      /\ t # NoTracker /\ t.pending > 0 => t.job < NewJob
  BY <1>1, <1>3, NewJobIsNew
<1> HIDE DEF t, log
<1>5. c = CaptureUsage(t, due)
  BY DEF t
<1>6. CASE ~ (t # NoTracker /\ t.suspended)
  <2>1. c = Sampled(t, due)
    BY <1>5, <1>6, Zenon DEF CaptureUsage
  <2>2. t # NoTracker => ~t.suspended
    BY <1>6
  <2> QED BY <1>1, <1>2, <1>4, <2>1, <2>2, SampledGood, Zenon DEF log
<1>7. CASE t # NoTracker /\ t.suspended
  <2> DEFINE f == CapturePending(t)
             more == log \o f.events
             r == Resumed(f.tracker)
             a == Sampled(r, due)
  <2>1. c = Result(a.tracker, f.events \o a.events)
    BY <1>5, <1>7, Zenon DEF CaptureUsage
  <2>2. c.tracker = a.tracker /\ c.events = f.events \o a.events
    <3>1. /\ Result(a.tracker, f.events \o a.events).tracker = a.tracker
          /\ Result(a.tracker, f.events \o a.events).events = f.events \o a.events
      BY ResultIs
    <3> QED BY <2>1, <3>1
  <2>3. /\ f.tracker \in Tracker \union {NoTracker} /\ f.events \in Seq(Event)
        /\ more \in Seq(Event) /\ Good([tracker |-> f.tracker, log |-> more])
        /\ f.tracker = NoTracker <=> t = NoTracker
        /\ t # NoTracker => f.tracker.pending = 0 /\ f.tracker.suspended = t.suspended
        /\ SameJobs(more, log, t)
    <3>1. f = CapturePending(t)
      OBVIOUS
    <3>2. t \in Tracker \union {NoTracker} /\ log \in Seq(Event)
      BY <1>1
    <3> HIDE DEF f
    <3>3. /\ f.tracker \in Tracker \union {NoTracker}
          /\ f.events \in Seq(Event) /\ log \o f.events \in Seq(Event)
          /\ Good([tracker |-> f.tracker, log |-> log \o f.events])
          /\ f.tracker = NoTracker <=> t = NoTracker
          /\ t # NoTracker => /\ f.tracker.pending = 0
                              /\ f.tracker.suspended = t.suspended
      BY <1>2, <3>1, <3>2, FlushGood, Zenon
    <3>4. SameJobs(log \o f.events, log, t)
      BY <1>2, <3>1, <3>2, FlushGood, Zenon
    <3> QED BY <3>3, <3>4, Zenon
  <2>8. f.tracker \in Tracker /\ f.tracker # NoTracker /\ f.tracker.pending = 0
        /\ f.tracker.suspended
    BY <1>7, <2>3
  <2> HIDE DEF more
  <2>4. \A i \in DOMAIN more : more[i].job < NewJob
    BY <1>4, <2>3 DEF SameJobs
  <2>5. /\ r \in Tracker \union {NoTracker} /\ (r # NoTracker => ~r.suspended)
        /\ Good([tracker |-> r, log |-> more])
    <3>1. CASE SameJob(f.tracker)
      <4>1. r = [f.tracker EXCEPT !.suspended = FALSE, !.used = printer.used, !.route = feed]
        BY <3>1 DEF Resumed
      <4>2. r \in Tracker /\ Good([tracker |-> r, log |-> more])
        BY <2>3, <2>8, <3>1, <4>1, ResumeGood, Zenon
      <4>3. ~r.suspended
        BY <2>8, <4>1 DEF Tracker
      <4> QED BY <4>2, <4>3
    <3>2. CASE ~SameJob(f.tracker)
      <4>1. r = NoTracker
        BY <3>2 DEF Resumed
      <4>2. Good([tracker |-> NoTracker, log |-> more])
        BY <2>3, <2>8, <3>2, NoneGood
      <4> QED BY <4>1, <4>2
    <3> QED BY <3>1, <3>2
  <2> HIDE DEF r
  <2>6. /\ a.tracker \in Tracker \union {NoTracker}
        /\ a.tracker # NoTracker => a.tracker.route = feed
        /\ a.events \in Seq(Event)
        /\ more \o a.events \in Seq(Event)
        /\ Good([tracker |-> a.tracker, log |-> more \o a.events])
    BY <1>4, <2>3, <2>4, <2>5, SampledGood, Zenon
  <2>7. more \o a.events = log \o c.events
    <3>1. (log \o f.events) \o a.events = log \o (f.events \o a.events)
      <4>1. log \in Seq(Event) /\ f.events \in Seq(Event) /\ a.events \in Seq(Event)
        BY <1>1, <2>3, <2>6
      <4>2. \A x, y, z \in Seq(Event) : (x \o y) \o z = x \o (y \o z)
        BY ConcatAssociative
      <4> HIDE DEF f, a
      <4> QED BY <4>1, <4>2, Zenon
    <3> QED BY <2>2, <3>1 DEF more
  <2> QED BY <2>2, <2>6, <2>7, Zenon DEF log
<1> QED BY <1>6, <1>7

-----------------------------------------------------------------------------
(* The steps of the printer. *)

LEMMA InvIs ==
    ASSUME IInv
    PROVE  /\ TypeOK /\ Env /\ feed \in since
           /\ mem \in EdgeState /\ disk \in EdgeState
           /\ Sound(mem, printer, feed, print, extruded, since, steady)
           /\ Sound(disk, printer, feed, print, extruded, since, steady)
           /\ Len(disk.log) <= Len(mem.log) /\ Keeps(mem, disk, printer, print)
           /\ Ordered(mem.log) /\ Ordered(disk.log)
BY DEF IInv, TypeOK, Env, Sound

\* An Edge state in the terms of its tracker.
LEMMA StateTyped ==
    ASSUME NEW p \in EdgeState
    PROVE  /\ p.tracker \in Tracker \union {NoTracker} /\ p.log \in Seq(Event)
           /\ p.tracker # NoTracker =>
                 /\ p.tracker \in Tracker /\ p.tracker.job \in Nat /\ p.tracker.used \in Nat
                 /\ p.tracker.route \in Feeds /\ p.tracker.pending \in Nat
                 /\ p.tracker.print \in Nat /\ p.tracker.base \in Nat
           /\ \A r : ChargedTo(p.log, r) \in Nat /\ ChargedFor(p.log, r) \in Nat
                        /\ PendingOn(p.tracker, r) \in Nat
                        /\ p.tracker # NoTracker => PendingOn(p.tracker, r) =
                              IF p.tracker.route = r THEN p.tracker.pending ELSE 0
<1>1. p.tracker \in Tracker \union {NoTracker} /\ p.log \in Seq(Event)
  BY DEF EdgeState
<1>2. p.tracker # NoTracker =>
         /\ p.tracker \in Tracker /\ p.tracker.job \in Nat /\ p.tracker.used \in Nat
         /\ p.tracker.route \in Feeds /\ p.tracker.pending \in Nat
         /\ p.tracker.print \in Nat /\ p.tracker.base \in Nat
  BY <1>1, TrackerTyped
<1>3. ASSUME NEW r
      PROVE  ChargedTo(p.log, r) \in Nat /\ ChargedFor(p.log, r) \in Nat
                /\ PendingOn(p.tracker, r) \in Nat
                /\ p.tracker # NoTracker => PendingOn(p.tracker, r) =
                      IF p.tracker.route = r THEN p.tracker.pending ELSE 0
  BY <1>1, ChargedTyped, PendingTyped
<1> QED BY <1>1, <1>2, <1>3

\* The environment's steps leave both states alone.
LEMMA PrinterStep ==
    ASSUME IInv, mem' = mem, disk' = disk, TypeOK', feed' \in since',
           Keeps(mem, disk, printer', print'),
           \A p \in EdgeState :
              Sound(p, printer, feed, print, extruded, since, steady)
                 => Sound(p, printer', feed', print', extruded', since', steady')
    PROVE  IInv'
<1>1. /\ Sound(mem, printer', feed', print', extruded', since', steady')
      /\ Sound(disk, printer', feed', print', extruded', since', steady')
      /\ Len(disk.log) <= Len(mem.log)
  BY InvIs
<1> QED BY <1>1 DEF IInv

LEMMA StartPrintInv == ASSUME IInv, StartPrint PROVE IInv'
<1>1. /\ \E f \in Files : printer' = [state |-> "printing", file |-> f, used |-> 0]
      /\ print' = print + 1 /\ steady' = TRUE /\ feed' = feed /\ extruded' = extruded
      /\ since' = since /\ changes' = changes /\ mem' = mem /\ disk' = disk /\ unsaved' = unsaved
  BY DEF StartPrint, edge
<1>2. TypeOK /\ print \in Nat
  BY InvIs DEF TypeOK
<1>3. TypeOK'
  BY <1>1, <1>2 DEF TypeOK, Active
<1>4. printer'.used = 0
  BY <1>1
<1>5. ASSUME NEW p \in EdgeState, Sound(p, printer, feed, print, extruded, since, steady)
      PROVE  Sound(p, printer', feed', print', extruded', since', steady')
  <2>1. /\ Ordered(p.log) /\ Continues(p) /\ Traces(p.tracker, printer, print)
        /\ Unbroken(p.tracker, since) /\ Covered(p, printer, feed, extruded)
    BY <1>5 DEF Sound
  <2>2. p.tracker # NoTracker => p.tracker.print <= print /\ p.tracker.print # print'
                                   /\ p.tracker.print <= print'
    BY <1>1, <1>2, <2>1, StateTyped DEF Traces
  <2>3. Traces(p.tracker, printer', print') /\ Full(p, feed', print', steady')
    BY <2>2 DEF Traces, Full
  <2>4. p.tracker # NoTracker => ~ (p.tracker.used < printer'.used)
    BY <1>4, StateTyped
  <2>5. Covered(p, printer', feed', extruded')
    BY <1>1, <2>1, <2>4 DEF Covered
  <2> QED BY <1>1, <2>1, <2>3, <2>5 DEF Sound
<1>6. Keeps(mem, disk, printer', print')
  <2>1. Traces(disk.tracker, printer, print)
    BY InvIs DEF Sound
  <2>2. disk.tracker # NoTracker => disk.tracker.print < print'
    BY <1>1, <1>2, <2>1, InvIs, StateTyped DEF Traces
  <2> QED BY <2>2 DEF Keeps
<1>7. feed' \in since'
  BY <1>1, InvIs
<1> QED BY <1>1, <1>3, <1>5, <1>6, <1>7, PrinterStep

LEMMA ExtrudeInv == ASSUME IInv, Extrude PROVE IInv'
<1>1. /\ printer.state = "printing"
      /\ printer' = [printer EXCEPT !.used = printer.used + 1]
      /\ extruded' = IF feed \in Routes THEN [extruded EXCEPT ![feed] = extruded[feed] + 1]
                     ELSE extruded
      /\ print' = print /\ steady' = steady /\ feed' = feed
      /\ since' = since /\ changes' = changes /\ mem' = mem /\ disk' = disk /\ unsaved' = unsaved
  BY DEF Extrude, edge
<1>2. /\ TypeOK /\ print \in Nat /\ printer.used \in Nat /\ extruded \in [Routes -> Nat]
      /\ printer \in [state : {"standby"} \union Active \union Ended,
                      file : Files \union {NoFile}, used : Nat]
  BY InvIs DEF TypeOK
<1>3. /\ printer'.used = printer.used + 1 /\ printer'.state = printer.state
      /\ printer'.file = printer.file
      /\ printer' \in [state : {"standby"} \union Active \union Ended,
                       file : Files \union {NoFile}, used : Nat]
  BY <1>1, <1>2
<1>4. /\ extruded' \in [Routes -> Nat]
      /\ \A r \in Routes : extruded'[r] = IF feed = r THEN extruded[r] + 1 ELSE extruded[r]
  BY <1>1, <1>2
<1>5. TypeOK'
  BY <1>1, <1>2, <1>3, <1>4 DEF TypeOK
<1>6. ASSUME NEW p \in EdgeState, Sound(p, printer, feed, print, extruded, since, steady)
      PROVE  Sound(p, printer', feed', print', extruded', since', steady')
  <2>1. /\ Ordered(p.log) /\ Continues(p) /\ Traces(p.tracker, printer, print)
        /\ Unbroken(p.tracker, since) /\ Covered(p, printer, feed, extruded)
        /\ Full(p, feed, print, steady)
    BY <1>6 DEF Sound
  <2>2. Traces(p.tracker, printer', print')
    BY <1>1, <1>2, <1>3, <2>1, StateTyped DEF Traces
  <2>3. Covered(p, printer', feed', extruded')
    <3> DEFINE t == p.tracker
    <3> SUFFICES ASSUME NEW r \in Routes
                 PROVE  /\ ChargedTo(p.log, r) + PendingOn(t, r) <= extruded'[r]
                        /\ t # NoTracker /\ ~t.suspended /\ t.route = r /\ feed = r
                              /\ t.used < printer'.used
                           => ChargedTo(p.log, r) + t.pending + (printer'.used - t.used)
                                 <= extruded'[r]
      BY <1>1 DEF Covered
    <3>1. /\ ChargedTo(p.log, r) + PendingOn(t, r) <= extruded[r]
          /\ t # NoTracker /\ ~t.suspended /\ t.route = r /\ feed = r /\ t.used < printer.used
                => ChargedTo(p.log, r) + t.pending + (printer.used - t.used) <= extruded[r]
      BY <2>1 DEF Covered
    <3>0. ChargedTo(p.log, r) \in Nat /\ PendingOn(t, r) \in Nat
      <4>1. p.tracker \in Tracker \union {NoTracker} /\ p.log \in Seq(Event)
        BY DEF EdgeState
      <4> QED BY <4>1, ChargedTyped, PendingTyped
    <3>a. extruded[r] \in Nat
      BY <1>2
    <3>b. ASSUME t # NoTracker
          PROVE  /\ t.used \in Nat /\ t.pending \in Nat
                 /\ PendingOn(t, r) = IF t.route = r THEN t.pending ELSE 0
      BY <3>b, StateTyped DEF PendingOn
    <3> HIDE DEF t
    <3>2. /\ ChargedTo(p.log, r) \in Nat /\ PendingOn(t, r) \in Nat
          /\ extruded[r] \in Nat
          /\ t # NoTracker => /\ t.used \in Nat /\ t.pending \in Nat
                              /\ PendingOn(t, r) = IF t.route = r THEN t.pending ELSE 0
      BY <3>0, <3>a, <3>b
    <3>3. ChargedTo(p.log, r) + PendingOn(t, r) <= extruded'[r]
      BY <1>4, <3>1, <3>2
    <3>4. ASSUME t # NoTracker, ~t.suspended, t.route = r, feed = r, t.used < printer'.used
          PROVE  ChargedTo(p.log, r) + t.pending + (printer'.used - t.used) <= extruded'[r]
      <4>1. extruded'[r] = extruded[r] + 1
        BY <1>4, <3>4
      <4>2. CASE t.used < printer.used
        BY <1>2, <1>3, <3>1, <3>2, <3>4, <4>1, <4>2
      <4>3. CASE ~ (t.used < printer.used)
        <5>1. printer'.used - t.used = 1
          BY <1>2, <1>3, <3>2, <3>4, <4>3
        <5> QED BY <3>1, <3>2, <3>4, <4>1, <5>1
      <4> QED BY <4>2, <4>3
    <3> QED BY <3>3, <3>4
  <2> QED BY <1>1, <2>1, <2>2, <2>3 DEF Sound
<1>7. Keeps(mem, disk, printer', print')
  BY <1>1, <1>3, InvIs DEF Keeps
<1>8. feed' \in since'
  BY <1>1, InvIs
<1> QED BY <1>1, <1>5, <1>6, <1>7, <1>8, PrinterStep

\* The print pauses, goes on or ends: the counter stays.
LEMMA StateChanges ==
    ASSUME IInv, printer.state # "standby",
           NEW state \in Active \union Ended, printer' = [printer EXCEPT !.state = state],
           feed' = feed, print' = print, extruded' = extruded, since' = since,
           steady' = steady, changes' = changes, mem' = mem, disk' = disk, unsaved' = unsaved
    PROVE  IInv'
<1>1. /\ TypeOK
      /\ printer \in [state : {"standby"} \union Active \union Ended,
                      file : Files \union {NoFile}, used : Nat]
  BY InvIs DEF TypeOK
<1>2. /\ printer'.used = printer.used /\ printer'.state = state
      /\ printer'.file = printer.file
      /\ printer' \in [state : {"standby"} \union Active \union Ended,
                       file : Files \union {NoFile}, used : Nat]
  BY <1>1
<1>3. TypeOK'
  BY <1>1, <1>2 DEF TypeOK
<1>4. ASSUME NEW p \in EdgeState, Sound(p, printer, feed, print, extruded, since, steady)
      PROVE  Sound(p, printer', feed', print', extruded', since', steady')
  <2>1. /\ Ordered(p.log) /\ Continues(p) /\ Traces(p.tracker, printer, print)
        /\ Unbroken(p.tracker, since) /\ Covered(p, printer, feed, extruded)
        /\ Full(p, feed, print, steady)
    BY <1>4 DEF Sound
  <2>2. Traces(p.tracker, printer', print')
    BY <1>2, <2>1 DEF Traces
  <2>3. Covered(p, printer', feed', extruded')
    BY <1>2, <2>1 DEF Covered
  <2> QED BY <2>1, <2>2, <2>3 DEF Sound
<1>5. Keeps(mem, disk, printer', print')
  BY InvIs DEF Keeps
<1>6. feed' \in since'
  BY InvIs
<1> QED BY <1>3, <1>4, <1>5, <1>6, PrinterStep

LEMMA PauseOrResumeInv == ASSUME IInv, PauseOrResume PROVE IInv'
<1> DEFINE state == IF printer.state = "paused" THEN "printing" ELSE "paused"
<1>1. /\ printer.state \in Active
      /\ printer' = [printer EXCEPT !.state = state]
      /\ feed' = feed /\ print' = print /\ extruded' = extruded /\ since' = since
      /\ steady' = steady /\ changes' = changes /\ mem' = mem /\ disk' = disk
      /\ unsaved' = unsaved
  BY DEF PauseOrResume, edge
<1>2. state \in Active \union Ended /\ printer.state # "standby"
  BY <1>1 DEF Active
<1> HIDE DEF state
<1> QED BY <1>1, <1>2, StateChanges

LEMMA EndPrintInv == ASSUME IInv, EndPrint PROVE IInv'
<1>1. /\ printer.state \in Active
      /\ printer' = [printer EXCEPT !.state = "ended"]
      /\ feed' = feed /\ print' = print /\ extruded' = extruded /\ since' = since
      /\ steady' = steady /\ changes' = changes /\ mem' = mem /\ disk' = disk
      /\ unsaved' = unsaved
  BY DEF EndPrint, edge
<1>2. "ended" \in Active \union Ended /\ printer.state # "standby"
  BY <1>1 DEF Active, Ended
<1> QED BY <1>1, <1>2, StateChanges

LEMMA ResetPrinterInv == ASSUME IInv, ResetPrinter PROVE IInv'
<1>1. /\ printer' = [printer EXCEPT !.state = "standby", !.used = 0]
      /\ feed' = feed /\ print' = print /\ extruded' = extruded /\ since' = since
      /\ steady' = steady /\ changes' = changes /\ mem' = mem /\ disk' = disk
      /\ unsaved' = unsaved
  BY DEF ResetPrinter, edge
<1>2. /\ TypeOK
      /\ printer \in [state : {"standby"} \union Active \union Ended,
                      file : Files \union {NoFile}, used : Nat]
  BY InvIs DEF TypeOK
<1>3. /\ printer'.used = 0 /\ printer'.state = "standby"
      /\ printer' \in [state : {"standby"} \union Active \union Ended,
                       file : Files \union {NoFile}, used : Nat]
  BY <1>1, <1>2
<1>4. TypeOK'
  BY <1>1, <1>2, <1>3 DEF TypeOK
<1>5. ASSUME NEW p \in EdgeState, Sound(p, printer, feed, print, extruded, since, steady)
      PROVE  Sound(p, printer', feed', print', extruded', since', steady')
  <2>1. /\ Ordered(p.log) /\ Continues(p) /\ Traces(p.tracker, printer, print)
        /\ Unbroken(p.tracker, since) /\ Covered(p, printer, feed, extruded)
        /\ Full(p, feed, print, steady)
    BY <1>5 DEF Sound
  <2>2. Traces(p.tracker, printer', print')
    BY <1>1, <1>3, <2>1 DEF Traces
  <2>3. p.tracker # NoTracker => ~ (p.tracker.used < printer'.used)
    BY <1>3, StateTyped
  <2>4. Covered(p, printer', feed', extruded')
    BY <1>1, <2>1, <2>3 DEF Covered
  <2> QED BY <1>1, <2>1, <2>2, <2>4 DEF Sound
<1>6. Keeps(mem, disk, printer', print')
  BY <1>3 DEF Keeps
<1>7. feed' \in since'
  BY <1>1, InvIs
<1> QED BY <1>1, <1>4, <1>5, <1>6, <1>7, PrinterStep

LEMMA ChangeFeedInv == ASSUME IInv, ChangeFeed PROVE IInv'
<1>1. /\ feed' \in Feeds \ since /\ since' = since \union {feed'}
      /\ steady' = FALSE /\ changes' = changes + 1
      /\ printer' = printer /\ print' = print /\ extruded' = extruded
      /\ mem' = mem /\ disk' = disk /\ unsaved' = unsaved
  BY DEF ChangeFeed, edge
<1>2. TypeOK /\ changes \in Nat /\ since \subseteq Feeds
  BY InvIs DEF TypeOK
<1>a. /\ feed' \in Feeds /\ since' \subseteq Feeds /\ changes' \in Nat
      /\ unsaved \in Nat /\ unsaved' = unsaved
  BY <1>1, <1>2 DEF TypeOK, ChangeFeed, edge
<1>3. TypeOK'
  BY <1>1, <1>2, <1>a DEF TypeOK
<1>4. ASSUME NEW p \in EdgeState, Sound(p, printer, feed, print, extruded, since, steady)
      PROVE  Sound(p, printer', feed', print', extruded', since', steady')
  <2>1. /\ Ordered(p.log) /\ Continues(p) /\ Traces(p.tracker, printer, print)
        /\ Unbroken(p.tracker, since) /\ Covered(p, printer, feed, extruded)
    BY <1>4 DEF Sound
  <2>2. Unbroken(p.tracker, since')
    BY <1>1, <2>1 DEF Unbroken
  <2>3. p.tracker # NoTracker /\ ~p.tracker.suspended => p.tracker.route # feed'
    BY <1>1, <2>1 DEF Unbroken
  <2>4. Covered(p, printer', feed', extruded')
    BY <1>1, <2>1, <2>3 DEF Covered
  <2>5. Full(p, feed', print', steady')
    BY <1>1 DEF Full
  <2> QED BY <1>1, <2>1, <2>2, <2>4, <2>5 DEF Sound
<1>5. Keeps(mem, disk, printer', print')
  BY <1>1, InvIs
<1>6. feed' \in since'
  BY <1>1
<1> QED BY <1>1, <1>3, <1>4, <1>5, <1>6, PrinterStep

-----------------------------------------------------------------------------
(* The steps of Edge. *)

\* What a state holds as pending, it holds.
LEMMA KeepsItself ==
    ASSUME NEW m \in EdgeState, NEW q, NEW n
    PROVE  Keeps(m, m, q, n)
<1>1. m.tracker # NoTracker => m.tracker.pending \in Nat
  BY StateTyped
<1> QED BY <1>1 DEF Keeps

\* The printer goes on; m is the new state in memory, which may be saved.
LEMMA EdgeStep ==
    ASSUME IInv, NEW m \in EdgeState, NEW st \in BOOLEAN, st => steady,
           Sound(m, printer, feed, print, extruded, since, st),
           Len(disk.log) <= Len(m.log), Keeps(m, disk, printer, print),
           mem' = m, steady' = st, printer' = printer, feed' = feed, print' = print,
           extruded' = extruded, changes' = changes, unsaved' \in Nat,
           disk' = m \/ (disk' = disk /\ since' = since),
           \/ since' = since
           \/ /\ since' = {feed}
              /\ m.tracker # NoTracker /\ ~m.tracker.suspended => m.tracker.route = feed
    PROVE  IInv' /\ Keeps(mem', disk, printer, print)
<1>1. /\ TypeOK /\ feed \in since /\ since \subseteq Feeds /\ feed \in Feeds
      /\ disk \in EdgeState /\ Sound(disk, printer, feed, print, extruded, since, steady)
  BY InvIs DEF TypeOK
<1>2. since' \subseteq Feeds /\ feed' \in since'
  BY <1>1
<1>3. disk' \in EdgeState /\ mem' \in EdgeState /\ steady' \in BOOLEAN
  BY <1>1
<1>4. TypeOK'
  <2>1. /\ printer \in [state : {"standby"} \union Active \union Ended,
                        file : Files \union {NoFile}, used : Nat]
        /\ print \in Nat /\ changes \in Nat /\ extruded \in [Routes -> Nat]
    BY <1>1 DEF TypeOK
  <2> QED BY <1>1, <1>2, <1>3, <2>1 DEF TypeOK
<1>5. Sound(m, printer, feed, print, extruded, since', st)
  <2>1. Unbroken(m.tracker, since)
    BY DEF Sound
  <2>2. Unbroken(m.tracker, since')
    BY <2>1 DEF Unbroken
  <2> QED BY <2>2 DEF Sound
<1>6. CASE disk' = m
  <2>1. Keeps(m, m, printer, print)
    BY KeepsItself
  <2>2. Len(m.log) <= Len(m.log)
    <3>1. m.log \in Seq(Event)
      BY DEF EdgeState
    <3> QED BY <3>1
  <2> QED BY <1>2, <1>4, <1>5, <1>6, <2>1, <2>2 DEF IInv
<1>7. CASE disk' = disk /\ since' = since
  <2>1. Sound(disk, printer, feed, print, extruded, since, st)
    BY <1>1 DEF Sound, Full
  <2> QED BY <1>2, <1>4, <1>5, <1>7, <2>1 DEF IInv
<1>8. Keeps(mem', disk, printer, print)
  OBVIOUS
<1> QED BY <1>6, <1>7, <1>8

LEMMA MemGood == ASSUME IInv PROVE Good(mem)
BY InvIs DEF Good

\* Keep, in the terms of the new state.
LEMMA Kept ==
    ASSUME IInv, NEW c, Keep(c)
    PROVE  /\ mem' = [tracker |-> c.tracker, log |-> mem.log \o c.events]
           /\ disk' = mem' \/ disk' = disk
           /\ unsaved' \in Nat
<1>1. unsaved \in Nat
  BY InvIs DEF TypeOK
<1>2. /\ mem' = [tracker |-> c.tracker, log |-> mem.log \o c.events]
      /\ \/ disk' = mem' /\ unsaved' = unsaved
         \/ disk' = disk /\ unsaved' = unsaved + 1
  BY Zenon DEF Keep
<1>3. unsaved + 1 \in Nat
  BY <1>1
<1> QED BY <1>1, <1>2, <1>3, Zenon

LEMMA SampleInv ==
    ASSUME IInv, Sample PROVE IInv' /\ Keeps(mem', disk, printer, print)
<1>1. PICK due \in BOOLEAN : Keep(CaptureUsage(mem.tracker, due))
  BY DEF Sample
<1> DEFINE c == CaptureUsage(mem.tracker, due)
           m == [tracker |-> c.tracker, log |-> mem.log \o c.events]
<1>2. /\ feed # Native /\ since' = IF disk' = mem' THEN {feed} ELSE since
      /\ printer' = printer /\ feed' = feed /\ print' = print /\ extruded' = extruded
      /\ steady' = steady /\ changes' = changes
  BY DEF Sample
<1>3. mem' = m /\ (disk' = mem' \/ disk' = disk) /\ unsaved' \in Nat
  <2> HIDE DEF c
  <2>1. Keep(c)
    BY <1>1 DEF c
  <2> QED BY <2>1, Kept
<1>4. /\ c.tracker \in Tracker \union {NoTracker}
      /\ c.tracker # NoTracker => c.tracker.route = feed
      /\ Good(m)
  <2>1. /\ Env /\ mem \in EdgeState /\ Good(mem) /\ Ordered(disk.log)
        /\ c = CaptureUsage(mem.tracker, due)
    BY InvIs, MemGood
  <2> HIDE DEF c
  <2> QED BY <1>2, <2>1, CaptureGood, Zenon
<1>5. m.tracker = c.tracker
  OBVIOUS
<1> HIDE DEF m, c
<1>6. /\ m \in EdgeState /\ Sound(m, printer, feed, print, extruded, since, steady)
      /\ Len(disk.log) <= Len(m.log) /\ Keeps(m, disk, printer, print)
  BY <1>4 DEF Good
<1>7. steady \in BOOLEAN
  BY InvIs DEF TypeOK
<1>8. /\ disk' = m \/ (disk' = disk /\ since' = since)
      /\ since' = since \/ (since' = {feed}
            /\ (m.tracker # NoTracker /\ ~m.tracker.suspended => m.tracker.route = feed))
  BY <1>2, <1>3, <1>4, <1>5
<1>9. steady => steady
  OBVIOUS
<1> QED BY <1>2, <1>3, <1>6, <1>7, <1>8, <1>9, EdgeStep, Zenon

LEMMA SampleNothingInv ==
    ASSUME IInv, SampleNothing PROVE IInv' /\ Keeps(mem', disk, printer, print)
<1> DEFINE t == mem.tracker
           u == Suspended(mem.tracker)
           m == [tracker |-> u, log |-> mem.log]
<1>1. /\ Keep(Result(u, <<>>)) /\ since' = IF disk' = mem' THEN {feed} ELSE since
      /\ printer' = printer /\ feed' = feed /\ print' = print /\ extruded' = extruded
      /\ steady' = FALSE /\ changes' = changes
  BY DEF SampleNothing
<1>2. mem \in EdgeState /\ t \in Tracker \union {NoTracker} /\ mem.log \in Seq(Event)
  BY InvIs DEF EdgeState
<1>3. mem' = m /\ (disk' = mem' \/ disk' = disk) /\ unsaved' \in Nat
  <2>1. Result(u, <<>>).tracker = u /\ Result(u, <<>>).events = <<>>
    BY ResultIs
  <2>2. mem.log \o <<>> = mem.log
    BY <1>2, NothingAppended
  <2> HIDE DEF u
  <2> QED BY <1>1, <2>1, <2>2, Kept
<1>4. /\ u \in Tracker \union {NoTracker} /\ (u = NoTracker <=> t = NoTracker)
      /\ t # NoTracker =>
            /\ u.suspended /\ u.job = t.job /\ u.file = t.file /\ u.used = t.used
            /\ u.route = t.route /\ u.next = t.next /\ u.pending = t.pending
            /\ u.done = t.done /\ u.print = t.print /\ u.base = t.base
  <2>1. CASE t = NoTracker
    BY <2>1 DEF Suspended
  <2>2. CASE t # NoTracker
    <3>1. t \in Tracker /\ u = [t EXCEPT !.suspended = TRUE]
      BY <1>2, <2>2 DEF Suspended
    <3> HIDE DEF t, u
    <3>2. u \in Tracker
      BY <3>1 DEF Tracker
    <3> QED BY <2>2, <3>1, <3>2, NoTrackerAssumption DEF Tracker
  <2> QED BY <2>1, <2>2
<1>5. m.tracker = u /\ m.log = mem.log
  OBVIOUS
<1>6. m \in EdgeState
  BY <1>2, <1>4 DEF EdgeState
<1>7. /\ Ordered(mem.log) /\ Continues(mem) /\ Traces(t, printer, print)
      /\ Covered(mem, printer, feed, extruded)
      /\ Len(disk.log) <= Len(mem.log) /\ Keeps(mem, disk, printer, print)
  BY InvIs DEF Sound
<1> HIDE DEF u, m
<1>8. Ordered(m.log) /\ Len(disk.log) <= Len(m.log)
  BY <1>5, <1>7
<1>9. Continues(m)
  BY <1>4, <1>5, <1>7, Zenon DEF Continues
<1>10. Traces(m.tracker, printer, print)
  BY <1>4, <1>5, <1>7, Zenon DEF Traces
<1>11. Unbroken(m.tracker, since)
  BY <1>4, <1>5, Zenon DEF Unbroken
<1>12. Covered(m, printer, feed, extruded)
  BY <1>4, <1>5, <1>7, Zenon DEF Covered, PendingOn
<1>13. Full(m, feed, print, FALSE)
  BY DEF Full
<1>14. Keeps(m, disk, printer, print)
  BY <1>4, <1>5, <1>7, Zenon DEF Keeps
<1>15. Sound(m, printer, feed, print, extruded, since, FALSE)
  BY <1>8, <1>9, <1>10, <1>11, <1>12, <1>13, Zenon DEF Sound
<1>16. /\ disk' = m \/ (disk' = disk /\ since' = since)
       /\ since' = since \/ (since' = {feed}
             /\ (m.tracker # NoTracker /\ ~m.tracker.suspended => m.tracker.route = feed))
  BY <1>1, <1>3, <1>4, <1>5
<1>17. FALSE \in BOOLEAN /\ (FALSE => steady)
  OBVIOUS
<1> QED BY <1>1, <1>3, <1>6, <1>8, <1>14, <1>15, <1>16, <1>17, EdgeStep, Zenon

LEMMA FlushInv ==
    ASSUME IInv, Flush PROVE IInv' /\ Keeps(mem', disk, printer, print)
<1> DEFINE c == CapturePending(mem.tracker)
           m == [tracker |-> c.tracker, log |-> mem.log \o c.events]
<1>1. /\ Keep(c)
      /\ printer' = printer /\ feed' = feed /\ print' = print /\ extruded' = extruded
      /\ since' = since /\ steady' = steady /\ changes' = changes
  BY DEF Flush, env
<1>2. /\ mem = [tracker |-> mem.tracker, log |-> mem.log]
      /\ mem.tracker \in Tracker \union {NoTracker} /\ mem.log \in Seq(Event) /\ Env
  BY InvIs DEF EdgeState
<1>3. mem' = m /\ (disk' = mem' \/ disk' = disk) /\ unsaved' \in Nat
  <2> HIDE DEF c
  <2> QED BY <1>1, Kept
<1>4. Good(m)
  <2>1. c = CapturePending(mem.tracker)
    OBVIOUS
  <2>2. Good([tracker |-> mem.tracker, log |-> mem.log])
    BY <1>2, MemGood
  <2> HIDE DEF c
  <2> QED BY <1>2, <2>1, <2>2, FlushGood, Zenon
<1> HIDE DEF m, c
<1>5. /\ m \in EdgeState /\ Sound(m, printer, feed, print, extruded, since, steady)
      /\ Len(disk.log) <= Len(m.log) /\ Keeps(m, disk, printer, print)
  BY <1>4 DEF Good
<1>6. steady \in BOOLEAN /\ (steady => steady)
  BY InvIs DEF TypeOK
<1>7. /\ disk' = m \/ (disk' = disk /\ since' = since)
      /\ since' = since \/ (since' = {feed}
            /\ (m.tracker # NoTracker /\ ~m.tracker.suspended => m.tracker.route = feed))
  BY <1>1, <1>3
<1> QED BY <1>1, <1>3, <1>5, <1>6, <1>7, EdgeStep, Zenon

LEMMA EndCycleInv ==
    ASSUME IInv, EndCycle PROVE IInv' /\ Keeps(mem', disk, printer, print)
<1>1. /\ disk' = mem /\ mem' = mem /\ unsaved' = unsaved
      /\ printer' = printer /\ feed' = feed /\ print' = print /\ extruded' = extruded
      /\ since' = since /\ steady' = steady /\ changes' = changes
  BY DEF EndCycle, env
<1>2. /\ mem \in EdgeState /\ Sound(mem, printer, feed, print, extruded, since, steady)
      /\ Len(disk.log) <= Len(mem.log) /\ Keeps(mem, disk, printer, print)
  BY InvIs
<1>3. steady \in BOOLEAN /\ (steady => steady) /\ unsaved' \in Nat
  BY <1>1, InvIs DEF TypeOK
<1>4. /\ disk' = mem \/ (disk' = disk /\ since' = since)
      /\ since' = since \/ (since' = {feed}
            /\ (mem.tracker # NoTracker /\ ~mem.tracker.suspended => mem.tracker.route = feed))
  BY <1>1
<1> QED BY <1>1, <1>2, <1>3, <1>4, EdgeStep, Zenon

LEMMA RestartInv == ASSUME IInv, Restart PROVE IInv'
<1>1. /\ mem' = disk /\ disk' = disk /\ unsaved' = unsaved
      /\ printer' = printer /\ feed' = feed /\ print' = print /\ extruded' = extruded
      /\ since' = since /\ steady' = steady /\ changes' = changes
  BY DEF Restart, env
<1>2. /\ TypeOK /\ feed \in since /\ disk \in EdgeState /\ disk.log \in Seq(Event)
      /\ Sound(disk, printer, feed, print, extruded, since, steady)
  BY InvIs DEF EdgeState
<1>3. TypeOK'
  BY <1>1, <1>2 DEF TypeOK
<1>4. Keeps(disk, disk, printer, print) /\ Len(disk.log) <= Len(disk.log)
  BY <1>2, KeepsItself
<1> QED BY <1>1, <1>2, <1>3, <1>4 DEF IInv

-----------------------------------------------------------------------------
(* The invariant, and what follows from it. *)

\* An empty log charges nothing.
LEMMA NothingCharged ==
    ASSUME NEW r
    PROVE  ChargedTo(<<>>, r) = 0
<1> DEFINE log == <<>>
           F == [i \in DOMAIN log |-> IF log[i].route = r THEN log[i].length ELSE 0]
<1>1. DOMAIN F = {}
  <2>1. DOMAIN log = {}
    OBVIOUS
  <2> HIDE DEF log
  <2> QED BY <2>1
<1>2. ChargedTo(log, r) = SumFunctionOnSet(F, DOMAIN F)
  BY Zenon DEF ChargedTo, SumFunction
<1> HIDE DEF F
<1> QED BY <1>1, <1>2, SumEmpty

LEMMA InitInv == ASSUME Init PROVE IInv
<1>1. /\ printer = [state |-> "standby", file |-> NoFile, used |-> 0]
      /\ feed = NoRoute /\ since = {feed} /\ steady = TRUE
      /\ mem = [tracker |-> NoTracker, log |-> <<>>] /\ disk = mem
      /\ print = 0 /\ changes = 0 /\ unsaved = 0 /\ extruded = [r \in Routes |-> 0]
  BY DEF Init
<1>2. <<>> \in Seq(Event) /\ Len(<<>>) = 0 /\ DOMAIN <<>> = {}
  OBVIOUS
<1>3. mem.tracker = NoTracker /\ mem.log = <<>> /\ mem \in EdgeState
  BY <1>1, <1>2 DEF EdgeState
<1>4. TypeOK
  BY <1>1, <1>3 DEF TypeOK, Feeds
<1>5. Ordered(mem.log)
  BY <1>2, <1>3 DEF Ordered
<1>6. Covered(mem, printer, feed, extruded)
  <2>1. \A r \in Routes : ChargedTo(mem.log, r) + PendingOn(mem.tracker, r) <= extruded[r]
    <3> TAKE r \in Routes
    <3>1. ChargedTo(mem.log, r) = 0
      BY <1>3, NothingCharged
    <3>2. PendingOn(mem.tracker, r) = 0
      BY <1>3 DEF PendingOn
    <3>3. extruded[r] = 0
      BY <1>1
    <3> QED BY <3>1, <3>2, <3>3
  <2> QED BY <1>3, <2>1 DEF Covered
<1>7. /\ Continues(mem) /\ Traces(mem.tracker, printer, print)
      /\ Unbroken(mem.tracker, since) /\ Full(mem, feed, print, steady)
      /\ Keeps(mem, mem, printer, print)
  BY <1>3 DEF Continues, Traces, Unbroken, Full, Keeps
<1>8. Sound(mem, printer, feed, print, extruded, since, steady)
  BY <1>5, <1>6, <1>7 DEF Sound
<1>9. Len(mem.log) <= Len(mem.log) /\ feed \in since
  BY <1>1, <1>2, <1>3
<1> QED BY <1>1, <1>4, <1>7, <1>8, <1>9 DEF IInv

LEMMA StutterInv == ASSUME IInv, UNCHANGED vars PROVE IInv'
<1>1. /\ mem' = mem /\ disk' = disk /\ unsaved' = unsaved
      /\ printer' = printer /\ feed' = feed /\ print' = print /\ extruded' = extruded
      /\ since' = since /\ steady' = steady /\ changes' = changes
  BY DEF vars, env, edge
<1> QED BY <1>1 DEF IInv, TypeOK

LEMMA NextInv == ASSUME IInv, [Next]_vars PROVE IInv'
BY StartPrintInv, ExtrudeInv, PauseOrResumeInv, EndPrintInv, ResetPrinterInv,
   ChangeFeedInv, SampleInv, SampleNothingInv, FlushInv, EndCycleInv, RestartInv,
   StutterInv, Zenon DEF Next

LEMMA Invariance == Spec => []IInv
<1>1. Init => IInv
  BY InitInv
<1>2. IInv /\ [Next]_vars => IInv'
  BY NextInv
<1> QED BY <1>1, <1>2, PTL DEF Spec

\* The variables of Edge and of the printer always have their types.
THEOREM TypeCorrect == Spec => []TypeOK
<1>1. IInv => TypeOK
  BY DEF IInv
<1> QED BY <1>1, Invariance, PTL

\* No spool is charged more than it fed, in memory or in the state file: not across
\* prints, spool changes, suspensions, crashes or saves that fail (capture_usage_events).
THEOREM NobodyOvercharged == Spec => []NeverOvercharged
<1>1. IInv => NeverOvercharged
  BY InvIs, Zenon DEF Sound, Covered, NeverOvercharged
<1> QED BY <1>1, Invariance, PTL

\* The events of a job are numbered 1, 2, 3..., with none after the terminal one and
\* none after an event of a later job (what the cloud requires of a job's segments).
THEOREM SegmentsAreInOrder == Spec => []SegmentsInOrder
<1>1. IInv => SegmentsInOrder
  BY InvIs, Zenon DEF Ordered, SegmentsInOrder
<1> QED BY <1>1, Invariance, PTL

\* A print that runs on one spool and is never suspended is charged in full, from the
\* counter at which Edge first saw it to its end.
THEOREM SteadyPrintIsCharged == Spec => []SteadyPrintCharged
<1>1. ASSUME IInv PROVE SteadyPrintCharged
  <2> DEFINE t == mem.tracker
  <2> SUFFICES ASSUME t # NoTracker, t.done, t.print = print, steady, feed \in Routes
               PROVE  ChargedFor(mem.log, t.job) = t.used - t.base
    BY DEF SteadyPrintCharged
  <2>1. Continues(mem) /\ Full(mem, feed, print, steady) /\ mem \in EdgeState
    BY <1>1, InvIs DEF Sound
  <2>2. ChargedFor(mem.log, t.job) + t.pending = t.used - t.base
    BY <2>1 DEF Full
  <2>3. t.pending = 0
    BY <2>1 DEF Continues
  <2>4. ChargedFor(mem.log, t.job) \in Nat
    <3>1. mem.log \in Seq(Event)
      BY <2>1 DEF EdgeState
    <3> QED BY <3>1, ChargedTyped
  <2>5. t.pending \in Nat
    <3>1. t \in Tracker
      BY <2>1 DEF EdgeState
    <3> QED BY <3>1, TrackerTyped
  <2> HIDE DEF t
  <2> QED BY <2>2, <2>3, <2>4
<1>2. IInv => SteadyPrintCharged
  BY <1>1
<1> QED BY <1>2, Invariance, PTL

\* What a save leaves in the state file: what the file held as pending is pending in
\* what replaces it, or charged to its route by a new event, or its print is over.
LEMMA FileKeeps ==
    ASSUME IInv, [Next]_vars
    PROVE  LET t == disk.tracker
               u == disk'.tracker
           IN (t # NoTracker /\ t.pending > 0) =>
                 \/ u # NoTracker /\ u.job = t.job /\ u.route = t.route
                       /\ u.pending >= t.pending
                 \/ \E i \in DOMAIN disk'.log :
                       /\ i > Len(disk.log)
                       /\ disk'.log[i].job = t.job
                       /\ disk'.log[i].route = t.route
                       /\ disk'.log[i].length >= t.pending
                 \/ t.print < print \/ printer.state = "standby"
<1>1. disk' = disk \/ (disk' = mem' /\ Keeps(mem', disk, printer, print))
  <2>1. CASE StartPrint
    BY <2>1 DEF StartPrint, edge
  <2>2. CASE Extrude
    BY <2>2 DEF Extrude, edge
  <2>3. CASE PauseOrResume
    BY <2>3 DEF PauseOrResume, edge
  <2>4. CASE EndPrint
    BY <2>4 DEF EndPrint, edge
  <2>5. CASE ResetPrinter
    BY <2>5 DEF ResetPrinter, edge
  <2>6. CASE ChangeFeed
    BY <2>6 DEF ChangeFeed, edge
  <2>7. CASE Sample
    <3>1. disk' = disk \/ disk' = mem'
      BY <2>7 DEF Sample, Keep
    <3> QED BY <2>7, <3>1, SampleInv
  <2>8. CASE SampleNothing
    <3>1. disk' = disk \/ disk' = mem'
      BY <2>8 DEF SampleNothing, Keep
    <3> QED BY <2>8, <3>1, SampleNothingInv
  <2>9. CASE Flush
    <3>1. disk' = disk \/ disk' = mem'
      BY <2>9 DEF Flush, Keep
    <3> QED BY <2>9, <3>1, FlushInv
  <2>10. CASE EndCycle
    <3>1. disk' = mem'
      BY <2>10 DEF EndCycle
    <3> QED BY <2>10, <3>1, EndCycleInv
  <2>11. CASE Restart
    BY <2>11 DEF Restart
  <2>12. CASE UNCHANGED vars
    BY <2>12 DEF vars, edge
  <2> QED BY <2>1, <2>2, <2>3, <2>4, <2>5, <2>6, <2>7, <2>8, <2>9, <2>10, <2>11, <2>12
          DEF Next
<1>2. Keeps(disk', disk, printer, print)
  BY <1>1, InvIs, KeepsItself
<1> QED BY <1>2, Zenon DEF Keeps

\* What the state file holds as pending is not lost: the next file keeps it, or charges
\* it to the same route, until its print is over (the state is saved with the outbox).
THEOREM PendingIsKept == Spec => EvidenceKept
<1>1. IInv /\ [Next]_vars =>
        [LET t == disk.tracker
             u == disk'.tracker
         IN (t # NoTracker /\ t.pending > 0) =>
               \/ u # NoTracker /\ u.job = t.job /\ u.route = t.route /\ u.pending >= t.pending
               \/ \E i \in DOMAIN disk'.log :
                     /\ i > Len(disk.log)
                     /\ disk'.log[i].job = t.job
                     /\ disk'.log[i].route = t.route
                     /\ disk'.log[i].length >= t.pending
               \/ t.print < print \/ printer.state = "standby"]_vars
  BY FileKeeps
<1> QED BY <1>1, Invariance, PTL DEF Spec, EvidenceKept
=============================================================================
