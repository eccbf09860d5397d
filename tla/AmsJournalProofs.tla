-------------------------- MODULE AmsJournalProofs --------------------------
(***************************************************************************)
(* Proofs about module AmsJournal, for every number of connections, states, *)
(* slots (at least two), records and boots.                                 *)
(***************************************************************************)
EXTENDS AmsJournal, Induction, SequenceTheorems

-----------------------------------------------------------------------------
(* The inductive invariant. *)

\* The record of this sequence is in its slot.
Kept(q) == flash[slot_of(q)].kind = "committed" /\ flash[slot_of(q)].record.sequence = q

\* A slot holds no record but the latest one that belongs there.
SlotsHoldLatest ==
    \A s \in SlotNumbers : flash[s].kind = "committed" =>
        LET q == flash[s].record.sequence
        IN  /\ q \in 1..Len(log) /\ Len(log) < q + SlotCount
            /\ slot_of(q) = s /\ flash[s].record = log[q]

\* The latest records are there, but for the one whose slot is the next to be written.
LatestKept == \A q \in 1..Len(log) : Len(log) + 1 < q + SlotCount => Kept(q)

\* An open journal knows what it holds.
ReadyKnows ==
    status = "ready" =>
        /\ ~Ambiguous
        /\ newest = Len(log)
        /\ newest = 0 => oldest = 0
        /\ newest # 0 => oldest \in 1..newest
        /\ \A q \in 1..newest : Kept(q) <=> oldest <= q

\* A record belongs to this boot or to an earlier one.
BootsCounted ==
    /\ status # "off" => boot # 0
    /\ \A q \in DOMAIN log : log[q].boot <= boot

Pends(i) == IF pending[i] = None THEN 0 ELSE 1

\* A connection has not dropped more states than it was told.
TurnsCounted == \A i \in Identities : dropped[i] + Pends(i) <= queued[i]

LogType ==
    /\ log \in Seq(Record) /\ Len(log) <= MaxSequence
    /\ waiting \in Seq(Identities)

IInv ==
    /\ TypeOK /\ LogType /\ BootsCounted /\ TurnsCounted
    /\ SlotsHoldLatest /\ LatestKept /\ ReadyKnows
    /\ AllStatesCounted
    /\ page # None => status # "off"
    /\ PageExact

-----------------------------------------------------------------------------
(* The slots of the ring. *)

LEMMA Divided ==
    ASSUME NEW x \in Nat
    PROVE  /\ x \div SlotCount \in Nat /\ x % SlotCount \in SlotNumbers
           /\ x = SlotCount * (x \div SlotCount) + (x % SlotCount)
BY BoundsAssumption DEF SlotNumbers

LEMMA NextMultiple ==
    ASSUME NEW a \in Nat, NEW b \in Nat, a < b
    PROVE  SlotCount * a + SlotCount <= SlotCount * b
<1>1. PICK c \in Nat : b = a + 1 + c
  <2>1. b - a - 1 \in Nat /\ b = a + 1 + (b - a - 1)
    OBVIOUS
  <2> QED BY <2>1
<1>2. /\ SlotCount * (a + 1 + c) = SlotCount * a + SlotCount + SlotCount * c
      /\ SlotCount * c \in Nat /\ SlotCount * a \in Nat
  BY BoundsAssumption
<1> QED BY <1>1, <1>2, BoundsAssumption

LEMMA SlotNumber == ASSUME NEW q \in Nat \ {0} PROVE slot_of(q) \in SlotNumbers
BY Divided DEF slot_of

\* Two records less than a ring apart have different slots.
LEMMA SlotsDiffer ==
    ASSUME NEW p \in Nat \ {0}, NEW q \in Nat \ {0}, p < q, q < p + SlotCount
    PROVE  slot_of(p) # slot_of(q)
<1> DEFINE x == p - 1
           y == q - 1
           a == x \div SlotCount
           b == y \div SlotCount
<1>1. x \in Nat /\ y \in Nat /\ x < y /\ y < x + SlotCount
  BY BoundsAssumption
<1>2. /\ a \in Nat /\ x % SlotCount \in SlotNumbers /\ x = SlotCount * a + (x % SlotCount)
      /\ b \in Nat /\ y % SlotCount \in SlotNumbers /\ y = SlotCount * b + (y % SlotCount)
  BY <1>1, Divided
<1>3. SUFFICES ASSUME x % SlotCount = y % SlotCount PROVE FALSE
  BY DEF slot_of
<1> HIDE DEF x, y, a, b
<1>4. SlotCount * a \in Nat /\ SlotCount * b \in Nat
  BY <1>2, BoundsAssumption
<1>5. SlotCount * b - SlotCount * a = y - x
  BY <1>1, <1>2, <1>3, <1>4 DEF SlotNumbers
<1>6. CASE a < b
  BY <1>1, <1>2, <1>4, <1>5, <1>6, NextMultiple, BoundsAssumption
<1>7. CASE b < a
  BY <1>1, <1>2, <1>4, <1>5, <1>7, NextMultiple, BoundsAssumption
<1>8. CASE a = b
  BY <1>1, <1>4, <1>5, <1>8
<1> QED BY <1>2, <1>6, <1>7, <1>8

\* A record takes the slot of the one a ring before it.
LEMMA SlotAgain ==
    ASSUME NEW q \in Nat \ {0}
    PROVE  slot_of(q + SlotCount) = slot_of(q)
<1> DEFINE x == q - 1
           y == x + SlotCount
           a == x \div SlotCount
           b == y \div SlotCount
<1>1. x \in Nat /\ y \in Nat /\ y = q + SlotCount - 1
  BY BoundsAssumption
<1>2. /\ a \in Nat /\ x % SlotCount \in SlotNumbers /\ x = SlotCount * a + (x % SlotCount)
      /\ b \in Nat /\ y % SlotCount \in SlotNumbers /\ y = SlotCount * b + (y % SlotCount)
  BY <1>1, Divided
<1>3. x % SlotCount = y % SlotCount
  <2>1. y = x + SlotCount
    OBVIOUS
  <2> HIDE DEF x, y, a, b
  <2>2. SlotCount * a \in Nat /\ SlotCount * b \in Nat
    BY <1>2, BoundsAssumption
  <2>3. SlotCount * (a + 1) = SlotCount * a + SlotCount
    BY <1>2, BoundsAssumption
  <2>4. CASE a + 1 < b
    BY <1>1, <1>2, <2>1, <2>2, <2>3, <2>4, NextMultiple, BoundsAssumption DEF SlotNumbers
  <2>5. CASE b < a
    BY <1>1, <1>2, <2>1, <2>2, <2>5, NextMultiple, BoundsAssumption DEF SlotNumbers
  <2>6. CASE b = a
    <3>1. SlotCount * b = SlotCount * a
      BY <2>6
    <3>2. y % SlotCount = SlotCount + (x % SlotCount)
      BY <1>1, <1>2, <2>1, <2>2, <3>1, BoundsAssumption DEF SlotNumbers
    <3> QED BY <1>2, <3>2, BoundsAssumption DEF SlotNumbers
  <2>7. CASE b = a + 1
    <3>1. SlotCount * b = SlotCount * a + SlotCount
      BY <2>3, <2>7
    <3>2. \A m, r, s \in Int : m + SlotCount + s = m + r + SlotCount => r = s
      BY BoundsAssumption
    <3>3. x % SlotCount \in Int /\ y % SlotCount \in Int /\ SlotCount * a \in Int
      BY <1>2, <2>2, BoundsAssumption DEF SlotNumbers
    <3>4. SlotCount * a + SlotCount + (y % SlotCount)
             = SlotCount * a + (x % SlotCount) + SlotCount
      BY <1>2, <2>1, <3>1
    <3> QED BY <3>2, <3>3, <3>4
  <2>8. a + 1 < b \/ b < a \/ b = a \/ b = a + 1
    BY <1>2
  <2> QED BY <2>4, <2>5, <2>6, <2>7, <2>8
<1>4. slot_of(q + SlotCount) = y % SlotCount
  <2>1. (q + SlotCount) - 1 = y
    BY BoundsAssumption
  <2> HIDE DEF y
  <2> QED BY <2>1, Zenon DEF slot_of
<1> QED BY <1>3, <1>4 DEF slot_of

-----------------------------------------------------------------------------
(* The queue of the connections. *)

LEMMA QueueLonger ==
    ASSUME NEW w \in Seq(Identities), IsInjective(w), NEW i \in Identities, i \notin ToSet(w)
    PROVE  /\ Append(w, i) \in Seq(Identities) /\ IsInjective(Append(w, i))
           /\ ToSet(Append(w, i)) = ToSet(w) \union {i}
<1> DEFINE v == Append(w, i)
<1>1. /\ v \in Seq(Identities) /\ DOMAIN v = 1..(Len(w) + 1) /\ DOMAIN w = 1..Len(w)
      /\ Len(w) \in Nat
      /\ \A k \in 1..Len(w) : v[k] = w[k]
      /\ v[Len(w) + 1] = i
  OBVIOUS
<1> HIDE DEF v
<1>2. \A k \in 1..Len(w) : v[k] # i
  BY <1>1 DEF ToSet
<1>3. IsInjective(v)
  BY <1>1, <1>2 DEF IsInjective
<1>4. ToSet(v) = ToSet(w) \union {i}
  BY <1>1 DEF ToSet
<1> QED BY <1>1, <1>3, <1>4 DEF v

LEMMA QueueTail ==
    ASSUME NEW w \in Seq(Identities), IsInjective(w), w # <<>>
    PROVE  /\ Tail(w) \in Seq(Identities) /\ IsInjective(Tail(w))
           /\ Head(w) \in ToSet(w)
           /\ ToSet(Tail(w)) = ToSet(w) \ {Head(w)}
<1> DEFINE v == Tail(w)
<1>1. /\ v \in Seq(Identities) /\ DOMAIN v = 1..(Len(w) - 1) /\ DOMAIN w = 1..Len(w)
      /\ Len(w) \in Nat \ {0}
      /\ \A k \in 1..(Len(w) - 1) : v[k] = w[k + 1]
      /\ Head(w) = w[1]
  OBVIOUS
<1> HIDE DEF v
<1>2. IsInjective(v)
  <2>1. ASSUME NEW a \in DOMAIN v, NEW b \in DOMAIN v, v[a] = v[b] PROVE a = b
    <3>1. w[a + 1] = w[b + 1] /\ a + 1 \in DOMAIN w /\ b + 1 \in DOMAIN w
      BY <1>1, <2>1
    <3>2. a + 1 = b + 1
      BY <3>1 DEF IsInjective
    <3> QED BY <1>1, <3>2
  <2> QED BY <2>1 DEF IsInjective
<1>3. Head(w) \in ToSet(w)
  BY <1>1 DEF ToSet
<1>4. ToSet(v) = ToSet(w) \ {Head(w)}
  <2>1. ASSUME NEW k \in DOMAIN v PROVE v[k] \in ToSet(w) /\ v[k] # Head(w)
    <3>1. k + 1 \in DOMAIN w /\ k + 1 # 1 /\ 1 \in DOMAIN w /\ v[k] = w[k + 1]
      BY <1>1
    <3> QED BY <1>1, <3>1 DEF ToSet, IsInjective
  <2>2. ASSUME NEW k \in DOMAIN w, w[k] # Head(w) PROVE w[k] \in ToSet(v)
    <3>1. k - 1 \in DOMAIN v /\ v[k - 1] = w[k]
      BY <1>1, <2>2
    <3> QED BY <3>1 DEF ToSet
  <2> QED BY <2>1, <2>2 DEF ToSet
<1> QED BY <1>1, <1>2, <1>3, <1>4 DEF v

LEMMA QueueWithout ==
    ASSUME NEW w \in Seq(Identities), IsInjective(w), NEW i \in ToSet(w)
    PROVE  /\ RemoveFirst(w, i) \in Seq(Identities) /\ IsInjective(RemoveFirst(w, i))
           /\ ToSet(RemoveFirst(w, i)) = ToSet(w) \ {i}
<1> DEFINE I == {j \in 1..Len(w) : w[j] = i}
           k == Min(I)
           v == RemoveAt(w, k)
<1>1. Len(w) \in Nat /\ DOMAIN w = 1..Len(w)
  OBVIOUS
<1>2. I # {} /\ I \in SUBSET Nat
  BY <1>1 DEF ToSet
<1>3. k \in I
  <2>1. \E x \in I : \A y \in I : x <= y
    BY <1>2, Least
  <2> QED BY <2>1 DEF Min
<1>4. RemoveFirst(w, i) = v
  <2>1. \E j \in 1..Len(w) : w[j] = i
    BY <1>2
  <2>2. SelectInSeq(w, LAMBDA x : x = i) = k
    BY <1>2, Zenon DEF SelectInSeq
  <2> QED BY <2>1, <2>2 DEF RemoveFirst
<1>5. k \in 1..Len(w) /\ w[k] = i
  BY <1>3
<1> HIDE DEF k
<1>6. /\ v \in Seq(Identities) /\ Len(v) = Len(w) - 1 /\ DOMAIN v = 1..(Len(w) - 1)
      /\ \A j \in 1..(Len(w) - 1) : v[j] = IF j < k THEN w[j] ELSE w[j + 1]
  BY <1>5, Removed
<1> HIDE DEF v
<1> DEFINE m(j) == IF j < k THEN j ELSE j + 1
<1>7. \A j \in DOMAIN v : m(j) \in DOMAIN w /\ v[j] = w[m(j)] /\ m(j) # k
  BY <1>1, <1>5, <1>6
<1>8. \A a, b \in DOMAIN v : m(a) = m(b) => a = b
  BY <1>1, <1>5, <1>6
<1>9. IsInjective(v)
  <2> HIDE DEF m
  <2> QED BY <1>7, <1>8 DEF IsInjective
<1>10. ToSet(v) = ToSet(w) \ {i}
  <2>1. ASSUME NEW j \in DOMAIN v PROVE v[j] \in ToSet(w) /\ v[j] # i
    <3> HIDE DEF m
    <3> QED BY <1>1, <1>5, <1>7 DEF IsInjective, ToSet
  <2>2. ASSUME NEW j \in DOMAIN w, w[j] # i PROVE w[j] \in ToSet(v)
    <3> DEFINE l == IF j < k THEN j ELSE j - 1
    <3>1. l \in DOMAIN v /\ v[l] = w[j]
      BY <1>1, <1>5, <1>6, <2>2
    <3> QED BY <3>1 DEF ToSet
  <2> QED BY <2>1, <2>2 DEF ToSet
<1> QED BY <1>4, <1>6, <1>9, <1>10

-----------------------------------------------------------------------------
(* The ring. *)

LEMMA RunEnds ==
    ASSUME NEW a \in Int, NEW b \in Int, a <= b
    PROVE  Min(a..b) = a /\ Max(a..b) = b /\ (b >= 0 => Max((a..b) \union {0}) = b)
<1>1. Min(a..b) = a
  <2>1. a \in a..b /\ \A y \in a..b : a <= y
    OBVIOUS
  <2>2. \A x \in a..b : (\A y \in a..b : x <= y) => x = a
    OBVIOUS
  <2> QED BY <2>1, <2>2 DEF Min
<1>2. Max(a..b) = b
  <2>1. b \in a..b /\ \A y \in a..b : b >= y
    OBVIOUS
  <2>2. \A x \in a..b : (\A y \in a..b : x >= y) => x = b
    OBVIOUS
  <2> QED BY <2>1, <2>2 DEF Max
<1>3. ASSUME b >= 0 PROVE Max((a..b) \union {0}) = b
  <2> DEFINE M == (a..b) \union {0}
  <2>1. b \in M /\ \A y \in M : b >= y
    BY <1>3
  <2>2. \A x \in M : (\A y \in M : x >= y) => x = b
    BY <1>3
  <2> QED BY <2>1, <2>2 DEF Max
<1> QED BY <1>1, <1>2, <1>3

LEMMA SlotRecord ==
    ASSUME TypeOK, NEW s \in SlotNumbers, flash[s].kind = "committed"
    PROVE  flash[s].record \in Record
BY DEF TypeOK, Slot

LEMMA FoundSequences ==
    ASSUME TypeOK, LogType, SlotsHoldLatest
    PROVE  {r.sequence : r \in Found} = {q \in 1..Len(log) : Kept(q)}
<1>1. ASSUME NEW r \in Found PROVE r.sequence \in 1..Len(log) /\ Kept(r.sequence)
  <2>1. PICK s \in SlotNumbers : flash[s].kind = "committed" /\ r = flash[s].record
    BY DEF Found
  <2> QED BY <2>1 DEF SlotsHoldLatest, Kept
<1>2. ASSUME NEW q \in 1..Len(log), Kept(q) PROVE \E r \in Found : r.sequence = q
  <2>1. slot_of(q) \in SlotNumbers
    BY SlotNumber DEF LogType
  <2> QED BY <1>2, <2>1 DEF Found, Kept
<1> QED BY <1>1, <1>2

\* What is there is one run, up to the last record.
LEMMA KeptRun ==
    ASSUME TypeOK, LogType, SlotsHoldLatest, LatestKept, Len(log) # 0
    PROVE  \E lo \in 1..Len(log) :
              /\ Len(log) - lo < SlotCount
              /\ {q \in 1..Len(log) : Kept(q)} = lo..Len(log)
<1> DEFINE n == Len(log)
<1>1. n \in Nat \ {0} /\ SlotCount \in Nat \ {0, 1}
  BY BoundsAssumption DEF LogType
<1>2. \A q \in 1..n : Kept(q) => n < q + SlotCount
  BY SlotNumber DEF SlotsHoldLatest, Kept
<1>3. \A q \in 1..n : n + 1 < q + SlotCount => Kept(q)
  BY DEF LatestKept
<1> HIDE DEF n
<1>4. CASE n < SlotCount
  <2>1. \A q \in 1..n : Kept(q)
    BY <1>1, <1>3, <1>4
  <2>2. 1 \in 1..n /\ n - 1 < SlotCount /\ {q \in 1..n : Kept(q)} = 1..n
    BY <1>1, <1>4, <2>1
  <2> QED BY <2>2 DEF n
<1>5. CASE ~ (n < SlotCount)
  <2> DEFINE p == n + 1 - SlotCount
  <2>1. p \in 1..n /\ p + 1 \in 1..n
    BY <1>1, <1>5
  <2>2. CASE Kept(p)
    <3>1. \A q \in 1..n : Kept(q) <=> p <= q
      BY <1>1, <1>2, <1>3, <2>1, <2>2
    <3>2. n - p < SlotCount /\ {q \in 1..n : Kept(q)} = p..n
      BY <1>1, <2>1, <3>1
    <3> QED BY <2>1, <3>2 DEF n
  <2>3. CASE ~ Kept(p)
    <3>1. \A q \in 1..n : Kept(q) <=> p + 1 <= q
      BY <1>1, <1>2, <1>3, <2>1, <2>3
    <3>2. n - (p + 1) < SlotCount /\ {q \in 1..n : Kept(q)} = (p + 1)..n
      BY <1>1, <2>1, <3>1
    <3> QED BY <2>1, <3>2 DEF n
  <2> QED BY <2>2, <2>3
<1> QED BY <1>4, <1>5

\* The next slot is written, with the record or with something that is none.
LEMMA Rewritten ==
    ASSUME TypeOK, LogType, SlotsHoldLatest, LatestKept, newest = Len(log),
           NEW c, flash' = Written(c),
           \/ c = CommittedSlot /\ log' = Append(log, NextRecord)
           \/ /\ log' = log
              /\ c = flash[slot_of(newest + 1)] \/ c.kind # "committed"
    PROVE  SlotsHoldLatest' /\ LatestKept'
<1> DEFINE n == Len(log)
           z == slot_of(n + 1)
<1>1. n \in Nat /\ SlotCount \in Nat \ {0, 1} /\ z \in SlotNumbers
  BY BoundsAssumption, SlotNumber DEF LogType
<1>2. flash' = [flash EXCEPT ![z] = c] /\ DOMAIN flash = SlotNumbers
  BY DEF Written, TypeOK
<1>3. flash'[z] = c /\ \A s \in SlotNumbers : s # z => flash'[s] = flash[s]
  BY <1>1, <1>2
<1>4. \A q \in 1..n : n + 1 < q + SlotCount => slot_of(q) \in SlotNumbers /\ slot_of(q) # z
  <2>1. ASSUME NEW q \in 1..n, n + 1 < q + SlotCount PROVE slot_of(q) # z
    <3>1. q \in Nat \ {0} /\ n + 1 \in Nat \ {0} /\ q < n + 1
      BY <1>1
    <3> QED BY <2>1, <3>1, SlotsDiffer
  <2>2. \A q \in 1..n : slot_of(q) \in SlotNumbers
    BY <1>1, SlotNumber
  <2> QED BY <2>1, <2>2
<1>5. CASE c = CommittedSlot /\ log' = Append(log, NextRecord)
  <2>1. /\ Len(log') = n + 1 /\ log'[n + 1] = NextRecord
        /\ \A q \in 1..n : log'[q] = log[q]
    BY <1>5 DEF LogType
  <2>2. c.kind = "committed" /\ c.record = NextRecord /\ NextRecord.sequence = n + 1
    BY <1>5 DEF CommittedSlot, NextRecord
  <2> HIDE DEF n, z
  <2>3. SlotsHoldLatest'
    <3>1. ASSUME NEW s \in SlotNumbers, flash'[s].kind = "committed"
          PROVE  LET q == flash'[s].record.sequence
                 IN  /\ q \in 1..Len(log') /\ Len(log') < q + SlotCount
                     /\ slot_of(q) = s /\ flash'[s].record = log'[q]
      <4>1. CASE s = z
        <5>1. flash'[s].record = NextRecord /\ flash'[s].record.sequence = n + 1
          BY <1>3, <2>2, <4>1
        <5>2. slot_of(n + 1) = s
          BY <4>1 DEF z, n
        <5> QED BY <1>1, <2>1, <5>1, <5>2
      <4>2. CASE s # z
        <5> DEFINE q == flash[s].record.sequence
        <5>1. flash'[s] = flash[s]
          BY <1>3, <4>2
        <5>2. q \in 1..n /\ n < q + SlotCount /\ slot_of(q) = s /\ flash[s].record = log[q]
          BY <3>1, <5>1 DEF SlotsHoldLatest, n
        <5>3. q + SlotCount # n + 1
          <6>1. q \in Nat \ {0}
            BY <1>1, <5>2
          <6>2. slot_of(q + SlotCount) = slot_of(q)
            BY <6>1, SlotAgain
          <6> QED BY <4>2, <5>2, <6>2 DEF z, n
        <5> HIDE DEF q
        <5>4. q \in 1..(n + 1) /\ n + 1 < q + SlotCount
          BY <1>1, <5>2, <5>3
        <5> QED BY <2>1, <5>1, <5>2, <5>4 DEF q
      <4> QED BY <4>1, <4>2
    <3> QED BY <3>1 DEF SlotsHoldLatest
  <2>4. LatestKept'
    <3>1. ASSUME NEW q \in 1..Len(log'), Len(log') + 1 < q + SlotCount PROVE Kept(q)'
      <4>1. q \in 1..(n + 1) /\ n + 1 + 1 < q + SlotCount
        BY <2>1, <3>1
      <4>2. CASE q = n + 1
        <5>1. slot_of(q) = z
          BY <4>2 DEF z, n
        <5> QED BY <1>3, <2>2, <4>2, <5>1 DEF Kept
      <4>3. CASE q # n + 1
        <5>1. q \in 1..n /\ n + 1 < q + SlotCount
          BY <1>1, <4>1, <4>3
        <5>2. flash'[slot_of(q)] = flash[slot_of(q)]
          BY <1>3, <1>4, <5>1
        <5>3. Kept(q)
          BY <5>1 DEF LatestKept, n
        <5> QED BY <5>2, <5>3 DEF Kept
      <4> QED BY <4>2, <4>3
    <3> QED BY <3>1 DEF LatestKept
  <2> QED BY <2>3, <2>4
<1>6. CASE log' = log /\ (c = flash[slot_of(newest + 1)] \/ c.kind # "committed")
  <2>1. c = flash[z] \/ c.kind # "committed"
    BY <1>6
  <2> HIDE DEF n, z
  <2>2. SlotsHoldLatest'
    <3>1. ASSUME NEW s \in SlotNumbers, flash'[s].kind = "committed"
          PROVE  flash'[s] = flash[s]
      BY <1>3, <2>1, <3>1
    <3> QED BY <1>6, <3>1 DEF SlotsHoldLatest
  <2>3. LatestKept'
    <3>1. ASSUME NEW q \in 1..n, n + 1 < q + SlotCount PROVE Kept(q)'
      <4>1. flash'[slot_of(q)] = flash[slot_of(q)]
        BY <1>3, <1>4, <3>1
      <4>2. Kept(q)
        BY <3>1 DEF LatestKept, n
      <4> QED BY <4>1, <4>2 DEF Kept
    <3> QED BY <1>6, <3>1 DEF LatestKept, n
  <2> QED BY <2>2, <2>3
<1> QED BY <1>5, <1>6

-----------------------------------------------------------------------------
(* Types. *)

LEMMA InitInv == Init => IInv
<1> SUFFICES ASSUME Init PROVE IInv
  OBVIOUS
<1>1. TypeOK /\ LogType
  <2>1. IsInjective(waiting) /\ ToSet(waiting) = {} /\ waiting \in Seq(Identities)
    BY DEF Init, IsInjective, ToSet
  <2>2. flash \in [SlotNumbers -> Slot]
    BY DEF Init, Slot
  <2>3. log \in Seq(Record) /\ Len(log) <= MaxSequence
    BY BoundsAssumption DEF Init
  <2> QED BY <2>1, <2>2, <2>3, BoundsAssumption DEF Init, TypeOK, LogType, Nothing, Zero
<1>2. SlotsHoldLatest /\ LatestKept /\ ReadyKnows
  BY DEF Init, SlotsHoldLatest, LatestKept, ReadyKnows
<1>3. BootsCounted /\ TurnsCounted
  BY DEF Init, BootsCounted, TurnsCounted, Pends, Nothing, Zero
<1>4. AllStatesCounted /\ PageExact /\ (page # None => status # "off")
  BY DEF Init, AllStatesCounted, PageExact
<1> QED BY <1>1, <1>2, <1>3, <1>4 DEF IInv

\* The connection at the head of the queue has a pending state.
LEMMA HeadPends ==
    ASSUME TypeOK, LogType, Due
    PROVE  /\ Head(waiting) \in Identities /\ pending[Head(waiting)] \in Feeds
           /\ Tail(waiting) \in Seq(Identities) /\ IsInjective(Tail(waiting))
           /\ ToSet(Tail(waiting)) = {i \in Identities : pending[i] # None} \ {Head(waiting)}
<1>1. waiting \in Seq(Identities) /\ IsInjective(waiting) /\ waiting # <<>>
  BY DEF TypeOK, LogType, Due
<1>2. ToSet(waiting) = {i \in Identities : pending[i] # None}
  BY DEF TypeOK
<1>3. Head(waiting) \in Identities /\ pending[Head(waiting)] # None
  BY <1>1, <1>2, QueueTail
<1> QED BY <1>1, <1>2, <1>3, QueueTail DEF TypeOK

LEMMA NextRecordType ==
    ASSUME TypeOK, LogType, BootsCounted, Due
    PROVE  NextRecord \in Record
<1>1. newest + 1 \in Sequences /\ boot \in 1..MaxBoots
  BY BoundsAssumption DEF TypeOK, Due, Sequences, BootsCounted
<1>2. dropped[Head(waiting)] \in 0..MaxQueued
  BY HeadPends DEF TypeOK
<1> QED BY <1>1, <1>2, HeadPends DEF NextRecord, Record

LEMMA LastFeedType ==
    ASSUME TypeOK, LogType, SlotsHoldLatest, NEW i \in Identities
    PROVE  LastFeed(i) \in Feeds \union {None}
<1> DEFINE own == {r \in Found : r.identity = i}
           T == {MaxSequence - r.sequence : r \in own}
<1>1. \A r \in Found : r \in Record /\ r.sequence \in 1..MaxSequence
  <2>1. ASSUME NEW r \in Found PROVE r \in Record
    BY SlotRecord DEF Found
  <2> QED BY <2>1 DEF Record, Sequences
<1>2. CASE own = {}
  BY <1>2 DEF LastFeed
<1>3. CASE own # {}
  <2>1. T \in SUBSET Nat /\ T # {}
    BY <1>1, <1>3, BoundsAssumption
  <2>2. PICK m \in T : \A y \in T : m <= y
    BY <2>1, Least
  <2>3. PICK r \in own : m = MaxSequence - r.sequence
    OBVIOUS
  <2>4. \A q \in own : q.sequence <= r.sequence
    <3>1. ASSUME NEW q \in own PROVE q.sequence <= r.sequence
      <4>1. MaxSequence - r.sequence <= MaxSequence - q.sequence
        BY <2>2, <2>3
      <4> QED BY <1>1, <4>1, BoundsAssumption
    <3> QED BY <3>1
  <2> DEFINE last == CHOOSE l \in own : \A q \in own : q.sequence <= l.sequence
  <2>5. last \in own
    <3> HIDE DEF own
    <3> QED BY <2>4
  <2>6. last \in Record
    BY <1>1, <2>5
  <2>7. LastFeed(i) = last.feed
    BY <1>3 DEF LastFeed
  <2> HIDE DEF last
  <2> QED BY <2>6, <2>7 DEF Record
<1> QED BY <1>2, <1>3

\* What an open finds in the flash: nothing, or the run up to the last record.
LEMMA OpenFinds ==
    ASSUME TypeOK, LogType, SlotsHoldLatest, LatestKept
    PROVE  LET lo == IF Found = {} THEN 0 ELSE Min({r.sequence : r \in Found})
           IN  /\ Max({r.sequence : r \in Found} \union {0}) = Len(log)
               /\ Len(log) = 0 => lo = 0
               /\ Len(log) # 0 => lo \in 1..Len(log)
               /\ \A q \in 1..Len(log) : Kept(q) <=> lo <= q
<1> DEFINE n == Len(log)
           seqs == {r.sequence : r \in Found}
<1>1. n \in Nat /\ seqs = {q \in 1..n : Kept(q)}
  BY FoundSequences DEF LogType
<1>2. CASE n = 0
  <2>1. seqs = {} /\ Found = {}
    <3>1. {q \in 1..n : Kept(q)} = {}
      BY <1>1, <1>2
    <3>2. seqs = {}
      BY <1>1, <3>1
    <3> QED BY <3>2
  <2>2. seqs \union {0} = 0..0
    BY <2>1
  <2>3. Max(seqs \union {0}) = 0
    BY <2>2, RunEnds
  <2> QED BY <1>2, <2>1, <2>3
<1>3. CASE n # 0
  <2>1. PICK lo \in 1..n : {q \in 1..n : Kept(q)} = lo..n
    BY <1>3, KeptRun
  <2>2. lo \in Int /\ n \in Int /\ lo <= n /\ n >= 0
    BY <1>1, <2>1
  <2>3. seqs = lo..n
    BY <1>1, <2>1
  <2>4. Min(seqs) = lo /\ Max(seqs \union {0}) = n
    BY <2>2, <2>3, RunEnds
  <2>5. Found # {}
    BY <2>2, <2>3
  <2>6. \A q \in 1..n : Kept(q) <=> lo <= q
    BY <1>1, <2>1
  <2> HIDE DEF seqs, n
  <2>7. (IF Found = {} THEN 0 ELSE Min(seqs)) = lo
    BY <2>4, <2>5
  <2> QED BY <1>3, <2>1, <2>4, <2>6, <2>7 DEF seqs, n
<1> QED BY <1>2, <1>3

LEMMA TypeStep ==
    ASSUME IInv, [Next]_vars
    PROVE  TypeOK' /\ LogType'
<1>1. TypeOK /\ LogType /\ BootsCounted /\ TurnsCounted
  BY DEF IInv
<1> USE BoundsAssumption
<1>2. CASE UNCHANGED vars
  BY <1>1, <1>2 DEF vars, ram, TypeOK, LogType
<1>3. CASE Boot
  <2>1. /\ boot' = boot + 1 /\ boot < MaxBoots /\ pending' = Nothing /\ dropped' = Zero
        /\ waiting' = <<>> /\ queued' = Zero
        /\ UNCHANGED <<flash, page, log>>
        /\ status' \in {"ready", "faulted"}
    BY <1>3 DEF Boot
  <2>2. /\ oldest' \in 0..MaxSequence /\ newest' \in 0..MaxSequence
        /\ committed' \in [Identities -> Feeds \union {None}]
    <3>1. CASE status' = "ready"
      <4>1. /\ oldest' = (IF Found = {} THEN 0 ELSE Min({r.sequence : r \in Found}))
            /\ newest' = Max({r.sequence : r \in Found} \union {0})
            /\ committed' = [i \in Identities |-> LastFeed(i)]
        BY <1>3, <3>1 DEF Boot
      <4>2. newest' = Len(log) /\ oldest' \in 0..Len(log)
        BY <4>1, OpenFinds DEF IInv, LogType
      <4>3. committed' \in [Identities -> Feeds \union {None}]
        BY <4>1, LastFeedType DEF IInv
      <4> QED BY <4>2, <4>3 DEF IInv, LogType
    <3>2. CASE status' # "ready"
      BY <1>3, <2>1, <3>2 DEF Boot, Nothing
    <3> QED BY <3>1, <3>2
  <2>3. IsInjective(waiting') /\ ToSet(waiting') = {} /\ waiting' \in Seq(Identities)
    BY <2>1 DEF IsInjective, ToSet
  <2>4. boot' \in 0..MaxBoots
    BY <1>1, <2>1 DEF TypeOK
  <2>5. /\ pending' \in [Identities -> Feeds \union {None}]
        /\ dropped' \in [Identities -> 0..MaxQueued] /\ queued' \in [Identities -> 0..MaxQueued]
        /\ {i \in Identities : pending'[i] # None} = {}
    BY <2>1 DEF Nothing, Zero
  <2> QED BY <1>1, <2>1, <2>2, <2>3, <2>4, <2>5 DEF TypeOK, LogType
<1>4. CASE PowerLoss
  BY <1>1, <1>4 DEF PowerLoss, TypeOK, LogType
<1>5. CASE Commit
  <2>1. Due
    BY <1>5 DEF Commit
  <2>2. NextRecord \in Record /\ NextRecord.feed = pending[Head(waiting)]
    BY <1>1, <2>1, NextRecordType DEF NextRecord
  <2>3. CommittedSlot \in Slot
    BY <2>2 DEF CommittedSlot, Slot
  <2>4. slot_of(newest + 1) \in SlotNumbers /\ newest + 1 \in 1..MaxSequence
    BY <1>1, <2>1, SlotNumber DEF TypeOK, Due
  <2>5. flash' \in [SlotNumbers -> Slot]
    BY <1>1, <1>5, <2>3, <2>4 DEF Commit, Written, TypeOK
  <2>6. newest' = Len(log') /\ Len(log') <= MaxSequence /\ log' \in Seq(Record)
    BY <1>1, <1>5, <2>1, <2>2, <2>4 DEF Commit, LogType, IInv, ReadyKnows, Due
  <2>7. newest' \in 0..MaxSequence /\ oldest' \in 0..MaxSequence
    BY <1>1, <1>5, <2>4 DEF Commit, OldestAfter, TypeOK
  <2>8. /\ waiting' \in Seq(Identities) /\ IsInjective(waiting')
        /\ ToSet(waiting') = {i \in Identities : pending'[i] # None}
    <3>1. waiting' = Tail(waiting) /\ pending' = [pending EXCEPT ![Head(waiting)] = None]
      BY <1>5 DEF Commit
    <3>2. {i \in Identities : pending'[i] # None}
             = {i \in Identities : pending[i] # None} \ {Head(waiting)}
      BY <1>1, <3>1 DEF TypeOK
    <3> QED BY <1>1, <2>1, <3>1, <3>2, HeadPends
  <2>9. /\ committed' \in [Identities -> Feeds \union {None}]
        /\ pending' \in [Identities -> Feeds \union {None}]
        /\ dropped' \in [Identities -> 0..MaxQueued]
    BY <1>1, <1>5, <2>1, <2>2, HeadPends DEF Commit, TypeOK
  <2> QED BY <1>1, <1>5, <2>5, <2>6, <2>7, <2>8, <2>9 DEF Commit, TypeOK, LogType
<1>6. CASE CommitBreaks
  <2>1. PICK c \in CutShort :
           /\ flash' = Written(c)
           /\ log' = IF c = CommittedSlot THEN Append(log, NextRecord) ELSE log
    BY <1>6 DEF CommitBreaks
  <2>2. Due /\ status' \in {"faulted", "off"} /\ page' \in {page, None}
        /\ UNCHANGED <<oldest, newest, committed, pending, dropped, waiting, queued, boot>>
    BY <1>6 DEF CommitBreaks
  <2>3. NextRecord \in Record
    BY <1>1, <2>2, NextRecordType
  <2>4. slot_of(newest + 1) \in SlotNumbers /\ newest + 1 \in 1..MaxSequence
    BY <1>1, <2>2, SlotNumber DEF TypeOK, Due
  <2>5. c \in Slot
    BY <1>1, <2>1, <2>3, <2>4 DEF CutShort, CommittedSlot, Slot, TypeOK
  <2>6. flash' \in [SlotNumbers -> Slot]
    BY <1>1, <2>1, <2>4, <2>5 DEF Written, TypeOK
  <2>7. log' \in Seq(Record) /\ Len(log') <= MaxSequence
    BY <1>1, <2>1, <2>2, <2>3, <2>4 DEF LogType, IInv, ReadyKnows, Due
  <2> QED BY <1>1, <2>2, <2>6, <2>7 DEF TypeOK, LogType
<1>7. ASSUME NEW i \in Identities, NEW feed \in Feeds, Observe(i, feed)
      PROVE  TypeOK' /\ LogType'
  <2>1. /\ UNCHANGED <<flash, status, oldest, newest, committed, page, log, boot>>
    BY <1>7 DEF Observe
  <2>2. dropped[i] + Pends(i) <= queued[i] /\ dropped[i] \in 0..MaxQueued
        /\ queued[i] \in 0..MaxQueued
    BY <1>1 DEF TurnsCounted, TypeOK
  <2>3. CASE Queue(i, feed)
    <3>1. pending' = [pending EXCEPT ![i] = feed] /\ queued' = [queued EXCEPT ![i] = @ + 1]
          /\ queued[i] < MaxQueued
      BY <2>3 DEF Queue
    <3>2. /\ pending' \in [Identities -> Feeds \union {None}]
          /\ queued' \in [Identities -> 0..MaxQueued]
          /\ {j \in Identities : pending'[j] # None}
                = {j \in Identities : pending[j] # None} \union {i}
      BY <1>1, <2>2, <3>1 DEF TypeOK
    <3>3. CASE pending[i] = None
      <4>1. waiting' = Append(waiting, i) /\ UNCHANGED dropped
        BY <2>3, <3>3 DEF Queue
      <4>2. i \notin ToSet(waiting)
        BY <1>1, <3>3 DEF TypeOK
      <4>3. /\ waiting' \in Seq(Identities) /\ IsInjective(waiting')
            /\ ToSet(waiting') = ToSet(waiting) \union {i}
        BY <1>1, <4>1, <4>2, QueueLonger DEF TypeOK, LogType
      <4> QED BY <1>1, <2>1, <3>2, <4>1, <4>3 DEF TypeOK, LogType
    <3>4. CASE pending[i] # None
      <4>1. dropped' = [dropped EXCEPT ![i] = @ + 1] /\ UNCHANGED waiting
        BY <2>3, <3>4 DEF Queue
      <4>2. dropped' \in [Identities -> 0..MaxQueued]
        BY <1>1, <2>2, <3>4, <4>1 DEF TypeOK, Pends
      <4>3. ToSet(waiting') = {j \in Identities : pending'[j] # None}
        BY <1>1, <3>2, <3>4, <4>1 DEF TypeOK
      <4> QED BY <1>1, <2>1, <3>2, <4>1, <4>2, <4>3 DEF TypeOK, LogType
    <3> QED BY <3>3, <3>4
  <2>4. CASE Withdraw(i, feed)
    <3>1. /\ pending[i] # None /\ pending' = [pending EXCEPT ![i] = None]
          /\ waiting' = RemoveFirst(waiting, i)
          /\ dropped' = [dropped EXCEPT ![i] = @ + 1] /\ UNCHANGED queued
      BY <2>4 DEF Withdraw
    <3>2. i \in ToSet(waiting)
      BY <1>1, <3>1 DEF TypeOK
    <3>3. /\ waiting' \in Seq(Identities) /\ IsInjective(waiting')
          /\ ToSet(waiting') = ToSet(waiting) \ {i}
      BY <1>1, <3>1, <3>2, QueueWithout DEF TypeOK, LogType
    <3>4. /\ pending' \in [Identities -> Feeds \union {None}]
          /\ {j \in Identities : pending'[j] # None}
                = {j \in Identities : pending[j] # None} \ {i}
      BY <1>1, <3>1 DEF TypeOK
    <3>5. dropped' \in [Identities -> 0..MaxQueued]
      BY <1>1, <2>2, <3>1 DEF TypeOK, Pends
    <3> QED BY <1>1, <2>1, <3>1, <3>3, <3>4, <3>5 DEF TypeOK, LogType
  <2> QED BY <1>7, <2>3, <2>4 DEF Observe
<1>8. ASSUME NEW after \in 0..MaxSequence, NEW limit \in 1..MaxLimit, OpenPage(after, limit)
      PROVE  TypeOK' /\ LogType'
  <2>1. page' \in Page
    BY <1>1, <1>8 DEF OpenPage, TypeOK, GapEnd, Page
  <2> QED BY <1>1, <1>8, <2>1 DEF OpenPage, ram, TypeOK, LogType
<1>9. CASE ShowLine
  <2>1. page \in Page /\ page.cursor < page.newest
    BY <1>1, <1>9 DEF ShowLine, MoreLines, TypeOK
  <2> DEFINE sequence == IF page.cursor < oldest THEN oldest ELSE page.cursor + 1
  <2>2. sequence \in Sequences /\ sequence \in 0..MaxSequence
    BY <1>1, <2>1 DEF TypeOK, Page, Sequences
  <2>3. \/ page' = [page EXCEPT !.cursor = sequence, !.shown = @ \union {sequence}]
        \/ page' = page
    BY <1>9 DEF ShowLine
  <2> HIDE DEF sequence
  <2>4. page' \in Page
    BY <2>1, <2>2, <2>3, ZenonT(40) DEF Page
  <2>5. /\ status' \in {status, "faulted"}
        /\ UNCHANGED <<flash, oldest, newest, committed, pending, dropped, waiting, log,
                       queued, boot>>
    BY <1>9 DEF ShowLine
  <2> QED BY <1>1, <2>4, <2>5 DEF TypeOK, LogType
<1>10. CASE ClosePage
  BY <1>1, <1>10 DEF ClosePage, ram, TypeOK, LogType
<1> QED BY <1>2, <1>3, <1>4, <1>5, <1>6, <1>7, <1>8, <1>9, <1>10 DEF Next

-----------------------------------------------------------------------------
(* The ring is kept. *)

\* What the journal knows after it has written a record.
LEMMA CommitKnows ==
    ASSUME IInv, Commit, TypeOK', LogType', SlotsHoldLatest', LatestKept'
    PROVE  ReadyKnows'
<1> DEFINE n == Len(log)
<1>1. /\ Due /\ flash' = Written(CommittedSlot) /\ log' = Append(log, NextRecord)
      /\ newest' = newest + 1 /\ oldest' = OldestAfter(newest + 1) /\ status' = status
  BY DEF Commit
<1>2. TypeOK /\ LogType /\ ReadyKnows /\ SlotsHoldLatest /\ LatestKept
  BY DEF IInv
<1>3. /\ newest = n /\ n \in Nat /\ SlotCount \in Nat \ {0, 1}
      /\ ~ Ambiguous /\ (n = 0 => oldest = 0) /\ (n # 0 => oldest \in 1..n)
      /\ \A q \in 1..n : Kept(q) <=> oldest <= q
  BY <1>1, <1>2, BoundsAssumption DEF Due, ReadyKnows, LogType
<1>4. newest' = n + 1 /\ Len(log') = n + 1
  BY <1>1, <1>2, <1>3 DEF LogType
<1>5. ~ Ambiguous'
  <2>1. \A s \in SlotNumbers : flash'[s].kind \in {"committed", flash[s].kind}
    BY <1>1, <1>2 DEF Written, CommittedSlot, TypeOK
  <2> QED BY <1>3, <2>1 DEF Ambiguous
<1>6. /\ oldest' \in 1..(n + 1) /\ n + 1 < oldest' + SlotCount
      /\ \A q \in 1..(n + 1) : n + 1 < q + SlotCount /\ n + 1 # q + SlotCount - 1 => oldest' <= q
  <2> HIDE DEF n
  <2>1. CASE n = 0
    BY <1>1, <1>3, <2>1 DEF OldestAfter
  <2>2. CASE n # 0
    <3>1. oldest \in 1..n /\ oldest # 0
      BY <1>3, <2>2
    <3>2. oldest' = IF n + 1 - oldest >= SlotCount THEN n + 1 - SlotCount + 1 ELSE oldest
      BY <1>1, <1>3, <3>1 DEF OldestAfter
    <3>3. \A q \in 1..n : n + 1 < q + SlotCount => oldest <= q
      BY <1>2, <1>3 DEF LatestKept, n
    <3>4. n < oldest + SlotCount
      <4>1. Kept(oldest)
        BY <1>3, <3>1
      <4>2. slot_of(oldest) \in SlotNumbers
        BY <3>1, <1>3, SlotNumber
      <4> QED BY <1>2, <4>1, <4>2 DEF SlotsHoldLatest, Kept, n
    <3> QED BY <1>3, <3>1, <3>2, <3>3, <3>4
  <2> QED BY <2>1, <2>2
<1>7. ASSUME NEW q \in 1..(n + 1) PROVE Kept(q)' <=> oldest' <= q
  <2>1. CASE n + 2 < q + SlotCount
    <3>1. Kept(q)'
      BY <1>3, <1>4, <2>1 DEF LatestKept
    <3> HIDE DEF n
    <3>2. oldest' <= q
      BY <1>3, <1>6, <2>1
    <3> QED BY <3>1, <3>2
  <2>2. CASE q + SlotCount <= n + 1
    <3>1. ~ Kept(q)'
      <4>1. slot_of(q) \in SlotNumbers
        BY SlotNumber, <1>3
      <4>2. Kept(q)' => n + 1 < q + SlotCount
        BY <1>4, <4>1 DEF SlotsHoldLatest, Kept
      <4> HIDE DEF n
      <4> QED BY <1>3, <2>2, <4>2
    <3> HIDE DEF n
    <3>2. ~ (oldest' <= q)
      <4>1. PICK o \in 1..(n + 1) : o = oldest' /\ n + 1 < o + SlotCount
        BY <1>6
      <4>2. n \in Nat /\ SlotCount \in Nat
        BY <1>3
      <4>3. ~ (o <= q)
        <5>1. q + SlotCount <= n + 1
          BY <2>2
        <5>2. n + 1 < o + SlotCount
          BY <4>1
        <5>3. q \in Int
          BY <4>2
        <5>4. o \in Int
          BY <4>2
        <5>5. q + SlotCount < o + SlotCount
          BY <5>1, <5>2, <5>3, <5>4, <4>2
        <5> QED BY <5>3, <5>4, <5>5, <4>2
      <4> QED BY <4>1, <4>3
    <3> QED BY <3>1, <3>2
  <2>3. CASE q + SlotCount = n + 2
    <3> HIDE DEF n
    <3>1. q \in 1..n /\ q \in Nat \ {0} /\ n + 1 \in Nat \ {0} /\ q < n + 1 /\ n + 1 < q + SlotCount
      BY <1>3, <2>3
    <3>2. slot_of(q) # slot_of(n + 1)
      BY <3>1, SlotsDiffer
    <3>3. slot_of(q) \in SlotNumbers
      BY <3>1, SlotNumber
    <3>4. flash'[slot_of(q)] = flash[slot_of(q)]
      BY <1>1, <1>2, <1>3, <3>2, <3>3 DEF Written, TypeOK
    <3>5. Kept(q)' <=> Kept(q)
      BY <3>4 DEF Kept
    <3>6. Kept(q)
      BY <1>2, <3>1 DEF LatestKept, n
    <3>7. oldest <= q
      BY <1>3, <3>1, <3>6
    <3>8. oldest' <= q
      BY <1>1, <1>3, <2>3, <3>1, <3>7 DEF OldestAfter
    <3> QED BY <3>5, <3>6, <3>8
  <2> HIDE DEF n
  <2>4. n + 2 < q + SlotCount \/ q + SlotCount <= n + 1 \/ q + SlotCount = n + 2
    BY <1>3
  <2> QED BY <2>1, <2>2, <2>3, <2>4
<1> HIDE DEF n
<1>8. newest' # 0
  BY <1>3, <1>4
<1> QED BY <1>4, <1>5, <1>6, <1>7, <1>8 DEF ReadyKnows

LEMMA RingStep ==
    ASSUME IInv, [Next]_vars, TypeOK', LogType'
    PROVE  SlotsHoldLatest' /\ LatestKept' /\ ReadyKnows'
<1>1. TypeOK /\ LogType /\ SlotsHoldLatest /\ LatestKept /\ ReadyKnows
  BY DEF IInv
<1>2. ASSUME UNCHANGED <<flash, log>> PROVE SlotsHoldLatest' /\ LatestKept'
  BY <1>1, <1>2 DEF SlotsHoldLatest, LatestKept, Kept
<1>3. ASSUME UNCHANGED <<flash, log, oldest, newest>>, status' = status \/ status' # "ready"
      PROVE  ReadyKnows'
  BY <1>1, <1>3 DEF ReadyKnows, Kept, Ambiguous
<1>4. CASE Boot
  <2>1. SlotsHoldLatest' /\ LatestKept'
    BY <1>2, <1>4 DEF Boot
  <2>2. CASE status' = "ready"
    <3>1. /\ oldest' = (IF Found = {} THEN 0 ELSE Min({r.sequence : r \in Found}))
          /\ newest' = Max({r.sequence : r \in Found} \union {0})
          /\ Readable /\ UNCHANGED <<flash, log>>
      BY <1>4, <2>2 DEF Boot
    <3>2. /\ newest' = Len(log)
          /\ Len(log) = 0 => oldest' = 0
          /\ Len(log) # 0 => oldest' \in 1..Len(log)
          /\ \A q \in 1..Len(log) : Kept(q) <=> oldest' <= q
      <4> DEFINE lo == IF Found = {} THEN 0 ELSE Min({r.sequence : r \in Found})
      <4>1. /\ Max({r.sequence : r \in Found} \union {0}) = Len(log)
            /\ Len(log) = 0 => lo = 0
            /\ Len(log) # 0 => lo \in 1..Len(log)
            /\ \A q \in 1..Len(log) : Kept(q) <=> lo <= q
        BY <1>1, OpenFinds
      <4>2. oldest' = lo
        BY <3>1
      <4> HIDE DEF lo
      <4> QED BY <3>1, <4>1, <4>2
    <3>3. ~ Ambiguous'
      BY <3>1 DEF Readable, Ambiguous
    <3>4. \A q \in 1..newest' : Kept(q)' <=> oldest' <= q
      BY <3>1, <3>2 DEF Kept
    <3>5. newest' = Len(log') /\ (newest' = 0 => oldest' = 0)
          /\ (newest' # 0 => oldest' \in 1..newest')
      BY <3>1, <3>2
    <3> QED BY <2>1, <3>3, <3>4, <3>5 DEF ReadyKnows
  <2>3. CASE status' # "ready"
    BY <2>1, <2>3 DEF ReadyKnows
  <2> QED BY <2>1, <2>2, <2>3
<1>5. CASE Commit
  <2>1. newest = Len(log)
    BY <1>1, <1>5 DEF Commit, Due, ReadyKnows
  <2>2. SlotsHoldLatest' /\ LatestKept'
    BY <1>1, <1>5, <2>1, Rewritten DEF Commit
  <2> QED BY <1>5, <2>2, CommitKnows
<1>6. CASE CommitBreaks
  <2>1. newest = Len(log) /\ status' # "ready"
    BY <1>1, <1>6 DEF CommitBreaks, Due, ReadyKnows
  <2>2. PICK c \in CutShort :
           /\ flash' = Written(c)
           /\ log' = IF c = CommittedSlot THEN Append(log, NextRecord) ELSE log
    BY <1>6 DEF CommitBreaks
  <2>3. c = CommittedSlot \/ c = flash[slot_of(newest + 1)] \/ c.kind # "committed"
    BY <2>2 DEF CutShort
  <2>4. SlotsHoldLatest' /\ LatestKept'
    BY <1>1, <2>1, <2>2, <2>3, Rewritten
  <2> QED BY <2>1, <2>4 DEF ReadyKnows
<1>7. CASE PowerLoss \/ ShowLine
  <2>1. /\ UNCHANGED <<flash, log, oldest, newest>>
        /\ status' = status \/ status' # "ready"
    BY <1>7 DEF PowerLoss, ShowLine
  <2> QED BY <1>2, <1>3, <2>1
<1>8. ASSUME \/ \E i \in Identities, feed \in Feeds : Observe(i, feed)
             \/ \E after \in 0..MaxSequence, limit \in 1..MaxLimit : OpenPage(after, limit)
             \/ ClosePage \/ UNCHANGED vars
      PROVE  SlotsHoldLatest' /\ LatestKept' /\ ReadyKnows'
  <2>1. UNCHANGED <<flash, log, oldest, newest, status>>
    BY <1>8 DEF Observe, OpenPage, ClosePage, vars, ram
  <2> QED BY <1>2, <1>3, <2>1
<1> QED BY <1>4, <1>5, <1>6, <1>7, <1>8 DEF Next

-----------------------------------------------------------------------------
(* Every state is counted. *)

\* The records a connection has got since the boot, and what they count for.
Own(i) == {s \in DOMAIN log : log[s].identity = i /\ log[s].boot = boot}
Counted(i) == [s \in Own(i) |-> 1 + log[s].coalesced]
Accounted(i) == SumFunctionOnSet(Counted(i), Own(i)) + dropped[i] + Pends(i)

LEMMA CountedIs == AllStatesCounted <=>
                       (status = "ready" => \A i \in Identities : queued[i] = Accounted(i))
<1>1. \A i : SumFunction(Counted(i)) = SumFunctionOnSet(Counted(i), Own(i))
  BY DEF SumFunction, Counted
<1> QED BY <1>1, Zenon DEF AllStatesCounted, Accounted, Pends, Counted, Own

LEMMA CountedIsNext ==
    AllStatesCounted' <=>
        (status' = "ready" => \A i \in Identities : queued'[i] = Accounted(i)')
<1>1. \A i : SumFunction(Counted(i)') = SumFunctionOnSet(Counted(i)', Own(i)')
  BY DEF SumFunction, Counted
<1> QED BY <1>1, Zenon DEF AllStatesCounted, Accounted, Pends, Counted, Own

LEMMA OwnFinite ==
    ASSUME LogType, NEW i
    PROVE  IsFiniteSet(Own(i)) /\ \A s \in Own(i) : log[s].coalesced \in Nat
<1>1. Own(i) \in SUBSET (1..Len(log)) /\ Len(log) \in Nat
  BY DEF LogType, Own
<1>2. IsFiniteSet(Own(i))
  <2>1. IsFiniteSet(1..Len(log))
    BY <1>1, FS_Interval
  <2> QED BY <1>1, <2>1, FS_Subset
<1>3. \A s \in DOMAIN log : log[s] \in Record
  BY DEF LogType
<1> QED BY <1>2, <1>3, BoundsAssumption DEF Own, Record

LEMMA BootsStep ==
    ASSUME TypeOK, LogType, BootsCounted, [Next]_vars
    PROVE  BootsCounted'
<1> USE DEF BootsCounted
<1>1. CASE Boot
  <2>1. boot' = boot + 1 /\ log' = log /\ boot \in Nat
    BY <1>1 DEF Boot, TypeOK
  <2>2. \A q \in DOMAIN log : log[q].boot \in Nat
    <3>1. \A q \in DOMAIN log : log[q] \in Record
      BY DEF LogType
    <3> QED BY <3>1, BoundsAssumption DEF Record
  <2>3. \A q \in DOMAIN log : log[q].boot <= boot + 1
    BY <2>1, <2>2
  <2> QED BY <2>1, <2>3
<1>2. ASSUME log' = Append(log, NextRecord), boot' = boot, Due PROVE BootsCounted'
  <2>1. /\ DOMAIN log' = 1..(Len(log) + 1) /\ DOMAIN log = 1..Len(log) /\ Len(log) \in Nat
        /\ log'[Len(log) + 1] = NextRecord /\ \A q \in 1..Len(log) : log'[q] = log[q]
    BY <1>2 DEF LogType
  <2>2. NextRecord.boot = boot /\ boot \in Nat /\ boot # 0
    BY <1>2 DEF NextRecord, Due, TypeOK
  <2> QED BY <1>2, <2>1, <2>2
<1>3. CASE Commit
  BY <1>2, <1>3 DEF Commit
<1>4. CASE CommitBreaks
  <2>1. Due /\ boot' = boot /\ (log' = log \/ log' = Append(log, NextRecord))
    BY <1>4 DEF CommitBreaks
  <2>2. boot # 0
    BY <2>1 DEF Due
  <2> QED BY <1>2, <2>1, <2>2
<1>5. ASSUME \/ PowerLoss \/ ShowLine \/ ClosePage \/ UNCHANGED vars
             \/ \E i \in Identities, feed \in Feeds : Observe(i, feed)
             \/ \E after \in 0..MaxSequence, limit \in 1..MaxLimit : OpenPage(after, limit)
      PROVE  BootsCounted'
  <2>1. log' = log /\ boot' = boot /\ (status # "off" \/ status' = status)
    BY <1>5 DEF PowerLoss, ShowLine, ClosePage, Observe, OpenPage, vars, ram
  <2> QED BY <2>1
<1> QED BY <1>1, <1>3, <1>4, <1>5 DEF Next

\* A record counts the state it holds and those that were dropped before it.
LEMMA CommitCounts ==
    ASSUME IInv, Commit
    PROVE  AllStatesCounted'
<1>1. TypeOK /\ LogType /\ BootsCounted /\ ReadyKnows /\ AllStatesCounted
  BY DEF IInv
<1>2. /\ Due /\ log' = Append(log, NextRecord) /\ queued' = queued /\ boot' = boot
      /\ pending' = [pending EXCEPT ![Head(waiting)] = None]
      /\ dropped' = [dropped EXCEPT ![Head(waiting)] = 0]
  BY DEF Commit
<1> DEFINE n == Len(log)
           h == Head(waiting)
<1>3. NextRecord \in Record /\ NextRecord.identity = h /\ NextRecord.boot = boot
      /\ NextRecord.coalesced = dropped[h]
  BY <1>1, <1>2, NextRecordType DEF NextRecord
<1>4. h \in Identities /\ pending[h] # None
  BY <1>1, <1>2, HeadPends, BoundsAssumption
<1>5. /\ n \in Nat /\ log' \in Seq(Record) /\ DOMAIN log = 1..n /\ DOMAIN log' = 1..(n + 1)
      /\ log'[n + 1] = NextRecord /\ \A s \in 1..n : log'[s] = log[s]
  BY <1>1, <1>2, <1>3 DEF LogType
<1> HIDE DEF n, h
<1>6. ASSUME NEW i \in Identities PROVE queued'[i] = Accounted(i)'
  <2> DEFINE C == Counted(i)
             D == Counted(i)'
             S == Own(i)
  <2>1. queued[i] = SumFunctionOnSet(C, S) + dropped[i] + Pends(i)
    BY <1>1, <1>2, CountedIs DEF Due, Accounted
  <2>2. IsFiniteSet(S) /\ \A s \in S : log[s].coalesced \in Nat
    BY <1>1, OwnFinite
  <2>3. n + 1 \notin S
    BY <1>5 DEF Own
  <2>4. \A s \in S : C[s] \in Int
    BY <2>2 DEF Counted
  <2>5. SumFunctionOnSet(C, S) \in Int
    <3> HIDE DEF C, S
    <3> QED BY <2>2, <2>4, SumInt
  <2>6. \A s \in S : s \in Own(i)' /\ D[s] = C[s]
    BY <1>2, <1>5 DEF Own, Counted
  <2>7. CASE i = h
    <3>1. Own(i)' = S \union {n + 1}
      BY <1>2, <1>3, <1>5, <2>7 DEF Own
    <3>2. D[n + 1] = 1 + dropped[h]
      BY <1>3, <1>5, <3>1 DEF Counted
    <3>3. dropped[h] \in Int
      BY <1>1, <1>4, BoundsAssumption DEF TypeOK
    <3>4. SumFunctionOnSet(D, S \union {n + 1}) = SumFunctionOnSet(C, S) + (1 + dropped[h])
      <4>1. \A s \in S \union {n + 1} : D[s] \in Int
        BY <2>4, <2>6, <3>2, <3>3
      <4> HIDE DEF C, D, S
      <4>2. SumFunctionOnSet(D, S) = SumFunctionOnSet(C, S)
        BY <2>2, <2>4, <2>6, SumSame
      <4>3. SumFunctionOnSet(D, S \union {n + 1}) = SumFunctionOnSet(D, S) + D[n + 1]
        BY <2>2, <2>3, <4>1, SumPut
      <4> QED BY <3>2, <4>2, <4>3
    <3>5. dropped'[i] = 0 /\ Pends(i)' = 0 /\ Pends(i) = 1 /\ queued' = queued
      BY <1>1, <1>2, <1>4, <2>7 DEF TypeOK, Pends, h
    <3>6. Accounted(i)' = SumFunctionOnSet(D, S \union {n + 1}) + 0 + 0
      BY <3>1, <3>5 DEF Accounted
    <3> HIDE DEF C, D, S
    <3>7. queued[i] = SumFunctionOnSet(C, S) + dropped[h] + 1
      BY <2>1, <2>7, <3>5
    <3> QED BY <2>5, <3>3, <3>4, <3>5, <3>6, <3>7
  <2>8. CASE i # h
    <3>1. Own(i)' = S
      BY <1>2, <1>3, <1>5, <2>8 DEF Own
    <3>2. D = C
      BY <2>6, <3>1 DEF Counted
    <3>3. dropped'[i] = dropped[i] /\ Pends(i)' = Pends(i)
      BY <1>1, <1>2, <2>8 DEF TypeOK, Pends, h
    <3>4. Accounted(i)' = SumFunctionOnSet(C, S) + dropped[i] + Pends(i)
      BY <3>1, <3>2, <3>3 DEF Accounted
    <3> QED BY <1>2, <2>1, <3>4
  <2> QED BY <2>7, <2>8
<1>7. AllStatesCounted' <=>
         (status' = "ready" => \A i \in Identities : queued'[i] = Accounted(i)')
  BY CountedIsNext
<1> QED BY <1>6, <1>7

LEMMA CountStep ==
    ASSUME IInv, [Next]_vars
    PROVE  AllStatesCounted' /\ TurnsCounted'
<1>1. TypeOK /\ LogType /\ BootsCounted /\ ReadyKnows /\ AllStatesCounted /\ TurnsCounted
  BY DEF IInv
<1> USE BoundsAssumption
<1>2. ASSUME UNCHANGED <<log, boot>> PROVE \A i : Own(i)' = Own(i) /\ Counted(i)' = Counted(i)
  BY <1>2 DEF Own, Counted
<1>3. CASE Boot
  <2>1. /\ boot' = boot + 1 /\ UNCHANGED log /\ pending' = Nothing /\ dropped' = Zero
        /\ queued' = Zero
    BY <1>3 DEF Boot
  <2>2. \A q \in DOMAIN log : log[q].boot # boot'
    <3>1. \A q \in DOMAIN log : log[q] \in Record
      BY <1>1 DEF LogType
    <3>2. \A q \in DOMAIN log : log[q].boot \in Nat /\ log[q].boot <= boot
      BY <1>1, <3>1 DEF Record, BootsCounted
    <3>3. boot \in Nat
      BY <1>1 DEF TypeOK
    <3> QED BY <2>1, <3>2, <3>3
  <2>3. ASSUME NEW i \in Identities PROVE queued'[i] = Accounted(i)'
    <3>1. Own(i)' = {}
      BY <2>1, <2>2 DEF Own
    <3>2. SumFunctionOnSet(Counted(i)', {}) = 0
      BY SumEmpty
    <3>3. queued'[i] = 0 /\ dropped'[i] = 0 /\ Pends(i)' = 0
      BY <2>1 DEF Nothing, Zero, Pends
    <3> QED BY <3>1, <3>2, <3>3 DEF Accounted
  <2>4. TurnsCounted'
    BY <2>1 DEF TurnsCounted, Pends, Nothing, Zero
  <2> QED BY <2>3, <2>4, CountedIsNext
<1>4. CASE Commit
  <2>1. TurnsCounted'
    <3>1. /\ pending' = [pending EXCEPT ![Head(waiting)] = None]
          /\ dropped' = [dropped EXCEPT ![Head(waiting)] = 0] /\ queued' = queued
      BY <1>4 DEF Commit
    <3>2. \A i \in Identities : queued[i] \in Nat /\ dropped[i] \in Nat
      BY <1>1 DEF TypeOK
    <3>3. ASSUME NEW i \in Identities PROVE dropped'[i] + Pends(i)' <= queued'[i]
      <4>1. CASE i = Head(waiting)
        BY <1>1, <3>1, <3>2, <4>1 DEF TypeOK, Pends
      <4>2. CASE i # Head(waiting)
        BY <1>1, <3>1, <4>2 DEF TypeOK, Pends, TurnsCounted
      <4> QED BY <4>1, <4>2
    <3> QED BY <3>3 DEF TurnsCounted
  <2> QED BY <1>4, <2>1, CommitCounts
<1>5. ASSUME NEW i \in Identities, NEW feed \in Feeds, Observe(i, feed)
      PROVE  AllStatesCounted' /\ TurnsCounted'
  <2>1. UNCHANGED <<status, log, boot>> /\ status = "ready"
    BY <1>5 DEF Observe
  <2>2. \A j \in Identities : queued[j] \in Nat /\ dropped[j] \in Nat
    BY <1>1 DEF TypeOK
  <2>3. /\ \A j \in Identities : j # i =>
              queued'[j] = queued[j] /\ dropped'[j] = dropped[j] /\ Pends(j)' = Pends(j)
        /\ queued'[i] - queued[i] = dropped'[i] + Pends(i)' - (dropped[i] + Pends(i))
        /\ queued'[i] \in Nat /\ dropped'[i] \in Nat
    <3>1. CASE Queue(i, feed)
      <4>1. /\ pending' = [pending EXCEPT ![i] = feed] /\ feed # None
            /\ queued' = [queued EXCEPT ![i] = @ + 1]
            /\ dropped' = IF pending[i] = None THEN dropped ELSE [dropped EXCEPT ![i] = @ + 1]
        BY <3>1 DEF Queue
      <4> QED BY <1>1, <2>2, <4>1 DEF TypeOK, Pends
    <3>2. CASE Withdraw(i, feed)
      <4>1. /\ pending' = [pending EXCEPT ![i] = None] /\ pending[i] # None
            /\ queued' = queued /\ dropped' = [dropped EXCEPT ![i] = @ + 1]
        BY <3>2 DEF Withdraw
      <4> QED BY <1>1, <2>2, <4>1 DEF TypeOK, Pends
    <3> QED BY <1>5, <3>1, <3>2 DEF Observe
  <2>4. \A j : Pends(j) \in Nat /\ Pends(j)' \in Nat
    BY DEF Pends
  <2>5. ASSUME NEW j \in Identities
        PROVE  queued'[j] = Accounted(j)' /\ dropped'[j] + Pends(j)' <= queued'[j]
    <3> DEFINE sum == SumFunctionOnSet(Counted(j), Own(j))
    <3>1. queued[j] = sum + dropped[j] + Pends(j) /\ dropped[j] + Pends(j) <= queued[j]
      BY <1>1, <2>1, CountedIs DEF Accounted, TurnsCounted
    <3>2. sum \in Int
      <4>1. IsFiniteSet(Own(j)) /\ \A s \in Own(j) : log[s].coalesced \in Nat
        BY <1>1, OwnFinite
      <4>2. \A s \in Own(j) : Counted(j)[s] \in Int
        BY <4>1 DEF Counted
      <4> QED BY <4>1, <4>2, SumInt
    <3>3. Accounted(j)' = sum + dropped'[j] + Pends(j)'
      BY <1>2, <2>1 DEF Accounted
    <3> HIDE DEF sum
    <3>4. CASE j = i
      <4>1. PICK q \in Nat, d \in Nat, e \in Nat :
               q = queued'[i] /\ d = dropped'[i] /\ e = Pends(i)'
        BY <2>3, <2>4
      <4>2. q - queued[i] = d + e - (dropped[i] + Pends(i))
        BY <2>3, <4>1
      <4>3. queued[i] = sum + dropped[i] + Pends(i) /\ dropped[i] + Pends(i) <= queued[i]
        BY <3>1, <3>4
      <4>4. queued[i] \in Nat /\ dropped[i] \in Nat /\ Pends(i) \in Nat
        BY <2>2, <2>4
      <4>5. q = sum + d + e /\ d + e <= q
        BY <3>2, <4>1, <4>2, <4>3, <4>4
      <4> QED BY <3>3, <3>4, <4>1, <4>5
    <3>5. CASE j # i
      BY <2>3, <3>1, <3>3, <3>5
    <3> QED BY <3>4, <3>5
  <2> QED BY <2>5, CountedIsNext DEF TurnsCounted
<1>6. ASSUME \/ PowerLoss \/ CommitBreaks \/ ShowLine \/ ClosePage \/ UNCHANGED vars
             \/ \E after \in 0..MaxSequence, limit \in 1..MaxLimit : OpenPage(after, limit)
      PROVE  AllStatesCounted' /\ TurnsCounted'
  <2>1. /\ UNCHANGED <<pending, dropped, queued, boot>>
        /\ UNCHANGED <<status, log>> \/ status' # "ready"
    BY <1>6 DEF PowerLoss, CommitBreaks, ShowLine, ClosePage, OpenPage, vars, ram
  <2>2. TurnsCounted'
    BY <1>1, <2>1 DEF TurnsCounted, Pends
  <2>3. ASSUME status' = "ready", NEW i \in Identities PROVE queued'[i] = Accounted(i)'
    <3>1. UNCHANGED <<status, log>>
      BY <2>1, <2>3
    <3>2. queued[i] = Accounted(i)
      BY <1>1, <2>3, <3>1, CountedIs
    <3>3. Accounted(i)' = Accounted(i)
      BY <1>2, <2>1, <3>1 DEF Accounted, Pends
    <3> QED BY <2>1, <3>2, <3>3
  <2> QED BY <2>2, <2>3, CountedIsNext
<1> QED BY <1>3, <1>4, <1>5, <1>6 DEF Next

-----------------------------------------------------------------------------
(* Pages. *)

\* The oldest record of an open journal only moves up, so that what a page has passed
\* over, as a gap or because it was overwritten meanwhile, stays passed over.
LEMMA PageStep ==
    ASSUME IInv, [Next]_vars
    PROVE  PageExact' /\ (page' # None => status' # "off")
<1>1. TypeOK /\ LogType /\ ReadyKnows /\ PageExact /\ (page # None => status # "off")
  BY DEF IInv
<1> USE BoundsAssumption
<1>2. page # None => page \in Page
  BY <1>1 DEF TypeOK
<1>3. ASSUME page' = page, status' = status, oldest' \in Nat, oldest <= oldest'
      PROVE  PageExact'
  <2>1. ASSUME page # None, status = "ready"
        PROVE  /\ page.gap < oldest' \/ page.gap = 0
               /\ \A s \in (page.after + 1)..page.cursor :
                     s \in page.shown \/ s <= page.gap \/ s < oldest'
    <3>1. /\ page.gap < oldest \/ page.gap = 0
          /\ \A s \in (page.after + 1)..page.cursor :
                s \in page.shown \/ s <= page.gap \/ s < oldest
      BY <1>1, <2>1 DEF PageExact
    <3>2. PICK o \in Nat : o = oldest' /\ oldest <= o
      BY <1>3
    <3>3. page.gap \in Nat /\ page.after \in Nat /\ page.cursor \in Nat /\ oldest \in Nat
      BY <1>1, <1>2, <2>1 DEF Page, TypeOK
    <3>4. /\ page.gap < o \/ page.gap = 0
          /\ \A s \in (page.after + 1)..page.cursor :
                s \in page.shown \/ s <= page.gap \/ s < o
      BY <3>1, <3>2, <3>3
    <3> QED BY <3>2, <3>4
  <2> QED BY <1>3, <2>1 DEF PageExact
<1>4. CASE Commit
  <2>1. Due /\ oldest' = OldestAfter(newest + 1) /\ page' = page /\ status' = status
    BY <1>4 DEF Commit
  <2>2. oldest \in 0..newest /\ newest \in Nat
    BY <1>1, <2>1 DEF Due, ReadyKnows, TypeOK
  <2>3. oldest' \in Nat /\ oldest <= oldest'
    <3>1. PICK o : o = OldestAfter(newest + 1)
      OBVIOUS
    <3>2. o \in Nat /\ oldest <= o
      BY <2>2, <3>1 DEF OldestAfter
    <3> QED BY <2>1, <3>1, <3>2
  <2> QED BY <1>1, <1>3, <2>1, <2>3
<1>5. CASE CommitBreaks
  <2>1. \/ status' = "faulted" /\ page' = page /\ Due
        \/ page' = None
    BY <1>5 DEF CommitBreaks
  <2> QED BY <1>1, <2>1 DEF PageExact
<1>6. CASE Boot
  <2>1. page' = page /\ page = None
    BY <1>1, <1>6 DEF Boot
  <2> QED BY <2>1 DEF PageExact
<1>7. CASE PowerLoss \/ ClosePage
  BY <1>7 DEF PowerLoss, ClosePage, PageExact
<1>8. ASSUME NEW after \in 0..MaxSequence, NEW limit \in 1..MaxLimit, OpenPage(after, limit)
      PROVE  PageExact' /\ (page' # None => status' # "off")
  <2>1. /\ page'.after = after /\ page'.cursor = after /\ page'.gap = GapEnd(after)
        /\ status = "ready" /\ status' = status /\ oldest' = oldest
    BY <1>8 DEF OpenPage, ram
  <2>2. oldest \in Nat
    BY <1>1 DEF TypeOK
  <2>3. GapEnd(after) < oldest \/ GapEnd(after) = 0
    BY <2>2 DEF GapEnd
  <2>4. (after + 1)..after = {}
    OBVIOUS
  <2> QED BY <2>1, <2>3, <2>4 DEF PageExact
<1>9. CASE ShowLine
  <2> DEFINE sequence == IF page.cursor < oldest THEN oldest ELSE page.cursor + 1
  <2>1. page # None /\ oldest' = oldest
    BY <1>9 DEF ShowLine
  <2>2. CASE status' = "faulted"
    BY <2>2 DEF PageExact
  <2>3. CASE status' = status /\ page' = [page EXCEPT !.cursor = sequence,
                                                     !.shown = @ \union {sequence}]
    <3>1. /\ page'.cursor = sequence /\ page'.shown = page.shown \union {sequence}
          /\ page'.gap = page.gap /\ page'.after = page.after
      BY <1>2, <2>1, <2>3 DEF Page
    <3>2. status = "ready"
      BY <1>9 DEF ShowLine
    <3>3. /\ page.gap < oldest \/ page.gap = 0
          /\ \A s \in (page.after + 1)..page.cursor :
                s \in page.shown \/ s <= page.gap \/ s < oldest
      BY <1>1, <2>1, <3>2 DEF PageExact
    <3>4. page.gap \in Nat /\ page.after \in Nat /\ page.cursor \in Nat /\ oldest \in Nat
      BY <1>1, <1>2, <2>1 DEF Page, TypeOK
    <3>5. \A s \in (page.after + 1)..sequence :
             s \in page.shown \/ s = sequence \/ s <= page.gap \/ s < oldest
      BY <3>3, <3>4
    <3> HIDE DEF sequence
    <3>6. /\ page'.gap < oldest \/ page'.gap = 0
          /\ \A s \in (page'.after + 1)..page'.cursor :
                s \in page'.shown \/ s <= page'.gap \/ s < oldest
      BY <3>1, <3>3, <3>5
    <3> QED BY <2>1, <2>3, <3>2, <3>6 DEF PageExact
  <2>4. \/ status' = "faulted"
        \/ /\ status' = status
           /\ page' = [page EXCEPT !.cursor = sequence, !.shown = @ \union {sequence}]
    BY <1>9 DEF ShowLine
  <2>5. status' # "off"
    BY <1>9, <2>4 DEF ShowLine
  <2> QED BY <2>2, <2>3, <2>4, <2>5
<1>10. ASSUME UNCHANGED vars \/ \E i \in Identities, feed \in Feeds : Observe(i, feed)
       PROVE  PageExact' /\ (page' # None => status' # "off")
  <2>1. page' = page /\ status' = status /\ oldest' = oldest
    BY <1>10 DEF vars, ram, Observe
  <2> QED BY <1>1, <2>1 DEF PageExact
<1> QED BY <1>4, <1>5, <1>6, <1>7, <1>8, <1>9, <1>10 DEF Next

-----------------------------------------------------------------------------
(* The theorems. *)

LEMMA Invariance == Spec => []IInv
<1>1. Init => IInv
  BY InitInv
<1>2. IInv /\ [Next]_vars => IInv'
  <2> SUFFICES ASSUME IInv, [Next]_vars PROVE IInv'
    OBVIOUS
  <2>1. TypeOK' /\ LogType'
    BY TypeStep
  <2>2. SlotsHoldLatest' /\ LatestKept' /\ ReadyKnows'
    BY <2>1, RingStep
  <2>3. BootsCounted'
    BY BootsStep DEF IInv
  <2>4. AllStatesCounted' /\ TurnsCounted'
    BY CountStep
  <2>5. PageExact' /\ (page' # None => status' # "off")
    BY PageStep
  <2> QED BY <2>1, <2>2, <2>3, <2>4, <2>5 DEF IInv
<1> QED BY <1>1, <1>2, PTL DEF Spec

\* The firmware's variables keep their types: sequences stay within the partition's
\* numbers, and a connection is in the queue of fh_journal_poll, once, exactly while it has
\* a pending state.
THEOREM TypeCorrect == Spec => []TypeOK
<1>1. IInv => TypeOK
  BY DEF IInv
<1> QED BY <1>1, Invariance, PTL

\* Whatever the moment the power fails in, the ring of fh_journal_open and
\* fh_journal_commit holds the latest records as they were written, in one run, and no
\* fewer than all slots but the one being written.
THEOREM RingKeepsHistory == Spec => []HistoryKept
<1>1. ASSUME IInv PROVE HistoryKept
  <2> DEFINE kept == {r.sequence : r \in Found}
             n == Len(log)
  <2>1. /\ TypeOK /\ LogType /\ SlotsHoldLatest /\ LatestKept /\ ReadyKnows /\ n \in Nat
        /\ SlotCount \in Nat \ {0, 1}
    BY <1>1, BoundsAssumption DEF IInv, LogType
  <2>2. \A r \in Found : r = log[r.sequence]
    BY <2>1 DEF SlotsHoldLatest, Found
  <2>3. kept = {q \in 1..n : Kept(q)}
    BY <2>1, FoundSequences
  <2> HIDE DEF kept
  <2>4. kept \subseteq 1..n /\ \A s \in 1..n : s + SlotCount > n + 1 => s \in kept
    BY <2>1, <2>3 DEF LatestKept
  <2>5. ASSUME ~ Ambiguous PROVE Readable
    <3>1. \A s \in SlotNumbers :
             flash[s].kind = "committed" => slot_of(flash[s].record.sequence) = s
      BY <2>1 DEF SlotsHoldLatest
    <3>2. ASSUME Found # {}
          PROVE  Max(kept) - Min(kept) < SlotCount /\ kept = Min(kept)..Max(kept)
      <4>1. n # 0
        <5>1. PICK r \in Found : r.sequence \in kept
          BY <3>2 DEF kept
        <5>2. r.sequence \in 1..n
          BY <2>4, <5>1
        <5> HIDE DEF n
        <5> QED BY <2>1, <5>2
      <4>2. PICK lo \in 1..n : n - lo < SlotCount /\ kept = lo..n
        BY <2>1, <2>3, <4>1, KeptRun
      <4>3. lo \in Int /\ n \in Int /\ lo <= n
        BY <2>1, <4>2
      <4>4. Min(kept) = lo /\ Max(kept) = n
        <5> HIDE DEF n
        <5> QED BY <4>2, <4>3, RunEnds
      <4> QED BY <4>2, <4>4
    <3> QED BY <2>5, <3>1, <3>2 DEF Readable, Ambiguous, kept
  <2>6. ASSUME status = "ready" PROVE kept = (IF newest = 0 THEN {} ELSE oldest..newest)
    <3>1. /\ newest = n /\ (newest # 0 => oldest \in 1..newest)
          /\ \A q \in 1..newest : Kept(q) <=> oldest <= q
      BY <2>1, <2>6 DEF ReadyKnows
    <3> HIDE DEF n
    <3> QED BY <2>1, <2>3, <3>1
  <2> QED BY <2>2, <2>4, <2>5, <2>6 DEF HistoryKept, kept
<1> QED BY <1>1, Invariance, PTL

\* What the journal leaves out between two records of a connection, coalesced_before says:
\* no state that fh_journal_observe was told is lost from the count.
THEOREM StatesAreCounted == Spec => []AllStatesCounted
<1>1. IInv => AllStatesCounted
  BY DEF IInv
<1> QED BY <1>1, Invariance, PTL

\* A page read over USB (fh_journal_flash_read) announces as a gap only what has been
\* overwritten and skips no record that is still in the ring, whatever is committed while
\* its lines are read.
THEOREM PagesAreExact == Spec => []PageExact
<1>1. IInv => PageExact
  BY DEF IInv
<1> QED BY <1>1, Invariance, PTL
=============================================================================
