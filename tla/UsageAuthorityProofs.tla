------------------------ MODULE UsageAuthorityProofs ------------------------
(***************************************************************************)
(* Proofs about UsageAuthority for any set of connectors, and about         *)
(* UsageHandover, which builds on the rule that UsageAuthority implements,  *)
(* for any set of helpers and any bounds.                                   *)
(***************************************************************************)
EXTENDS UsageAuthority, UsageHandover, SequenceTheorems, FiniteSetTheorems, TLAPS

-----------------------------------------------------------------------------
(* UsageAuthority: type correctness and the row locks. *)

LEMMA TypeInit == Init => TypeOK
BY IngestAssumption, NoneAssumption DEF Init, TypeOK, Running

\* The end of a usage transaction frees its rows and no others.
LEMMA EndType ==
    ASSUME TypeOK, NEW h \in Helpers, End(h)
    PROVE  /\ owner' \in [Helpers -> Helpers \union {None, Ingest}]
           /\ pc' = [pc EXCEPT ![h] = "idle"] /\ asked' = [asked EXCEPT ![h] = None]
           /\ \A k \in Helpers : owner'[k] = IF owner[k] = h THEN None ELSE owner[k]
           /\ \A k \in Helpers : pc'[k] # "idle" => owner'[k] = k
           /\ \A k \in Helpers : owner'[k] \in Helpers => pc'[owner'[k]] # "idle"
<1>1. owner' = [k \in Helpers |-> IF owner[k] = h THEN None ELSE owner[k]]
  BY DEF End, Release
<1>2. pc' = [pc EXCEPT ![h] = "idle"] /\ asked' = [asked EXCEPT ![h] = None]
  BY DEF End
<1>3. \A k \in Helpers : owner'[k] = IF owner[k] = h THEN None ELSE owner[k]
  BY <1>1
<1>4. owner' \in [Helpers -> Helpers \union {None, Ingest}]
  BY <1>1 DEF TypeOK
<1>5. \A k \in Helpers : pc'[k] # "idle" => owner'[k] = k
  BY <1>2, <1>3 DEF TypeOK, Running
<1>6. \A k \in Helpers : owner'[k] \in Helpers => pc'[owner'[k]] # "idle"
  BY <1>2, <1>3, NoneAssumption DEF TypeOK, Running
<1> QED BY <1>2, <1>3, <1>4, <1>5, <1>6

\* What TypeOK says of the transactions that are left holds when one of them ends.
LEMMA EndKeepsType ==
    ASSUME TypeOK, NEW h \in Helpers, End(h), UNCHANGED observer,
           authority' \subseteq Helpers, silent' \subseteq Helpers, revoked' \subseteq Helpers
    PROVE  TypeOK'
<1>1. pc' \in [Helpers -> {"idle", "asks", "waits", "claims", "claimed", "applies", "passes"}]
  BY EndType DEF TypeOK
<1>2. asked' \in [Helpers -> Helpers \union {None}]
  BY EndType DEF TypeOK
<1>3. \A k \in Helpers : owner'[k] = Ingest => observer' # None
  BY EndType, IngestAssumption DEF TypeOK
<1> QED BY <1>1, <1>2, <1>3, EndType DEF TypeOK, Running

\* The end of an ingest frees the rows it has locked and no others.
LEMMA EndIngestRows ==
    ASSUME TypeOK, EndIngest
    PROVE  /\ owner' \in [Helpers -> Helpers \union {None, Ingest}]
           /\ observer' = None /\ UNCHANGED <<authority, pc, asked>>
           /\ \A k \in Helpers : owner'[k] = IF owner[k] = Ingest THEN None ELSE owner[k]
           /\ \A k \in Helpers : owner'[k] # Ingest
<1>1. owner' = [k \in Helpers |-> IF owner[k] = Ingest THEN None ELSE owner[k]]
  BY DEF EndIngest, Release
<1>2. owner' \in [Helpers -> Helpers \union {None, Ingest}]
  BY <1>1 DEF TypeOK
<1> QED BY <1>1, <1>2, IngestAssumption DEF EndIngest, usage

LEMMA EndIngestKeepsType ==
    ASSUME TypeOK, EndIngest, silent' \subseteq Helpers, revoked' \subseteq Helpers
    PROVE  TypeOK'
<1>1. \A h \in Helpers : Running(h)' => owner'[h] = h
  BY EndIngestRows, IngestAssumption DEF TypeOK, Running
<1>2. \A k \in Helpers : owner'[k] \in Helpers => pc'[owner'[k]] # "idle"
  BY EndIngestRows, NoneAssumption DEF TypeOK, Running
<1> QED BY <1>1, <1>2, EndIngestRows DEF TypeOK, Running

LEMMA TypeStep == TypeOK /\ [Next]_vars => TypeOK'
<1> SUFFICES ASSUME TypeOK, [Next]_vars PROVE TypeOK'
  OBVIOUS
<1> USE NoneAssumption, IngestAssumption
<1>1. ASSUME NEW h \in Helpers, Begin(h) PROVE TypeOK'
  BY <1>1 DEF Begin, TypeOK, Running, Free
<1>2. ASSUME NEW h \in Helpers, Query(h) PROVE TypeOK'
  BY <1>2 DEF Query, TypeOK, Running
<1>3. ASSUME NEW h \in Helpers, LockHolder(h) PROVE TypeOK'
  BY <1>3 DEF LockHolder, TypeOK, Running, Free
<1>4. ASSUME NEW h \in Helpers, Claim(h) PROVE TypeOK'
  <2>1. CASE Others(h) = {}
    BY <1>4, <2>1 DEF Claim, TypeOK, Running
  <2>2. CASE Others(h) # {}
    BY <1>4, <2>2, EndKeepsType DEF Claim, TypeOK
  <2> QED BY <2>1, <2>2
<1>5. ASSUME NEW h \in Helpers, Commit(h) PROVE TypeOK'
  BY <1>5, EndKeepsType DEF Commit, TypeOK, Others
<1>6. ASSUME NEW h \in Helpers, Rollback(h) PROVE TypeOK'
  BY <1>6, EndKeepsType DEF Rollback, TypeOK
<1>7. ASSUME NEW h \in Helpers, BeginIngest(h) PROVE TypeOK'
  BY <1>7 DEF BeginIngest, TypeOK, Running, usage
<1>8. ASSUME NEW h \in Helpers, LockNext(h) PROVE TypeOK'
  BY <1>8 DEF LockNext, TypeOK, Running, Free, usage
<1>9. CASE CommitIngest
  BY <1>9, EndIngestKeepsType DEF CommitIngest, TypeOK
<1>10. CASE RollbackIngest
  BY <1>10, EndIngestKeepsType DEF RollbackIngest, TypeOK
<1>11. ASSUME NEW h \in Helpers, Heartbeat(h) \/ FallSilent(h) PROVE TypeOK'
  BY <1>11 DEF Heartbeat, FallSilent, TypeOK, Running, usage
<1>12. ASSUME NEW h \in Helpers, RevokeByOwner(h) \/ RevokeByDevice(h) \/ PairAgain(h)
       PROVE  TypeOK'
  BY <1>12 DEF RevokeByOwner, RevokeByDevice, PairAgain, TypeOK, Running, usage
<1>13. CASE UNCHANGED vars
  BY <1>13 DEF TypeOK, Running, vars, usage
<1> QED
  BY <1>1, <1>2, <1>3, <1>4, <1>5, <1>6, <1>7, <1>8, <1>9, <1>10, <1>11, <1>12, <1>13 DEF Next

\* Rows are locked by running transactions only, and a running usage transaction keeps its
\* own row locked until it ends, whatever the others do (Begin, LockHolder, LockNext).
THEOREM TypeCorrect == Spec => []TypeOK
BY TypeInit, TypeStep, PTL DEF Spec

-----------------------------------------------------------------------------
(* UsageAuthority: the inductive invariant. *)

\* The unique index: never two connectors with the authority.
AtMostOne == \A h, k \in authority : h = k

\* What a transaction has found out about its own row, which it keeps locked.
OwnRowKept ==
    \A h \in Helpers :
        /\ pc[h] = "applies" => h \in authority
        /\ pc[h] \in {"asks", "waits", "claims", "claimed", "passes"} => h \notin authority
        /\ Running(h) => h \notin revoked

\* What it has found out about its predecessor's row once that is locked as well: it has
\* the authority, and a transaction that goes on to take it has seen it silent or revoked.
PredecessorKept ==
    \A h \in Helpers :
        /\ pc[h] \in {"idle", "asks", "applies"} => asked[h] = None
        /\ (pc[h] \in {"claims", "claimed", "passes"} /\ asked[h] # None) =>
               /\ owner[asked[h]] = h /\ asked[h] \in authority
               /\ pc[h] # "passes" => asked[h] \in silent \union revoked

\* A flushed claim: there is one, and the index has let it pass.
ClaimAlone ==
    \A h \in Helpers :
        pc[h] = "claimed" =>
            /\ authority \subseteq {asked[h]}
            /\ \A k \in Helpers : pc[k] = "claimed" => k = h

IInv == TypeOK /\ AtMostOne /\ OwnRowKept /\ PredecessorKept /\ ClaimAlone

LEMMA InvInit == Init => IInv
BY TypeInit DEF Init, IInv, AtMostOne, OwnRowKept, PredecessorKept, ClaimAlone, Running

\* A transaction that ends without writing.
LEMMA EndKeepsInv ==
    ASSUME IInv, TypeOK', NEW h \in Helpers, End(h), UNCHANGED <<authority, revoked, observer>>,
           silent' \in {silent, silent \ {h}}, silent' # silent => owner[h] = h
    PROVE  IInv'
<1>1. /\ \A k \in Helpers : pc'[k] = IF k = h THEN "idle" ELSE pc[k]
      /\ \A k \in Helpers : asked'[k] = IF k = h THEN None ELSE asked[k]
      /\ \A k \in Helpers : owner'[k] = IF owner[k] = h THEN None ELSE owner[k]
  BY EndType DEF IInv, TypeOK
<1>2. AtMostOne'
  BY DEF IInv, AtMostOne
<1>3. OwnRowKept'
  BY <1>1 DEF IInv, OwnRowKept, Running
<1>4. PredecessorKept'
  BY <1>1 DEF IInv, PredecessorKept, TypeOK
<1>5. ClaimAlone'
  BY <1>1 DEF IInv, ClaimAlone
<1> QED BY <1>2, <1>3, <1>4, <1>5 DEF IInv

\* An ingest that ends has written silent and revoked of rows that it had locked.
LEMMA EndIngestKeepsInv ==
    ASSUME IInv, TypeOK', EndIngest, revoked' \subseteq revoked,
           \A k \in Helpers : owner[k] # Ingest =>
               /\ k \in silent => k \in silent'
               /\ k \in revoked => k \in revoked'
    PROVE  IInv'
<1>0. TypeOK
  BY DEF IInv
<1>1. /\ UNCHANGED <<authority, pc, asked>>
      /\ \A k \in Helpers : owner'[k] = IF owner[k] = Ingest THEN None ELSE owner[k]
  BY <1>0, EndIngestRows
<1>2. AtMostOne'
  BY <1>1 DEF IInv, AtMostOne
<1>3. OwnRowKept'
  BY <1>1 DEF IInv, OwnRowKept, Running
<1>4. PredecessorKept'
  BY <1>0, <1>1, IngestAssumption, NoneAssumption DEF IInv, PredecessorKept, TypeOK
<1>5. ClaimAlone'
  BY <1>1 DEF IInv, ClaimAlone
<1> QED BY <1>2, <1>3, <1>4, <1>5 DEF IInv

LEMMA InvStep == IInv /\ [Next]_vars => IInv'
<1> SUFFICES ASSUME IInv, [Next]_vars PROVE IInv'
  OBVIOUS
<1>0. TypeOK /\ TypeOK'
  BY TypeStep DEF IInv
<1> USE NoneAssumption, IngestAssumption
<1>1. ASSUME NEW h \in Helpers, Begin(h) PROVE IInv'
  <2>1. AtMostOne'
    BY <1>1 DEF Begin, IInv, AtMostOne
  <2>2. OwnRowKept'
    BY <1>0, <1>1 DEF Begin, IInv, OwnRowKept, TypeOK, Running
  <2>3. PredecessorKept'
    BY <1>0, <1>1 DEF Begin, IInv, PredecessorKept, TypeOK, Free
  <2>4. ClaimAlone'
    BY <1>0, <1>1 DEF Begin, IInv, ClaimAlone, TypeOK
  <2> QED BY <1>0, <2>1, <2>2, <2>3, <2>4 DEF IInv
<1>2. ASSUME NEW h \in Helpers, Query(h) PROVE IInv'
  <2>1. AtMostOne'
    BY <1>2 DEF Query, IInv, AtMostOne
  <2>2. OwnRowKept'
    BY <1>0, <1>2 DEF Query, IInv, OwnRowKept, TypeOK, Running
  <2>3. PredecessorKept'
    BY <1>0, <1>2 DEF Query, IInv, PredecessorKept, TypeOK
  <2>4. ClaimAlone'
    BY <1>0, <1>2 DEF Query, IInv, ClaimAlone, TypeOK
  <2> QED BY <1>0, <2>1, <2>2, <2>3, <2>4 DEF IInv
<1>3. ASSUME NEW h \in Helpers, LockHolder(h) PROVE IInv'
  <2>1. AtMostOne'
    BY <1>3 DEF LockHolder, IInv, AtMostOne
  <2>2. OwnRowKept'
    BY <1>0, <1>3 DEF LockHolder, IInv, OwnRowKept, TypeOK, Running
  <2>3. PredecessorKept'
    BY <1>0, <1>3 DEF LockHolder, IInv, PredecessorKept, TypeOK, Free
  <2>4. ClaimAlone'
    BY <1>0, <1>3 DEF LockHolder, IInv, ClaimAlone, TypeOK
  <2> QED BY <1>0, <2>1, <2>2, <2>3, <2>4 DEF IInv
<1>4. ASSUME NEW h \in Helpers, Claim(h) PROVE IInv'
  <2>1. CASE Others(h) = {}
    <3>1. AtMostOne'
      BY <1>4 DEF Claim, IInv, AtMostOne
    <3>2. OwnRowKept'
      BY <1>0, <1>4, <2>1 DEF Claim, IInv, OwnRowKept, TypeOK, Running
    <3>3. PredecessorKept'
      BY <1>0, <1>4, <2>1 DEF Claim, IInv, PredecessorKept, TypeOK
    <3>4. ClaimAlone'
      BY <1>0, <1>4, <2>1 DEF Claim, IInv, ClaimAlone, TypeOK, Others
    <3> QED BY <1>0, <3>1, <3>2, <3>3, <3>4 DEF IInv
  <2>2. CASE Others(h) # {}
    BY <1>0, <1>4, <2>2, EndKeepsInv DEF Claim
  <2> QED BY <2>1, <2>2
<1>5. ASSUME NEW h \in Helpers, Commit(h) PROVE IInv'
  <2>0. owner[h] = h
    BY <1>0, <1>5 DEF Commit, TypeOK, Running
  <2>1. CASE pc[h] = "claimed"
    <3>1. /\ authority' = {h}
          /\ silent' \in {silent, silent \ {h}} /\ revoked' = revoked
          /\ \A k \in Helpers : pc[k] = "claimed" => k = h
      BY <1>0, <1>5, <2>1 DEF Commit, IInv, ClaimAlone, Others
    <3>2. /\ \A k \in Helpers : pc'[k] = IF k = h THEN "idle" ELSE pc[k]
          /\ \A k \in Helpers : asked'[k] = IF k = h THEN None ELSE asked[k]
          /\ \A k \in Helpers : owner'[k] = IF owner[k] = h THEN None ELSE owner[k]
      BY <1>0, <1>5, EndType DEF Commit, TypeOK
    <3>3. \A k \in Helpers : k # h => pc[k] # "applies"
      BY <1>0, <2>1, <3>1 DEF IInv, OwnRowKept, PredecessorKept, ClaimAlone, TypeOK, Running
    <3>4. \A k \in Helpers :
             (k # h /\ pc[k] \in {"claims", "claimed", "passes"}) => asked[k] = None
      BY <1>0, <2>1, <3>1 DEF IInv, PredecessorKept, ClaimAlone, TypeOK
    <3>5. AtMostOne'
      BY <3>1 DEF AtMostOne
    <3>6. OwnRowKept'
      BY <1>0, <3>1, <3>2, <3>3 DEF IInv, OwnRowKept, TypeOK, Running
    <3>7. PredecessorKept'
      BY <3>2, <3>4 DEF IInv, PredecessorKept
    <3>8. ClaimAlone'
      BY <3>1, <3>2 DEF ClaimAlone
    <3> QED BY <1>0, <3>5, <3>6, <3>7, <3>8 DEF IInv
  <2>2. CASE pc[h] # "claimed"
    BY <1>0, <1>5, <2>0, <2>2, EndKeepsInv DEF Commit
  <2> QED BY <2>1, <2>2
<1>6. ASSUME NEW h \in Helpers, Rollback(h) PROVE IInv'
  BY <1>0, <1>6, EndKeepsInv DEF Rollback
<1>7. ASSUME NEW h \in Helpers, BeginIngest(h) PROVE IInv'
  BY <1>0, <1>7 DEF BeginIngest, usage, IInv, AtMostOne, OwnRowKept, PredecessorKept, ClaimAlone,
                    Running
<1>8. ASSUME NEW h \in Helpers, LockNext(h) PROVE IInv'
  <2>1. AtMostOne' /\ OwnRowKept' /\ ClaimAlone'
    BY <1>8 DEF LockNext, usage, IInv, AtMostOne, OwnRowKept, ClaimAlone, Running
  <2>2. PredecessorKept'
    BY <1>0, <1>8 DEF LockNext, Free, usage, IInv, PredecessorKept, TypeOK
  <2> QED BY <1>0, <2>1, <2>2 DEF IInv
<1>9. CASE CommitIngest
  BY <1>0, <1>9, EndIngestKeepsInv DEF CommitIngest
<1>10. CASE RollbackIngest
  BY <1>0, <1>10, EndIngestKeepsInv DEF RollbackIngest
<1>11. ASSUME NEW h \in Helpers, Heartbeat(h) PROVE IInv'
  BY <1>0, <1>11 DEF Heartbeat, Free, usage, IInv, AtMostOne, OwnRowKept, PredecessorKept,
                     ClaimAlone, Running
<1>12. ASSUME NEW h \in Helpers, FallSilent(h) PROVE IInv'
  BY <1>0, <1>12 DEF FallSilent, usage, IInv, AtMostOne, OwnRowKept, PredecessorKept, ClaimAlone,
                     Running
<1>13. ASSUME NEW h \in Helpers, RevokeByOwner(h) PROVE IInv'
  BY <1>0, <1>13 DEF RevokeByOwner, Free, usage, IInv, TypeOK, AtMostOne, OwnRowKept,
                     PredecessorKept, ClaimAlone, Running
<1>14. ASSUME NEW h \in Helpers, RevokeByDevice(h) PROVE IInv'
  BY <1>0, <1>14 DEF RevokeByDevice, Free, usage, IInv, TypeOK, AtMostOne, OwnRowKept,
                     PredecessorKept, ClaimAlone, Running
<1>15. ASSUME NEW h \in Helpers, PairAgain(h) PROVE IInv'
  BY <1>0, <1>15 DEF PairAgain, Free, usage, IInv, TypeOK, AtMostOne, OwnRowKept,
                     PredecessorKept, ClaimAlone, Running
<1>16. CASE UNCHANGED vars
  BY <1>0, <1>16 DEF vars, usage, IInv, AtMostOne, OwnRowKept, PredecessorKept, ClaimAlone, Running
<1> QED
  BY <1>1, <1>2, <1>3, <1>4, <1>5, <1>6, <1>7, <1>8, <1>9, <1>10, <1>11, <1>12, <1>13, <1>14,
     <1>15, <1>16 DEF Next

LEMMA Invariance == Spec => []IInv
BY InvInit, InvStep, PTL DEF Spec

-----------------------------------------------------------------------------
(* UsageAuthority: theorems. *)

\* However many connectors race for the authority, one has it at most.
THEOREM OneHolds == Spec => []OneHolder
<1>1. IInv => OneHolder
  <2> SUFFICES ASSUME IInv PROVE Cardinality(authority) <= 1
    BY DEF OneHolder
  <2>1. CASE authority = {}
    BY <2>1, FS_EmptySet
  <2>2. CASE authority # {}
    <3>1. PICK h \in authority : TRUE
      BY <2>2
    <3>2. authority = {h}
      BY <3>1 DEF IInv, AtMostOne
    <3>3. Cardinality({h}) = 1
      BY FS_Singleton
    <3> QED BY <3>2, <3>3
  <2> QED BY <2>1, <2>2
<1> QED BY <1>1, Invariance, PTL

\* Of two transactions that run at the same time, one at most applies its reports.
THEOREM OneDeducts == Spec => []OneApplies
<1>1. IInv => OneApplies
  <2> SUFFICES ASSUME IInv, NEW h \in Helpers, NEW k \in Helpers,
                      pc[h] \in {"applies", "claimed"}, pc[k] \in {"applies", "claimed"}
               PROVE  h = k
    BY DEF OneApplies
  <2>1. ASSUME NEW i \in Helpers, NEW j \in Helpers, pc[i] = "applies", pc[j] = "claimed"
        PROVE  FALSE
    <3>1. i \in authority /\ i = asked[j] /\ owner[i] = i
      BY <2>1 DEF IInv, OwnRowKept, ClaimAlone, TypeOK, Running
    <3>2. owner[i] = j
      BY <2>1, <3>1, NoneAssumption DEF IInv, PredecessorKept
    <3> QED BY <2>1, <3>1, <3>2
  <2> QED BY <2>1 DEF IInv, OwnRowKept, ClaimAlone, AtMostOne
<1> QED BY <1>1, Invariance, PTL

\* A transaction locks its predecessor's row last: one that still waits has its own only.
RowsHeld ==
    \A h \in Helpers :
        /\ pc[h] = "waits" => asked[h] \in Helpers
        /\ \A k \in Helpers :
              (owner[k] = h /\ k # h) => pc[h] \in {"claims", "claimed", "passes"}

\* No transactions wait for the rows of each other.
NoCircle ==
    \A S \in SUBSET Helpers :
        S # {} => ~\A h \in S : pc[h] = "waits" /\ asked[h] \in S

\* Rows are locked by their own transactions, by one that knows the predecessor, or by an
\* ingest.
LEMMA RowsHeldStep == IInv /\ RowsHeld /\ [Next]_vars => RowsHeld'
<1> SUFFICES ASSUME IInv, RowsHeld, [Next]_vars PROVE RowsHeld'
  OBVIOUS
<1>0. TypeOK
  BY DEF IInv
<1> USE NoneAssumption, IngestAssumption
<1>e. ASSUME NEW h \in Helpers, End(h) PROVE RowsHeld'
  <2>1. /\ \A k \in Helpers : pc'[k] = IF k = h THEN "idle" ELSE pc[k]
        /\ \A k \in Helpers : asked'[k] = IF k = h THEN None ELSE asked[k]
        /\ \A k \in Helpers : owner'[k] = IF owner[k] = h THEN None ELSE owner[k]
    BY <1>0, <1>e, EndType DEF TypeOK
  <2> QED BY <2>1 DEF RowsHeld
<1>1. ASSUME NEW h \in Helpers, Begin(h) PROVE RowsHeld'
  BY <1>0, <1>1 DEF Begin, RowsHeld, TypeOK
<1>2. ASSUME NEW h \in Helpers, Query(h) PROVE RowsHeld'
  BY <1>0, <1>2 DEF Query, RowsHeld, TypeOK
<1>3. ASSUME NEW h \in Helpers, LockHolder(h) PROVE RowsHeld'
  BY <1>0, <1>3 DEF LockHolder, RowsHeld, TypeOK
<1>4. ASSUME NEW h \in Helpers, Claim(h) PROVE RowsHeld'
  <2>1. CASE Others(h) = {}
    BY <1>0, <1>4, <2>1 DEF Claim, RowsHeld, TypeOK
  <2>2. CASE Others(h) # {}
    BY <1>4, <1>e, <2>2 DEF Claim
  <2> QED BY <2>1, <2>2
<1>5. ASSUME NEW h \in Helpers, Commit(h) \/ Rollback(h) PROVE RowsHeld'
  BY <1>5, <1>e DEF Commit, Rollback
<1>6. ASSUME NEW h \in Helpers, LockNext(h) PROVE RowsHeld'
  BY <1>0, <1>6 DEF LockNext, usage, RowsHeld, TypeOK
<1>7. CASE CommitIngest \/ RollbackIngest
  BY <1>0, <1>7, EndIngestRows DEF CommitIngest, RollbackIngest, RowsHeld
<1>8. ASSUME NEW h \in Helpers,
             \/ BeginIngest(h) \/ Heartbeat(h) \/ FallSilent(h)
             \/ RevokeByOwner(h) \/ RevokeByDevice(h) \/ PairAgain(h)
      PROVE  RowsHeld'
  BY <1>8 DEF BeginIngest, Heartbeat, FallSilent, RevokeByOwner, RevokeByDevice, PairAgain,
              usage, RowsHeld
<1>9. CASE UNCHANGED vars
  BY <1>9 DEF vars, usage, RowsHeld
<1> QED BY <1>1, <1>2, <1>3, <1>4, <1>5, <1>6, <1>7, <1>8, <1>9 DEF Next

\* A step after which no transaction waits that did not wait for the same row before.
LEMMA FewerWait ==
    ASSUME NoCircle,
           \A h \in Helpers : pc'[h] = "waits" => pc[h] = "waits" /\ asked'[h] = asked[h]
    PROVE  NoCircle'
BY DEF NoCircle

LEMMA NoCircleStep == IInv /\ NoCircle /\ [Next]_vars => NoCircle'
<1> SUFFICES ASSUME IInv, NoCircle, [Next]_vars PROVE NoCircle'
  OBVIOUS
<1>0. TypeOK
  BY DEF IInv
<1>1. ASSUME NEW h \in Helpers, Query(h) PROVE NoCircle'
  <2> SUFFICES ASSUME NEW S \in SUBSET Helpers, S # {},
                      \A k \in S : pc'[k] = "waits" /\ asked'[k] \in S
               PROVE  FALSE
    BY DEF NoCircle
  <2>1. \A k \in Helpers : k # h => pc'[k] = pc[k] /\ asked'[k] = asked[k]
    BY <1>0, <1>1 DEF Query, TypeOK
  <2>2. h \in S
    BY <2>1 DEF NoCircle
  <2>3. asked'[h] \in authority \intersect S
    BY <1>0, <1>1, <2>2 DEF Query, TypeOK
  <2>4. asked'[h] # h /\ pc[asked'[h]] # "waits"
    BY <1>0, <1>1, <2>3 DEF Query, IInv, OwnRowKept, TypeOK
  <2> QED BY <2>1, <2>3, <2>4
<1>2. ASSUME NEW h \in Helpers,
             Begin(h) \/ LockHolder(h) \/ Claim(h) \/ Commit(h) \/ Rollback(h)
      PROVE  NoCircle'
  <2>1. \A k \in Helpers : pc'[k] = "waits" => pc[k] = "waits" /\ asked'[k] = asked[k]
    BY <1>0, <1>2 DEF Begin, LockHolder, Claim, Commit, Rollback, End, TypeOK
  <2> QED BY <2>1, FewerWait
<1>3. ASSUME UNCHANGED usage PROVE NoCircle'
  BY <1>3, FewerWait DEF usage
<1>4. ASSUME NEW h \in Helpers,
             \/ BeginIngest(h) \/ LockNext(h) \/ Heartbeat(h) \/ FallSilent(h)
             \/ RevokeByOwner(h) \/ RevokeByDevice(h) \/ PairAgain(h)
      PROVE  UNCHANGED usage
  BY <1>4 DEF BeginIngest, LockNext, Heartbeat, FallSilent, RevokeByOwner, RevokeByDevice,
              PairAgain
<1>5. CASE CommitIngest \/ RollbackIngest
  BY <1>3, <1>5 DEF CommitIngest, RollbackIngest, EndIngest
<1>6. CASE UNCHANGED vars
  BY <1>3, <1>6 DEF vars
<1> QED BY <1>1, <1>2, <1>3, <1>4, <1>5, <1>6 DEF Next

\* Batches and reads of the desired snapshot lock the holder's row without an order of ids,
\* and still never wait for each other in a circle, however many there are.
THEOREM UsageNeverDeadlocks == Spec => []NoUsageDeadlock
<1>1. Init => RowsHeld /\ NoCircle
  BY NoneAssumption DEF Init, RowsHeld, NoCircle
<1>2. IInv /\ RowsHeld /\ NoCircle => NoUsageDeadlock
  <2> SUFFICES ASSUME IInv, RowsHeld, NoCircle, NEW S \in SUBSET Helpers, Deadlocked(S)
               PROVE  FALSE
    BY DEF NoUsageDeadlock
  <2>1. ASSUME NEW h \in S PROVE asked[h] \in S
    <3>1. /\ pc[h] = "waits" /\ asked[h] \in Helpers
          /\ owner[asked[h]] \in S /\ pc[owner[asked[h]]] = "waits"
      BY DEF Deadlocked, RowsHeld
    <3>2. owner[asked[h]] = asked[h]
      BY <3>1 DEF RowsHeld
    <3> QED BY <3>1, <3>2
  <2> QED BY <2>1 DEF Deadlocked, NoCircle
<1> QED BY <1>1, <1>2, Invariance, RowsHeldStep, NoCircleStep, PTL DEF Spec

\* The refinement mapping picks the only connector with the authority there is.
LEMMA HolderIs ==
    ASSUME AtMostOne
    PROVE  /\ authority = {} => Holder = None
           /\ \A h \in authority : Holder = h
BY DEF AtMostOne, Holder

\* Under the transactions, the authority passes as the rule says.
THEOREM Implements == Spec => ImplementsRule
<1>1. Init => Rule!Init
  BY DEF Init, Rule!Init, Holder
<1>2. IInv /\ IInv' /\ [Next]_vars => [Rule!Next]_(Rule!vars)
  <2> SUFFICES ASSUME IInv, IInv', [Next]_vars PROVE [Rule!Next]_(Rule!vars)
    OBVIOUS
  <2>0. TypeOK /\ TypeOK'
    BY DEF IInv
  <2>h. /\ authority = {} => Holder = None
        /\ \A h \in authority : Holder = h
    BY HolderIs DEF IInv
  <2>p. /\ authority' = {} => Holder' = None
        /\ \A h \in authority' : Holder' = h
    BY DEF IInv, AtMostOne, Holder
  <2>e. authority' = authority => Holder' = Holder
    BY DEF Holder
  <2>1. ASSUME UNCHANGED <<authority, silent, revoked>> PROVE UNCHANGED Rule!vars
    BY <2>1, <2>e DEF Rule!vars
  <2>2. ASSUME NEW h \in Helpers, Claim(h) \/ Rollback(h) \/ Begin(h) \/ Query(h) \/ LockHolder(h)
        PROVE  UNCHANGED Rule!vars
    BY <2>2, <2>1 DEF Claim, Rollback, Begin, Query, LockHolder
  <2>i. ASSUME NEW h \in Helpers, BeginIngest(h) \/ LockNext(h) PROVE UNCHANGED Rule!vars
    BY <2>i, <2>1 DEF BeginIngest, LockNext
  <2>j. CASE CommitIngest
    BY <2>0, <2>j, <2>e DEF CommitIngest, EndIngest, TypeOK, Rule!Next, Rule!Observe
  <2>k. CASE RollbackIngest
    BY <2>k, <2>1 DEF RollbackIngest, EndIngest
  <2>3. ASSUME NEW h \in Helpers, Commit(h) PROVE Rule!Next \/ UNCHANGED Rule!vars
    <3>1. /\ silent' \in {silent, silent \ {h}} /\ revoked' = revoked
          /\ h \notin revoked
      BY <2>3 DEF Commit, IInv, OwnRowKept, Running
    <3>2. CASE pc[h] = "claimed"
      <4>1. authority' = {h}
        BY <2>3, <3>2 DEF Commit, IInv, ClaimAlone, Others
      <4>2. h # Holder
        BY <2>h, <3>2, NoneAssumption DEF IInv, OwnRowKept, ClaimAlone
      <4>3. Rule!Vacant
        <5>1. CASE authority = {}
          BY <2>h, <5>1 DEF Rule!Vacant
        <5>2. CASE authority # {}
          <6>1. asked[h] \in authority /\ asked[h] # None
            BY <2>0, <3>2, <5>2, NoneAssumption DEF IInv, ClaimAlone, TypeOK
          <6>2. Holder = asked[h] /\ asked[h] \in silent \union revoked
            BY <2>h, <3>2, <6>1 DEF IInv, PredecessorKept
          <6> QED BY <6>2 DEF Rule!Vacant
        <5> QED BY <5>1, <5>2
      <4>4. Holder' = h
        BY <2>p, <4>1
      <4> QED BY <3>1, <4>2, <4>3, <4>4 DEF Rule!Next, Rule!Take
    <3>3. CASE pc[h] # "claimed"
      <4>1. Holder' = Holder
        BY <2>3, <2>e, <3>3 DEF Commit
      <4> QED BY <3>1, <4>1 DEF Rule!Next, Rule!Contact, Rule!vars
    <3> QED BY <3>2, <3>3
  <2>4. ASSUME NEW h \in Helpers, Heartbeat(h) PROVE Rule!Next
    BY <2>4, <2>e DEF Heartbeat, Rule!Next, Rule!Contact
  <2>5. ASSUME NEW h \in Helpers, FallSilent(h) PROVE Rule!Next
    BY <2>5, <2>e DEF FallSilent, Rule!Next, Rule!FallSilent
  <2>6. ASSUME NEW h \in Helpers, RevokeByOwner(h) PROVE Rule!Next
    <3>1. /\ revoked' = revoked \union {h} /\ silent' = silent
          /\ authority' = authority \ {h}
      BY <2>6 DEF RevokeByOwner
    <3>2. CASE h \in authority
      <4>1. Holder = h
        BY <2>h, <3>2
      <4>2. authority' = {}
        BY <3>1, <3>2 DEF IInv, AtMostOne
      <4> QED BY <2>p, <3>1, <4>1, <4>2 DEF Rule!Next, Rule!Revoke
    <3>3. CASE h \notin authority
      BY <2>e, <3>1, <3>3 DEF Rule!Next, Rule!Revoke
    <3> QED BY <3>2, <3>3
  <2>7. ASSUME NEW h \in Helpers, RevokeByDevice(h) PROVE Rule!Next
    BY <2>7, <2>e DEF RevokeByDevice, Rule!Next, Rule!Revoke
  <2>8. ASSUME NEW h \in Helpers, PairAgain(h) PROVE Rule!Next
    BY <2>8, <2>e DEF PairAgain, Rule!Next, Rule!PairAgain
  <2>9. CASE UNCHANGED vars
    BY <2>9, <2>1 DEF vars
  <2> QED BY <2>2, <2>3, <2>4, <2>5, <2>6, <2>7, <2>8, <2>9, <2>i, <2>j, <2>k DEF Next
<1> QED BY <1>1, <1>2, Invariance, PTL DEF Spec, ImplementsRule, Rule!Spec

-----------------------------------------------------------------------------
(* UsageHandover: the chained segments of a queue. *)

\* A helper's segments are numbered and follow each other up to its counter.
QueueChained(q, n, end) ==
    \A i \in 1..Len(q) :
        /\ q[i].segment = n - Len(q) + i
        /\ q[i].lo <= q[i].hi
        /\ i < Len(q) => q[i].hi = q[i + 1].lo
        /\ i = Len(q) => q[i].hi = end

\* How much of the print h's segments that have left its queue cover.
Left(q, end) == IF q = <<>> THEN end ELSE q[1].lo

QueuesChained == \A h \in Helpers : QueueChained(queue[h], made[h], seen[h])

-----------------------------------------------------------------------------
(* UsageHandover: lemmas about one queue. *)

\* Appending a segment that starts at the counter and moves it on.
LEMMA AppendChained ==
    ASSUME NEW q \in Seq(Segment), NEW n \in Nat, NEW s \in Nat, NEW t \in Nat, s <= t,
           Len(q) <= n, QueueChained(q, n, s), NEW b \in Segment,
           b.segment = n + 1, b.lo = s, b.hi = t
    PROVE  /\ QueueChained(Append(q, b), n + 1, t)
           /\ Left(Append(q, b), t) = Left(q, s)
<1> DEFINE r == Append(q, b)
<1>1. /\ r \in Seq(Segment) /\ Len(r) = Len(q) + 1 /\ Len(q) \in Nat
      /\ \A i \in 1..Len(q) : r[i] = q[i]
      /\ r[Len(q) + 1] = b /\ r # <<>>
  OBVIOUS
<1> HIDE DEF r
<1>2. Left(r, t) = Left(q, s)
  <2>1. CASE q = <<>>
    BY <1>1, <2>1 DEF Left
  <2>2. CASE q # <<>>
    <3>1. 1 \in 1..Len(q)
      BY <2>2
    <3> QED BY <1>1, <2>2, <3>1 DEF Left
  <2> QED BY <2>1, <2>2
<1>3. QueueChained(r, n + 1, t)
  <2> SUFFICES ASSUME NEW i \in 1..Len(r)
               PROVE  /\ r[i].segment = n + 1 - Len(r) + i
                      /\ r[i].lo <= r[i].hi
                      /\ i < Len(r) => r[i].hi = r[i + 1].lo
                      /\ i = Len(r) => r[i].hi = t
    BY DEF QueueChained
  <2>1. CASE i = Len(q) + 1
    BY <1>1, <2>1
  <2>2. CASE i \in 1..Len(q)
    <3>1. /\ q[i].segment = n - Len(q) + i
          /\ q[i].lo <= q[i].hi
          /\ i < Len(q) => q[i].hi = q[i + 1].lo
          /\ i = Len(q) => q[i].hi = s
      BY <2>2 DEF QueueChained
    <3>2. i < Len(q) => i + 1 \in 1..Len(q)
      BY <1>1, <2>2
    <3>3. n - Len(q) + i = n + 1 - Len(r) + i
      BY <1>1
    <3> QED BY <1>1, <2>2, <3>1, <3>2, <3>3
  <2> QED BY <1>1, <2>1, <2>2
<1> QED BY <1>2, <1>3 DEF r

\* Taking the head off the queue.
LEMMA TailChained ==
    ASSUME NEW q \in Seq(Segment), NEW n \in Nat, NEW s \in Nat, q # <<>>,
           QueueChained(q, n, s)
    PROVE  /\ QueueChained(Tail(q), n, s)
           /\ Left(Tail(q), s) = Head(q).hi
           /\ Left(q, s) = Head(q).lo /\ Head(q).lo <= Head(q).hi
           /\ Head(q).segment = n - Len(q) + 1
           /\ Head(q) \in Segment
<1> DEFINE r == Tail(q)
<1>1. /\ r \in Seq(Segment) /\ Len(r) = Len(q) - 1 /\ Len(q) \in Nat /\ Len(q) >= 1
      /\ \A i \in 1..Len(r) : r[i] = q[i + 1]
      /\ Head(q) = q[1] /\ 1 \in 1..Len(q) /\ q[1] \in Segment
  OBVIOUS
<1>2. r = <<>> <=> Len(r) = 0
  BY <1>1, EmptySeq
<1> HIDE DEF r
<1>3. /\ q[1].segment = n - Len(q) + 1 /\ q[1].lo <= q[1].hi
      /\ 1 < Len(q) => q[1].hi = q[2].lo
      /\ 1 = Len(q) => q[1].hi = s
  BY <1>1 DEF QueueChained
<1>4. Left(r, s) = q[1].hi
  BY <1>1, <1>2, <1>3 DEF Left
<1>5. QueueChained(r, n, s)
  <2> SUFFICES ASSUME NEW i \in 1..Len(r)
               PROVE  /\ r[i].segment = n - Len(r) + i
                      /\ r[i].lo <= r[i].hi
                      /\ i < Len(r) => r[i].hi = r[i + 1].lo
                      /\ i = Len(r) => r[i].hi = s
    BY DEF QueueChained
  <2> DEFINE j == i + 1
  <2>1. j \in 1..Len(q) /\ r[i] = q[j] /\ j = i + 1
    BY <1>1
  <2>2. /\ q[j].segment = n - Len(q) + j
        /\ q[j].lo <= q[j].hi
        /\ j < Len(q) => q[j].hi = q[j + 1].lo
        /\ j = Len(q) => q[j].hi = s
    BY <2>1 DEF QueueChained
  <2>3. i < Len(r) => r[i + 1] = q[j + 1] /\ j < Len(q)
    BY <1>1
  <2>4. i = Len(r) => j = Len(q)
    BY <1>1
  <2>5. n - Len(q) + j = n - Len(r) + i
    BY <1>1, <2>1
  <2> HIDE DEF j
  <2> QED BY <2>1, <2>2, <2>3, <2>4, <2>5
<1> QED BY <1>1, <1>3, <1>4, <1>5 DEF r, Left

-----------------------------------------------------------------------------
(* UsageHandover: type correctness. *)

LEMMA HandoverTypeInit == HandoverInit => HandoverTypeOK
<1>1. <<>> \in Seq(Segment)
  OBVIOUS
<1> QED BY <1>1, NoneAssumption DEF HandoverInit, Authority!Init, HandoverTypeOK

\* Every action is one of the queues, of the authority, or of neither.
LEMMA HandoverTypeStep == HandoverTypeOK /\ [HandoverNext]_handoverVars => HandoverTypeOK'
<1> SUFFICES ASSUME HandoverTypeOK, [HandoverNext]_handoverVars PROVE HandoverTypeOK'
  OBVIOUS
<1>p. ASSUME NEW h \in Helpers, queue[h] # <<>>, Pop(h)
      PROVE  /\ queue' \in [Helpers -> Seq(Segment)]
             /\ Len(queue'[h]) = Len(queue[h]) - 1
             /\ \A k \in Helpers : k # h => queue'[k] = queue[k]
  <2>1. queue[h] \in Seq(Segment)
    BY DEF HandoverTypeOK
  <2>2. Tail(queue[h]) \in Seq(Segment) /\ Len(Tail(queue[h])) = Len(queue[h]) - 1
    BY <1>p, <2>1
  <2> QED BY <1>p, <2>2 DEF Pop, HandoverTypeOK
<1>1. CASE Extrude
  BY <1>1 DEF Extrude, HandoverTypeOK, authorityState, helper, ledger
<1>2. ASSUME NEW h \in Helpers, Capture(h) PROVE HandoverTypeOK'
  <2> DEFINE b == [segment |-> made[h] + 1, lo |-> seen[h], hi |-> printed]
  <2>1. b \in Segment /\ queue[h] \in Seq(Segment)
    BY DEF HandoverTypeOK, Segment
  <2>2. /\ Append(queue[h], b) \in Seq(Segment)
        /\ Len(Append(queue[h], b)) = Len(queue[h]) + 1 /\ Len(queue[h]) \in Nat
    BY <2>1
  <2>3. queue' = [queue EXCEPT ![h] = Append(@, b)]
    BY <1>2 DEF Capture
  <2> HIDE DEF b
  <2>4. queue' \in [Helpers -> Seq(Segment)]
    BY <2>2, <2>3 DEF HandoverTypeOK
  <2>5. \A k \in Helpers : applied'[k] + Len(queue'[k]) <= made'[k]
    <3> SUFFICES ASSUME NEW k \in Helpers PROVE applied'[k] + Len(queue'[k]) <= made'[k]
      OBVIOUS
    <3>1. /\ applied[k] + Len(queue[k]) <= made[k]
          /\ applied' = applied /\ made' = [made EXCEPT ![h] = @ + 1]
          /\ applied[k] \in Nat /\ made[k] \in Nat
      BY <1>2 DEF Capture, ledger, HandoverTypeOK
    <3>2. CASE k = h
      <4>1. Len(queue'[k]) = Len(queue[k]) + 1 /\ made'[k] = made[k] + 1
        BY <2>2, <2>3, <3>1, <3>2 DEF HandoverTypeOK
      <4> QED BY <2>2, <3>1, <3>2, <4>1
    <3>3. CASE k # h
      BY <2>3, <3>1, <3>3 DEF HandoverTypeOK
    <3> QED BY <3>2, <3>3
  <2>6. seen' \in [Helpers -> Nat] /\ made' \in [Helpers -> Nat]
    BY <1>2 DEF Capture, HandoverTypeOK
  <2> QED BY <1>2, <2>4, <2>5, <2>6 DEF Capture, Observe, HandoverTypeOK, authorityState, ledger
<1>3. ASSUME NEW h \in Helpers, LoseConnection(h) PROVE HandoverTypeOK'
  BY <1>3, SMTT(30) DEF LoseConnection, HandoverTypeOK, authorityState, helper, ledger
<1>4. ASSUME NEW h \in Helpers, Reconnect(h) PROVE HandoverTypeOK'
  BY <1>4 DEF Reconnect, HandoverTypeOK, authorityState, helper, ledger
<1>5. ASSUME NEW h \in Helpers, GoSilent(h) PROVE HandoverTypeOK'
  BY <1>5 DEF GoSilent, Authority!FallSilent, HandoverTypeOK, helper, ledger
<1>6. ASSUME NEW h \in Helpers, Revoke(h) PROVE HandoverTypeOK'
  BY <1>6 DEF Revoke, Authority!Revoke, HandoverTypeOK, helper, ledger
<1>7. ASSUME NEW h \in Helpers, SendHeartbeat(h) PROVE HandoverTypeOK'
  BY <1>7 DEF SendHeartbeat, Authority!Contact, HandoverTypeOK, helper, ledger
<1>8. ASSUME NEW h \in Helpers, Deduct(h) PROVE HandoverTypeOK'
  <2>1. /\ queue' \in [Helpers -> Seq(Segment)]
        /\ Len(queue'[h]) = Len(queue[h]) - 1 /\ Len(queue[h]) \in Nat
        /\ \A k \in Helpers : k # h => queue'[k] = queue[k]
    BY <1>8, <1>p DEF Deduct, HandoverTypeOK
  <2>2. ASSUME NEW k \in Helpers PROVE applied'[k] + Len(queue'[k]) <= made'[k]
    <3>1. /\ made' = made /\ applied[k] + Len(queue[k]) <= made[k]
          /\ applied[k] \in Nat /\ made[k] \in Nat
          /\ applied'[k] = IF k = h THEN applied[k] + 1 ELSE applied[k]
      BY <1>8 DEF Deduct, HandoverTypeOK
    <3> QED BY <2>1, <3>1
  <2>3. deducted' \in [1..MaxPrinted -> Nat]
    BY <1>8 DEF Deduct, HandoverTypeOK
  <2>4. holder' \in Helpers \union {None} /\ tenures' \in Nat /\ silent' \subseteq Helpers
    BY <1>8 DEF Deduct, Hold, HandoverTypeOK
  <2>5. applied' \in [Helpers -> Nat]
    BY <1>8 DEF Deduct, HandoverTypeOK
  <2> QED BY <1>8, <2>1, <2>2, <2>3, <2>4, <2>5 DEF Deduct, HandoverTypeOK
<1>9. ASSUME NEW h \in Helpers, Acknowledge(h) PROVE HandoverTypeOK'
  <2>1. /\ queue' \in [Helpers -> Seq(Segment)]
        /\ Len(queue'[h]) = Len(queue[h]) - 1 /\ Len(queue[h]) \in Nat
        /\ \A k \in Helpers : k # h => queue'[k] = queue[k]
    BY <1>9, <1>p DEF Acknowledge, HandoverTypeOK
  <2>2. ASSUME NEW k \in Helpers PROVE applied'[k] + Len(queue'[k]) <= made'[k]
    <3>1. /\ made' = made /\ applied' = applied /\ applied[k] + Len(queue[k]) <= made[k]
          /\ applied[k] \in Nat /\ made[k] \in Nat
      BY <1>9 DEF Acknowledge, HandoverTypeOK, ledger
    <3> QED BY <2>1, <3>1
  <2> QED BY <1>9, <2>1, <2>2 DEF Acknowledge, Authority!Contact, HandoverTypeOK, ledger
<1>10. ASSUME NEW h \in Helpers, PullDesired(h) PROVE HandoverTypeOK'
  BY <1>10 DEF PullDesired, Hold, HandoverTypeOK, helper, ledger
<1>11. ASSUME NEW h \in Helpers, Sample(h) PROVE HandoverTypeOK'
  BY <1>11 DEF Sample, Observe, HandoverTypeOK, authorityState, helper, ledger
<1>12. CASE UNCHANGED handoverVars
  BY <1>12 DEF handoverVars, HandoverTypeOK, authorityState, helper, ledger
<1> QED
  BY <1>1, <1>2, <1>3, <1>4, <1>5, <1>6, <1>7, <1>8, <1>9, <1>10, <1>11, <1>12 DEF HandoverNext

\* The values of the variables; a helper's segments are recorded at most once each.
THEOREM HandoverTypeCorrect == HandoverSpec => []HandoverTypeOK
BY HandoverTypeInit, HandoverTypeStep, PTL DEF HandoverSpec

-----------------------------------------------------------------------------
(* UsageHandover: the inductive invariant. *)

\* Helpers that have taken the authority, as far as the state still shows it.
Held == {h \in Helpers : applied[h] > 0 \/ holder = h}

\* Helpers that may have had unit n deducted: some of their segments are recorded, and
\* those with n have left the queue.
Deductors(n) == {h \in Helpers : applied[h] > 0 /\ n <= Left(queue[h], seen[h])}

HandoverIInv ==
    /\ HandoverTypeOK
    /\ QueuesChained
    /\ IsFiniteSet(Held) /\ Cardinality(Held) <= tenures
    /\ \A n \in 1..MaxPrinted : deducted[n] <= Cardinality(Deductors(n))
    /\ \A h \in Helpers : seen[h] <= printed

LEMMA HandoverInvInit == HandoverInit => HandoverIInv
<1> SUFFICES ASSUME HandoverInit PROVE HandoverIInv
  OBVIOUS
<1>1. QueuesChained
  BY DEF HandoverInit, QueuesChained, QueueChained
<1>2. Held = {} /\ tenures = 0
  BY NoneAssumption DEF HandoverInit, Authority!Init, Held
<1>3. ASSUME NEW n \in 1..MaxPrinted PROVE deducted[n] <= Cardinality(Deductors(n))
  <2>1. Deductors(n) = {} /\ deducted[n] = 0
    BY DEF HandoverInit, Deductors
  <2> QED BY <2>1, FS_EmptySet
<1>4. \A h \in Helpers : seen[h] <= printed
  BY DEF HandoverInit
<1>5. IsFiniteSet(Held) /\ Cardinality(Held) <= tenures
  BY <1>2, FS_EmptySet
<1> QED BY <1>1, <1>3, <1>4, <1>5, HandoverTypeInit DEF HandoverIInv

\* A step after which fewer helpers show that they took the authority.
LEMMA HeldShrinks ==
    ASSUME IsFiniteSet(Held), Cardinality(Held) <= tenures, tenures \in Nat,
           Held' \subseteq Held, tenures' = tenures
    PROVE  IsFiniteSet(Held') /\ Cardinality(Held') <= tenures'
<1>1. /\ IsFiniteSet(Held') /\ Cardinality(Held') <= Cardinality(Held)
  BY FS_Subset
<1>2. Cardinality(Held) \in Nat /\ Cardinality(Held') \in Nat
  BY <1>1, FS_CardinalityType
<1> QED BY <1>1, <1>2

\* A helper that applies its reports takes the authority at the cost of a tenure.
LEMMA HoldCounts ==
    ASSUME HandoverTypeOK, IsFiniteSet(Held), Cardinality(Held) <= tenures,
           NEW h \in Helpers, Hold(h), Held' \subseteq Held \union {h}
    PROVE  IsFiniteSet(Held') /\ Cardinality(Held') <= tenures'
<1>0. tenures \in Nat /\ Cardinality(Held) \in Nat
  BY FS_CardinalityType DEF HandoverTypeOK
<1>1. CASE holder = h
  <2>1. Held' \subseteq Held /\ tenures' = tenures
    BY <1>1 DEF Hold, Held
  <2> QED BY <1>0, <2>1, HeldShrinks
<1>2. CASE holder # h
  <2> DEFINE S == Held \union {h}
  <2>1. IsFiniteSet(S) /\ Cardinality(S) <= Cardinality(Held) + 1 /\ tenures' = tenures + 1
    <3>1. /\ IsFiniteSet(S)
          /\ Cardinality(S) = Cardinality(Held) \/ Cardinality(S) = Cardinality(Held) + 1
      BY FS_AddElement
    <3>2. tenures' = tenures + 1
      BY <1>2 DEF Hold
    <3> QED BY <1>0, <3>1, <3>2
  <2>2. IsFiniteSet(Held') /\ Cardinality(Held') <= Cardinality(S)
    BY <2>1, FS_Subset
  <2>3. Cardinality(S) \in Nat /\ Cardinality(Held') \in Nat
    BY <2>1, <2>2, FS_CardinalityType
  <2> QED BY <1>0, <2>1, <2>2, <2>3
<1> QED BY <1>1, <1>2

\* A step that deducts nothing and after which no fewer helpers may have had n deducted.
LEMMA DeductorsGrow ==
    ASSUME HandoverIInv, IsFiniteSet(Held'), NEW n \in 1..MaxPrinted,
           deducted[n] \in Nat, deducted'[n] = deducted[n],
           Deductors(n) \subseteq Deductors(n)'
    PROVE  deducted'[n] <= Cardinality(Deductors(n)')
<1>1. Deductors(n)' \subseteq Held'
  BY DEF Deductors, Held
<1>2. IsFiniteSet(Deductors(n)') /\ Cardinality(Deductors(n)') \in Nat
  BY <1>1, FS_Subset, FS_CardinalityType
<1>3. Cardinality(Deductors(n)) <= Cardinality(Deductors(n)') /\ IsFiniteSet(Deductors(n))
  BY <1>2, FS_Subset
<1>4. Cardinality(Deductors(n)) \in Nat
  BY <1>3, FS_CardinalityType
<1>5. deducted[n] <= Cardinality(Deductors(n))
  BY DEF HandoverIInv
<1> QED BY <1>2, <1>3, <1>4, <1>5

\* A step that leaves queues and deductions alone.
LEMMA HelpersRest ==
    ASSUME HandoverIInv, HandoverTypeOK', UNCHANGED <<helper, ledger>>, printed <= printed',
           IsFiniteSet(Held'), Cardinality(Held') <= tenures'
    PROVE  HandoverIInv'
<1>t. printed \in Nat /\ printed' \in Nat
  BY DEF HandoverIInv, HandoverTypeOK
<1>1. QueuesChained'
  BY DEF HandoverIInv, QueuesChained, helper
<1>2. ASSUME NEW n \in 1..MaxPrinted PROVE deducted'[n] <= Cardinality(Deductors(n)')
  <2>1. Deductors(n)' = Deductors(n) /\ deducted' = deducted
    BY DEF Deductors, helper, ledger
  <2> QED BY <2>1 DEF HandoverIInv
<1>3. \A h \in Helpers : seen'[h] <= printed'
  BY <1>t DEF HandoverIInv, HandoverTypeOK, helper
<1> QED BY <1>1, <1>2, <1>3 DEF HandoverIInv

\* What a helper's queue looks like when its head has been taken off.
LEMMA PopHead ==
    ASSUME HandoverIInv, NEW h \in Helpers, queue[h] # <<>>, Pop(h), UNCHANGED <<seen, made>>
    PROVE  /\ QueuesChained'
           /\ \A k \in Helpers : k # h => queue'[k] = queue[k]
           /\ Left(queue[h], seen[h]) = Head(queue[h]).lo
           /\ Left(queue'[h], seen[h]) = Head(queue[h]).hi
           /\ Head(queue[h]) \in Segment /\ Head(queue[h]).lo <= Head(queue[h]).hi
           /\ Head(queue[h]).segment = made[h] - Len(queue[h]) + 1
<1>1. /\ queue[h] \in Seq(Segment) /\ made[h] \in Nat /\ seen[h] \in Nat
      /\ QueueChained(queue[h], made[h], seen[h])
  BY DEF HandoverIInv, HandoverTypeOK, QueuesChained
<1>2. queue'[h] = Tail(queue[h]) /\ \A k \in Helpers : k # h => queue'[k] = queue[k]
  BY DEF Pop, HandoverIInv, HandoverTypeOK
<1>3. /\ QueueChained(Tail(queue[h]), made[h], seen[h])
      /\ Left(Tail(queue[h]), seen[h]) = Head(queue[h]).hi
      /\ Left(queue[h], seen[h]) = Head(queue[h]).lo
      /\ Head(queue[h]).lo <= Head(queue[h]).hi
      /\ Head(queue[h]).segment = made[h] - Len(queue[h]) + 1
      /\ Head(queue[h]) \in Segment
  BY <1>1, TailChained
<1>4. QueuesChained'
  BY <1>2, <1>3 DEF HandoverIInv, QueuesChained
<1> QED BY <1>2, <1>3, <1>4

LEMMA HandoverInvStep == HandoverIInv /\ [HandoverNext]_handoverVars => HandoverIInv'
<1> SUFFICES ASSUME HandoverIInv, [HandoverNext]_handoverVars PROVE HandoverIInv'
  OBVIOUS
<1>0. HandoverTypeOK /\ HandoverTypeOK'
  BY HandoverTypeStep DEF HandoverIInv
<1>f. IsFiniteSet(Held) /\ Cardinality(Held) <= tenures /\ tenures \in Nat
  BY DEF HandoverIInv, HandoverTypeOK
<1>d. \A n \in 1..MaxPrinted : deducted[n] \in Nat
  BY <1>0 DEF HandoverTypeOK
<1>a. printed \in Nat
  BY <1>0 DEF HandoverTypeOK
<1>1. CASE Extrude
  <2>1. /\ UNCHANGED <<helper, ledger>> /\ printed' = printed + 1
        /\ Held' = Held /\ tenures' = tenures
    BY <1>1 DEF Extrude, Held, authorityState, ledger
  <2> QED BY <1>0, <1>a, <1>f, <2>1, HelpersRest
<1>2. ASSUME NEW h \in Helpers, Capture(h) PROVE HandoverIInv'
  <2> DEFINE b == [segment |-> made[h] + 1, lo |-> seen[h], hi |-> printed]
  <2>1. /\ queue[h] \in Seq(Segment) /\ made[h] \in Nat /\ seen[h] \in Nat
        /\ QueueChained(queue[h], made[h], seen[h]) /\ seen[h] <= printed
        /\ Len(queue[h]) <= made[h]
    <3>1. applied[h] + Len(queue[h]) <= made[h] /\ applied[h] \in Nat /\ queue[h] \in Seq(Segment)
      BY <1>0 DEF HandoverTypeOK
    <3>2. Len(queue[h]) <= made[h]
      BY <1>0, <3>1 DEF HandoverTypeOK
    <3> QED BY <1>0, <3>1, <3>2 DEF HandoverIInv, HandoverTypeOK, QueuesChained
  <2>2. /\ b \in Segment /\ b.segment = made[h] + 1 /\ b.lo = seen[h] /\ b.hi = printed
    BY <1>a, <2>1 DEF Segment
  <2>3. /\ queue' = [queue EXCEPT ![h] = Append(@, b)]
        /\ seen' = [seen EXCEPT ![h] = printed] /\ made' = [made EXCEPT ![h] = @ + 1]
        /\ UNCHANGED <<authorityState, ledger, printed, tenures>>
    BY <1>2 DEF Capture
  <2> HIDE DEF b
  <2>4. /\ QueueChained(Append(queue[h], b), made[h] + 1, printed)
        /\ Left(Append(queue[h], b), printed) = Left(queue[h], seen[h])
    BY <1>a, <2>1, <2>2, AppendChained
  <2>5. /\ queue'[h] = Append(queue[h], b) /\ seen'[h] = printed /\ made'[h] = made[h] + 1
        /\ \A k \in Helpers : k # h =>
              queue'[k] = queue[k] /\ seen'[k] = seen[k] /\ made'[k] = made[k]
    BY <1>0, <2>3 DEF HandoverTypeOK
  <2>6. QueuesChained'
    BY <2>4, <2>5 DEF HandoverIInv, QueuesChained
  <2>7. Held' = Held
    BY <2>3 DEF Held, authorityState, ledger
  <2>8. ASSUME NEW n \in 1..MaxPrinted PROVE deducted'[n] <= Cardinality(Deductors(n)')
    <3>1. Deductors(n)' = Deductors(n)
      BY <2>3, <2>4, <2>5 DEF Deductors, ledger
    <3> QED BY <2>3, <3>1 DEF HandoverIInv, ledger
  <2>9. \A k \in Helpers : seen'[k] <= printed'
    BY <1>a, <2>3, <2>5 DEF HandoverIInv
  <2> QED BY <1>0, <1>f, <2>3, <2>6, <2>7, <2>8, <2>9 DEF HandoverIInv
<1>3. ASSUME NEW h \in Helpers,
             Sample(h) \/ LoseConnection(h) \/ Reconnect(h) \/ GoSilent(h) \/ SendHeartbeat(h)
      PROVE  HandoverIInv'
  <2>1. /\ UNCHANGED <<helper, ledger>> /\ printed' = printed /\ tenures' = tenures
        /\ holder' = holder
    BY <1>3 DEF Sample, LoseConnection, Reconnect, GoSilent, SendHeartbeat, Authority!FallSilent,
                Authority!Contact, authorityState
  <2>2. Held' = Held
    BY <2>1 DEF Held, ledger
  <2> QED BY <1>0, <1>a, <1>f, <2>1, <2>2, HelpersRest
<1>4. ASSUME NEW h \in Helpers, Revoke(h) PROVE HandoverIInv'
  <2>1. /\ UNCHANGED <<helper, ledger>> /\ printed' = printed /\ tenures' = tenures
        /\ holder' \in {holder, None}
    BY <1>4 DEF Revoke, Authority!Revoke
  <2>2. Held' \subseteq Held
    BY <2>1, NoneAssumption DEF Held, ledger
  <2>3. IsFiniteSet(Held') /\ Cardinality(Held') <= tenures'
    BY <1>f, <2>1, <2>2, HeldShrinks
  <2> QED BY <1>0, <1>a, <2>1, <2>3, HelpersRest
<1>5. ASSUME NEW h \in Helpers, PullDesired(h) PROVE HandoverIInv'
  <2>1. UNCHANGED <<helper, ledger>> /\ printed' = printed /\ Hold(h)
    BY <1>5 DEF PullDesired
  <2>2. Held' \subseteq Held \union {h}
    BY <2>1 DEF Held, Hold, ledger
  <2>3. IsFiniteSet(Held') /\ Cardinality(Held') <= tenures'
    BY <1>0, <1>f, <2>1, <2>2, HoldCounts
  <2> QED BY <1>0, <1>a, <2>1, <2>3, HelpersRest
<1>6. ASSUME NEW h \in Helpers, Acknowledge(h) PROVE HandoverIInv'
  <2>1. /\ queue[h] # <<>> /\ Pop(h) /\ UNCHANGED <<seen, made, ledger, printed, tenures, holder>>
    BY <1>6 DEF Acknowledge, Authority!Contact
  <2>2. /\ QueuesChained'
        /\ \A k \in Helpers : k # h => queue'[k] = queue[k]
        /\ Left(queue[h], seen[h]) = Head(queue[h]).lo
        /\ Left(queue'[h], seen[h]) = Head(queue[h]).hi
        /\ Head(queue[h]) \in Segment /\ Head(queue[h]).lo <= Head(queue[h]).hi
    BY <2>1, PopHead
  <2>3. Held' = Held
    BY <2>1 DEF Held, ledger
  <2>4. ASSUME NEW n \in 1..MaxPrinted PROVE deducted'[n] <= Cardinality(Deductors(n)')
    <3>1. Deductors(n) \subseteq Deductors(n)'
      BY <2>1, <2>2 DEF Deductors, Segment, ledger
    <3> QED BY <1>d, <1>f, <2>1, <2>3, <3>1, DeductorsGrow DEF ledger
  <2> QED BY <1>0, <1>f, <2>1, <2>2, <2>3, <2>4 DEF HandoverIInv
<1>7. ASSUME NEW h \in Helpers, Deduct(h) PROVE HandoverIInv'
  <2> DEFINE b == Head(queue[h])
  <2>1. /\ queue[h] # <<>> /\ Pop(h) /\ Hold(h) /\ UNCHANGED <<seen, made, printed>>
        /\ applied' = [applied EXCEPT ![h] = @ + 1]
        /\ deducted' = [n \in DOMAIN deducted |->
                           IF n \in (b.lo + 1)..b.hi THEN deducted[n] + 1 ELSE deducted[n]]
    BY <1>7 DEF Deduct
  <2>2. /\ QueuesChained'
        /\ \A k \in Helpers : k # h => queue'[k] = queue[k]
        /\ Left(queue[h], seen[h]) = b.lo
        /\ Left(queue'[h], seen[h]) = b.hi
        /\ b \in Segment /\ b.lo <= b.hi
    BY <2>1, PopHead
  <2> HIDE DEF b
  <2>3. b.lo \in Nat /\ b.hi \in Nat
    BY <2>2 DEF Segment
  <2>4. /\ \A k \in Helpers : applied[k] \in Nat
        /\ applied'[h] = applied[h] + 1
        /\ \A k \in Helpers : k # h => applied'[k] = applied[k]
    BY <1>0, <2>1 DEF HandoverTypeOK
  <2>5. Held' \subseteq Held \union {h}
    BY <2>1, <2>4 DEF Held, Hold
  <2>6. IsFiniteSet(Held') /\ Cardinality(Held') <= tenures'
    BY <1>0, <1>f, <2>1, <2>5, HoldCounts
  <2>7. ASSUME NEW n \in 1..MaxPrinted PROVE deducted'[n] <= Cardinality(Deductors(n)')
    <3>1. deducted'[n] = IF n \in (b.lo + 1)..b.hi THEN deducted[n] + 1 ELSE deducted[n]
      BY <1>0, <2>1 DEF HandoverTypeOK
    <3>2. Deductors(n) \subseteq Deductors(n)'
      BY <2>1, <2>2, <2>3, <2>4 DEF Deductors
    <3>3. CASE n \in (b.lo + 1)..b.hi
      <4>1. h \notin Deductors(n) /\ h \in Deductors(n)'
        BY <2>1, <2>2, <2>3, <2>4, <3>3 DEF Deductors
      <4>2. Deductors(n) \subseteq Held
        BY DEF Deductors, Held
      <4>3. Deductors(n)' \subseteq Held'
        BY DEF Deductors, Held
      <4>4. IsFiniteSet(Deductors(n)) /\ IsFiniteSet(Deductors(n)')
        BY <1>f, <2>6, <4>2, <4>3, FS_Subset
      <4> DEFINE S == Deductors(n) \union {h}
      <4>5. Cardinality(S) = Cardinality(Deductors(n)) + 1
        BY <4>1, <4>4, FS_AddElement
      <4>6. S \subseteq Deductors(n)'
        BY <3>2, <4>1
      <4>7. Cardinality(S) <= Cardinality(Deductors(n)')
        BY <4>4, <4>6, FS_Subset
      <4>8. Cardinality(Deductors(n)) \in Nat /\ Cardinality(Deductors(n)') \in Nat
        BY <4>4, FS_CardinalityType
      <4>9. deducted[n] <= Cardinality(Deductors(n)) /\ deducted[n] \in Nat
        BY <1>d DEF HandoverIInv
      <4> HIDE DEF S
      <4> QED BY <3>1, <3>3, <4>5, <4>7, <4>8, <4>9
    <3>4. CASE n \notin (b.lo + 1)..b.hi
      BY <1>d, <2>6, <3>1, <3>2, <3>4, DeductorsGrow
    <3> QED BY <3>3, <3>4
  <2> QED BY <1>0, <2>1, <2>2, <2>6, <2>7 DEF HandoverIInv
<1>8. CASE UNCHANGED handoverVars
  <2>1. /\ UNCHANGED <<helper, ledger>> /\ printed' = printed /\ tenures' = tenures
        /\ holder' = holder
    BY <1>8 DEF handoverVars, authorityState
  <2>2. Held' = Held
    BY <2>1 DEF Held, ledger
  <2> QED BY <1>0, <1>a, <1>f, <2>1, <2>2, HelpersRest
<1> QED BY <1>1, <1>2, <1>3, <1>4, <1>5, <1>6, <1>7, <1>8 DEF HandoverNext

LEMMA HandoverInvariance == HandoverSpec => []HandoverIInv
BY HandoverInvInit, HandoverInvStep, PTL DEF HandoverSpec

-----------------------------------------------------------------------------
(* UsageHandover: theorems. *)

\* Filament is deducted at most once for each time a helper took the authority, however
\* often they lose their connection, are revoked and take over from each other.
THEOREM DeductedOncePerTenure == HandoverSpec => []OncePerTenure
<1>1. HandoverIInv => OncePerTenure
  <2> SUFFICES ASSUME HandoverIInv, NEW n \in 1..MaxPrinted PROVE deducted[n] <= tenures
    BY DEF OncePerTenure, HandoverIInv, HandoverTypeOK
  <2>1. deducted[n] \in Nat /\ tenures \in Nat
    BY DEF HandoverIInv, HandoverTypeOK
  <2>2. Deductors(n) \subseteq Held
    BY DEF Deductors, Held
  <2>3. /\ IsFiniteSet(Deductors(n)) /\ IsFiniteSet(Held)
        /\ Cardinality(Deductors(n)) <= Cardinality(Held)
    BY <2>2, FS_Subset DEF HandoverIInv
  <2>4. Cardinality(Deductors(n)) \in Nat /\ Cardinality(Held) \in Nat
    BY <2>3, FS_CardinalityType
  <2>5. deducted[n] <= Cardinality(Deductors(n)) /\ Cardinality(Held) <= tenures
    BY DEF HandoverIInv
  <2> QED BY <2>1, <2>3, <2>4, <2>5
<1> QED BY <1>1, HandoverInvariance, PTL

\* No segment is recorded for a helper's print job after one that was acknowledged without
\* deduction.
THEOREM JobsHaveNoGap == HandoverSpec => NoGapInJob
<1> DEFINE Step == \A h \in Helpers :
                      applied'[h] > applied[h] => made[h] - Len(queue[h]) = applied[h]
<1>1. HandoverIInv /\ [HandoverNext]_handoverVars => Step
  <2> SUFFICES ASSUME HandoverIInv, [HandoverNext]_handoverVars, NEW h \in Helpers,
                      applied'[h] > applied[h]
               PROVE  made[h] - Len(queue[h]) = applied[h]
    OBVIOUS
  <2>t. /\ \A k \in Helpers : applied[k] \in Nat
        /\ applied \in [Helpers -> Nat] /\ made[h] \in Nat
        /\ queue[h] \in Seq(Segment)
    BY DEF HandoverIInv, HandoverTypeOK
  <2>1. applied' # applied
    BY <2>t
  <2>2. PICK k \in Helpers : Deduct(k)
    BY <2>1 DEF HandoverNext, Extrude, Sample, Capture, LoseConnection, Reconnect, GoSilent, Revoke,
                SendHeartbeat, Acknowledge, PullDesired, handoverVars, ledger
  <2>3. k = h
    BY <2>t, <2>2 DEF Deduct
  <2>4. Head(queue[h]).segment = applied[h] + 1
    BY <2>2, <2>3 DEF Deduct, Expected
  <2>5. Head(queue[h]).segment = made[h] - Len(queue[h]) + 1
    BY <2>2, <2>3, PopHead DEF Deduct
  <2>6. Len(queue[h]) \in Nat
    BY <2>t
  <2> QED BY <2>t, <2>4, <2>5, <2>6
<1> QED BY <1>1, HandoverInvariance, PTL DEF HandoverSpec, NoGapInJob

\* Together with Implements: helpers that deliver and read their snapshots pass the
\* authority among them as the rule says, whatever they have queued.
THEOREM HandoverFollowsRule == HandoverSpec => FollowsRule
<1>1. HandoverInit => Authority!Init
  BY DEF HandoverInit
<1>2. [HandoverNext]_handoverVars => [Authority!Next]_(Authority!vars)
  <2> SUFFICES ASSUME [HandoverNext]_handoverVars
               PROVE  Authority!Next \/ UNCHANGED Authority!vars
    OBVIOUS
  <2>1. ASSUME UNCHANGED authorityState PROVE UNCHANGED Authority!vars
    BY <2>1 DEF authorityState, Authority!vars
  <2>2. CASE Extrude
    BY <2>1, <2>2 DEF Extrude
  <2>3. ASSUME NEW h \in Helpers,
               Sample(h) \/ Capture(h) \/ LoseConnection(h) \/ Reconnect(h)
        PROVE  UNCHANGED Authority!vars
    BY <2>1, <2>3 DEF Sample, Capture, LoseConnection, Reconnect
  <2>4. ASSUME NEW h \in Helpers, GoSilent(h) PROVE Authority!Next
    BY <2>4 DEF GoSilent, Authority!Next
  <2>5. ASSUME NEW h \in Helpers, Revoke(h) PROVE Authority!Next
    BY <2>5 DEF Revoke, Authority!Next
  <2>6. ASSUME NEW h \in Helpers, SendHeartbeat(h) \/ Acknowledge(h) PROVE Authority!Next
    BY <2>6 DEF SendHeartbeat, Acknowledge, Authority!Next
  <2>7. ASSUME NEW h \in Helpers, Deduct(h) PROVE Authority!Next
    <3>1. /\ h \notin revoked /\ holder' = h /\ silent' = silent \ {h} /\ revoked' = revoked
          /\ holder = h \/ Authority!Vacant
      BY <2>7 DEF Deduct, GetsThrough, Reaches, Applies, Hold
    <3>2. CASE holder = h
      BY <3>1, <3>2 DEF Authority!Next, Authority!Contact
    <3>3. CASE holder # h
      BY <3>1, <3>3 DEF Authority!Next, Authority!Take
    <3> QED BY <3>2, <3>3
  <2>8. ASSUME NEW h \in Helpers, PullDesired(h) PROVE Authority!Next
    BY <2>8 DEF PullDesired, GetsThrough, Reaches, Applies, Hold, Authority!Next, Authority!Take
  <2>9. CASE UNCHANGED handoverVars
    BY <2>1, <2>9 DEF handoverVars
  <2> QED BY <2>2, <2>3, <2>4, <2>5, <2>6, <2>7, <2>8, <2>9 DEF HandoverNext
<1> QED BY <1>1, <1>2, PTL DEF HandoverSpec, FollowsRule, Authority!Spec
=============================================================================
