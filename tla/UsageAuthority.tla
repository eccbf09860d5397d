---------------------------- MODULE UsageAuthority ----------------------------
(***************************************************************************)
(* hold_usage_authority, statement by statement, and the other writers of   *)
(* the connector rows.                                                     *)
(*                                                                         *)
(* Usage batches and reads of the desired snapshot of different connectors *)
(* run at the same time, each in a transaction of its own (PostgreSQL,     *)
(* READ COMMITTED).  A transaction locks its connector's row, then asks    *)
(* for the holder's row and locks that, then writes, and the partial       *)
(* unique index uq_connector_usage_authority has the last word.  One       *)
(* connector has one such transaction at a time: a second one waits for    *)
(* the row lock, as Begin does.                                            *)
(*                                                                         *)
(* The ingest of an observation locks the rows of all connectors one after *)
(* the other in the order of their ids (ingest_printer_bridge_snapshot).   *)
(* An advisory lock of the account lets one of them run at a time.  It can *)
(* wait for a usage transaction that waits for it; PostgreSQL then rolls   *)
(* one of the two back.                                                    *)
(***************************************************************************)
EXTENDS Naturals, FiniteSets, UsageHelpers

CONSTANT Ingest  \* the transaction that ingests an observation

\* Connectors are known by their ids.
ASSUME IdsAssumption == Helpers \subseteq Nat

ASSUME IngestAssumption == Ingest \notin Helpers \union {None}

VARIABLES
    authority,  \* committed: the connectors with usage_authority
    owner,      \* for each row, the transaction that has locked it
    pc,         \* for each usage transaction, the statement it is at
    asked,      \* for each usage transaction, the holder its query has found
    observer    \* the connector whose observation is being ingested

usage == <<pc, asked>>
vars == <<authority, silent, revoked, owner, usage, observer>>

Init ==
    /\ authority = {} /\ silent = Helpers /\ revoked = {}
    /\ owner = [k \in Helpers |-> None]
    /\ pc = [h \in Helpers |-> "idle"]
    /\ asked = [h \in Helpers |-> None]
    /\ observer = None

Free(k) == owner[k] = None

\* The end of a transaction releases its row locks.
Release(t) == owner' = [k \in Helpers |-> IF owner[k] = t THEN None ELSE owner[k]]

End(h) ==
    /\ Release(h)
    /\ pc' = [pc EXCEPT ![h] = "idle"]
    /\ asked' = [asked EXCEPT ![h] = None]

-----------------------------------------------------------------------------
(* The transaction of a usage batch or of a read of the desired snapshot.   *)

\* Slip: the own row is read again, but not locked.
Begin_NoLock(h) ==
    /\ pc[h] = "idle" /\ h \notin revoked
    /\ pc' = [pc EXCEPT ![h] = IF h \in authority THEN "applies" ELSE "asks"]
    /\ UNCHANGED <<authority, silent, revoked, owner, asked, observer>>

\* The own row is locked and read again; the authority may be there already.
Begin(h) ==
    /\ pc[h] = "idle" /\ Free(h) /\ h \notin revoked
    /\ owner' = [owner EXCEPT ![h] = h]
    /\ pc' = [pc EXCEPT ![h] = IF h \in authority THEN "applies" ELSE "asks"]
    /\ UNCHANGED <<authority, silent, revoked, asked, observer>>

\* Slip: the query finds any other connector of the system, not its holder.
Query_AnyConnector(h) ==
    /\ pc[h] = "asks"
    /\ \E k \in Helpers \ {h} : asked' = [asked EXCEPT ![h] = k]
    /\ pc' = [pc EXCEPT ![h] = "waits"]
    /\ UNCHANGED <<authority, silent, revoked, owner, observer>>

\* SELECT ... FOR UPDATE: the snapshot in which the holder is looked for.
Query(h) ==
    /\ pc[h] = "asks"
    /\ IF authority = {}
          THEN /\ pc' = [pc EXCEPT ![h] = "claims"]
               /\ UNCHANGED asked
          ELSE /\ \E k \in authority : asked' = [asked EXCEPT ![h] = k]
               /\ pc' = [pc EXCEPT ![h] = "waits"]
    /\ UNCHANGED <<authority, silent, revoked, owner, observer>>

\* Slip: the holder is read, but its row is not locked.
LockHolder_NoLock(h) ==
    LET k == asked[h] IN
    /\ pc[h] = "waits"
    /\ pc' = [pc EXCEPT ![h] = IF k \in authority \ (silent \union revoked)
                                  THEN "passes" ELSE "claims"]
    /\ asked' = [asked EXCEPT ![h] = IF k \in authority THEN k ELSE None]
    /\ UNCHANGED <<authority, silent, revoked, owner, observer>>

\* The lock is granted and the row is evaluated again: it may have lost the authority.
LockHolder(h) ==
    LET k == asked[h] IN
    /\ pc[h] = "waits" /\ Free(k)
    /\ IF k \in authority
          THEN /\ owner' = [owner EXCEPT ![k] = h]
               /\ pc' = [pc EXCEPT ![h] = IF k \in silent \union revoked
                                             THEN "claims" ELSE "passes"]
               /\ UNCHANGED asked
          ELSE /\ pc' = [pc EXCEPT ![h] = "claims"]
               /\ asked' = [asked EXCEPT ![h] = None]
               /\ UNCHANGED owner
    /\ UNCHANGED <<authority, silent, revoked, observer>>

\* Holders the unique index still sees when h has written FALSE to its predecessor.
Others(h) == authority \ {asked[h]}

\* Slip: there is no unique index.
Claim_NoIndex(h) ==
    /\ pc[h] = "claims"
    /\ pc' = [pc EXCEPT ![h] = "claimed"]
    /\ UNCHANGED <<authority, silent, revoked, owner, asked, observer>>

\* The writes are flushed.  The index makes h wait for an uncommitted claim, and
\* fails h when another one is committed.
Claim(h) ==
    /\ pc[h] = "claims"
    /\ \A k \in Helpers : pc[k] # "claimed"
    /\ IF Others(h) = {}
          THEN pc' = [pc EXCEPT ![h] = "claimed"] /\ UNCHANGED <<owner, asked>>
          ELSE End(h)
    /\ UNCHANGED <<authority, silent, revoked, observer>>

\* Commit; a usage batch also writes last_seen_at, a snapshot does not.
Commit(h) ==
    /\ pc[h] \in {"applies", "claimed", "passes"}
    /\ authority' = IF pc[h] = "claimed" THEN Others(h) \union {h} ELSE authority
    /\ silent' \in {silent, silent \ {h}}
    /\ End(h)
    /\ UNCHANGED <<revoked, observer>>

\* A refused batch, a lost connection or the victim of a deadlock: the transaction is
\* rolled back.
Rollback(h) ==
    /\ pc[h] # "idle"
    /\ End(h)
    /\ UNCHANGED <<authority, silent, revoked, observer>>

-----------------------------------------------------------------------------
(* The ingest of an observation.                                            *)

\* The token is checked and the account's advisory lock is taken; no row is locked yet.
BeginIngest(h) ==
    /\ observer = None /\ h \notin revoked
    /\ observer' = h
    /\ UNCHANGED <<authority, silent, revoked, owner, usage>>

\* SELECT ... ORDER BY id FOR UPDATE: the next row is locked.
LockNext(k) ==
    /\ observer # None /\ Free(k)
    /\ \A j \in Helpers : j < k => owner[j] = Ingest
    /\ owner' = [owner EXCEPT ![k] = Ingest]
    /\ UNCHANGED <<authority, silent, revoked, usage, observer>>

EndIngest ==
    /\ Release(Ingest)
    /\ observer' = None
    /\ UNCHANGED <<authority, usage>>

\* The observation must be that of the connector with the lowest id, whoever sent it.  It
\* also makes that connector active again, if it was revoked while its row was waited for.
CommitIngest ==
    /\ observer # None
    /\ \A k \in Helpers : owner[k] = Ingest /\ observer <= k
    /\ silent' = silent \ {observer} /\ revoked' = revoked \ {observer}
    /\ EndIngest

\* 401 for any other connector, another refusal, a lost connection or the victim of a
\* deadlock.
RollbackIngest ==
    /\ observer # None
    /\ EndIngest
    /\ UNCHANGED <<silent, revoked>>

-----------------------------------------------------------------------------
(* Other transactions: each writes one row, and waits for its lock.         *)

Heartbeat(h) ==
    /\ Free(h) /\ h \in silent \ revoked
    /\ silent' = silent \ {h}
    /\ UNCHANGED <<authority, revoked, owner, usage, observer>>

\* Six minutes pass.
FallSilent(h) ==
    /\ h \notin silent
    /\ silent' = silent \union {h}
    /\ UNCHANGED <<authority, revoked, owner, usage, observer>>

\* revoke_connector_for_user.
RevokeByOwner(h) ==
    /\ Free(h) /\ h \notin revoked
    /\ revoked' = revoked \union {h}
    /\ authority' = authority \ {h}
    /\ UNCHANGED <<silent, owner, usage, observer>>

\* revoke_printer_bridge: the authority is left where it is.
RevokeByDevice(h) ==
    /\ Free(h) /\ h \notin revoked
    /\ revoked' = revoked \union {h}
    /\ UNCHANGED <<authority, silent, owner, usage, observer>>

PairAgain(h) ==
    /\ Free(h) /\ h \in revoked
    /\ revoked' = revoked \ {h}
    /\ UNCHANGED <<authority, silent, owner, usage, observer>>

-----------------------------------------------------------------------------
Next ==
    \/ \E h \in Helpers :
          \/ Begin(h) \/ Query(h) \/ LockHolder(h) \/ Claim(h) \/ Commit(h) \/ Rollback(h)
          \/ BeginIngest(h) \/ LockNext(h)
          \/ Heartbeat(h) \/ FallSilent(h)
          \/ RevokeByOwner(h) \/ RevokeByDevice(h) \/ PairAgain(h)
    \/ CommitIngest \/ RollbackIngest

Spec == Init /\ [][Next]_vars

-----------------------------------------------------------------------------
(* Properties. *)

Running(h) == pc[h] # "idle"

\* The values of the variables; rows are only locked by transactions that run, and
\* a usage transaction that runs has locked its own row (record_printer_bridge_usage_batch,
\* build_printer_bridge_desired_snapshot).
TypeOK ==
    /\ authority \subseteq Helpers /\ silent \subseteq Helpers /\ revoked \subseteq Helpers
    /\ owner \in [Helpers -> Helpers \union {None, Ingest}]
    /\ pc \in [Helpers -> {"idle", "asks", "waits", "claims", "claimed", "applies", "passes"}]
    /\ asked \in [Helpers -> Helpers \union {None}]
    /\ observer \in Helpers \union {None}
    /\ \A h \in Helpers : Running(h) => owner[h] = h
    /\ \A k \in Helpers : owner[k] \in Helpers => Running(owner[k])
    /\ \A k \in Helpers : owner[k] = Ingest => observer # None

\* Of two transactions that run at the same time, never do both apply their reports
\* (the docstring of hold_usage_authority).
OneApplies ==
    \A h, k \in Helpers :
        (pc[h] \in {"applies", "claimed"} /\ pc[k] \in {"applies", "claimed"}) => h = k

\* However the transactions interleave, a system has one holder at most.
OneHolder == Cardinality(authority) <= 1

\* Every transaction of S waits for a row that another one of S has locked.
Deadlocked(S) == S # {} /\ \A h \in S : pc[h] = "waits" /\ owner[asked[h]] \in S

\* Each locks its own row before the holder's, in no order of ids, and still batches and
\* reads of the desired snapshot never deadlock with each other: the row a transaction
\* waits for is one whose own transaction asks for no other.  (An ingest they can deadlock
\* with.)
NoUsageDeadlock == \A S \in SUBSET Helpers : ~Deadlocked(S)

\* The refinement mapping: the one connector that has the authority.
Holder == IF authority = {} THEN None ELSE CHOOSE h \in authority : TRUE

\* The transactions implement the rule: the authority only ever passes from a holder
\* that is revoked or silent when it passes.
Rule == INSTANCE UsageAuthorityRule WITH holder <- Holder
ImplementsRule == Rule!Spec
=============================================================================
