------------------------------ MODULE AmsJournal ------------------------------
(***************************************************************************)
(* The ESP32 firmware's AMS history: a ring of records in a flash           *)
(* partition, opened at boot, written by a polling task and read page by    *)
(* page over USB (edge-agent/firmware/src/ams_journal.c,                    *)
(* ams_journal_flash.c).                                                    *)
(*                                                                         *)
(* One mutex covers each call of the journal, so a call is one step, except *)
(* that the power may fail inside a commit and that a page is read with one *)
(* call for each line.  The clock is left out: a poll that comes too early  *)
(* does nothing.  The encoding and the CRC are abstracted to what read_slot *)
(* tells of a slot.                                                         *)
(***************************************************************************)
EXTENDS Naturals, Sequences, FiniteSetsExt, SequencesExt

CONSTANTS
    Identities,   \* the configured connections
    Feeds,        \* the AMS states that differ for same_feed
    None,         \* no feed, no page
    SlotCount,    \* FH_JOURNAL_SLOTS
    MaxLimit,     \* lines of a page (4 in the code)
    MaxSequence,  \* bound: records written
    MaxQueued,    \* bound: states queued for one connection between two boots
    MaxBoots      \* bound: boots

ASSUME BoundsAssumption ==
    /\ SlotCount \in Nat \ {0, 1} /\ MaxLimit \in Nat \ {0} /\ MaxSequence \in Nat
    /\ MaxQueued \in Nat /\ MaxBoots \in Nat \ {0} /\ None \notin Feeds

VARIABLES
    flash,      \* the slots of the partition
    status,     \* "off", "ready" or "faulted"
    oldest,     \* oldest_sequence, 0 if there is no record
    newest,     \* newest_sequence
    committed,  \* committed_feed of each connection, or None
    pending,    \* pending_feed of each connection, or None
    dropped,    \* pending states replaced since the connection's last record
    waiting,    \* the connections with a pending state, in the order of pending_since
    page,       \* the page being read, or None
    log,        \* history: every record whose commit marker was written
    queued,     \* history: states queued for each connection since the boot
    boot        \* history: how often the device has booted

ram == <<status, oldest, newest, committed, pending, dropped, waiting>>
vars == <<flash, ram, page, log, queued, boot>>

Sequences == 1..MaxSequence
SlotNumbers == 0..(SlotCount - 1)

Record ==
    [sequence : Sequences, identity : Identities, feed : Feeds, coalesced : 0..MaxQueued,
     boot : 1..MaxBoots]

\* "torn": the footer is erased and the beginning plausible.  "ambiguous": a partially
\* programmed footer, or an erase that was cut short; read_slot refuses it.
Slot == [kind : {"empty", "torn", "ambiguous"}] \union [kind : {"committed"}, record : Record]

Page ==
    [after : 0..MaxSequence, cursor : 0..MaxSequence, newest : 0..MaxSequence,
     gap : 0..MaxSequence, shown : SUBSET Sequences, limit : 1..MaxLimit]

Nothing == [i \in Identities |-> None]
Zero == [i \in Identities |-> 0]

Init ==
    /\ flash = [s \in SlotNumbers |-> [kind |-> "empty"]]
    /\ status = "off" /\ oldest = 0 /\ newest = 0
    /\ committed = Nothing /\ pending = Nothing /\ dropped = Zero /\ waiting = <<>>
    /\ page = None /\ log = <<>> /\ queued = Zero /\ boot = 0

-----------------------------------------------------------------------------
(* Boot. *)

slot_of(sequence) == (sequence - 1) % SlotCount

Found == {flash[s].record : s \in {t \in SlotNumbers : flash[t].kind = "committed"}}

\* Every slot can be read, and the records are one run, each in its own slot.
Readable ==
    /\ \A s \in SlotNumbers : flash[s].kind # "ambiguous"
    /\ \A s \in SlotNumbers :
          flash[s].kind = "committed" => slot_of(flash[s].record.sequence) = s
    /\ Found # {} =>
          LET sequences == {r.sequence : r \in Found}
          IN  /\ Max(sequences) - Min(sequences) < SlotCount
              /\ sequences = Min(sequences)..Max(sequences)

\* The feed of a connection's last record in the ring.
LastFeed(i) ==
    LET own == {r \in Found : r.identity = i}
    IN  IF own = {} THEN None
        ELSE (CHOOSE r \in own : \A q \in own : q.sequence <= r.sequence).feed

\* fh_journal_open, the first thing after a reset.  A read of the flash may fail.
Boot ==
    /\ status = "off" /\ boot < MaxBoots
    /\ boot' = boot + 1
    /\ \/ /\ Readable
          /\ status' = "ready"
          /\ oldest' = (IF Found = {} THEN 0 ELSE Min({r.sequence : r \in Found}))
          /\ newest' = Max({r.sequence : r \in Found} \union {0})
          /\ committed' = [i \in Identities |-> LastFeed(i)]
       \/ /\ status' = "faulted"
          /\ oldest' = 0 /\ newest' = 0 /\ committed' = Nothing
    /\ pending' = Nothing /\ dropped' = Zero /\ waiting' = <<>> /\ queued' = Zero
    /\ UNCHANGED <<flash, page, log>>

\* Reset or loss of power between two calls.
PowerLoss ==
    /\ status # "off"
    /\ status' = "off" /\ page' = None
    /\ UNCHANGED <<flash, oldest, newest, committed, pending, dropped, waiting, log, queued,
                   boot>>

-----------------------------------------------------------------------------
(* fh_journal_observe *)

\* Another state than the pending and the committed one: it takes the pending one's
\* place, and its turn.
Queue(i, feed) ==
    /\ feed \notin {pending[i], committed[i]} /\ queued[i] < MaxQueued
    /\ pending' = [pending EXCEPT ![i] = feed]
    /\ IF pending[i] = None
       THEN waiting' = Append(waiting, i) /\ UNCHANGED dropped
       ELSE dropped' = [dropped EXCEPT ![i] = @ + 1] /\ UNCHANGED waiting
    /\ queued' = [queued EXCEPT ![i] = @ + 1]

\* Slip: the state given up is not counted.
WithdrawUncounted(i, feed) ==
    /\ feed = committed[i] /\ pending[i] \notin {None, feed}
    /\ pending' = [pending EXCEPT ![i] = None]
    /\ waiting' = RemoveFirst(waiting, i)
    /\ UNCHANGED <<dropped, queued>>

\* Slip: the connection keeps its turn without a pending state.
WithdrawKeepsTurn(i, feed) ==
    /\ feed = committed[i] /\ pending[i] \notin {None, feed}
    /\ pending' = [pending EXCEPT ![i] = None]
    /\ dropped' = [dropped EXCEPT ![i] = @ + 1]
    /\ UNCHANGED <<waiting, queued>>

\* The connection is back in the committed state.
Withdraw(i, feed) ==
    /\ feed = committed[i] /\ pending[i] \notin {None, feed}
    /\ pending' = [pending EXCEPT ![i] = None]
    /\ waiting' = RemoveFirst(waiting, i)
    /\ dropped' = [dropped EXCEPT ![i] = @ + 1]
    /\ UNCHANGED queued

Observe(i, feed) ==
    /\ status = "ready"
    /\ Queue(i, feed) \/ Withdraw(i, feed)
    /\ UNCHANGED <<flash, status, oldest, newest, committed, page, log, boot>>

-----------------------------------------------------------------------------
(* fh_journal_poll: the connection waiting longest. *)

Due == status = "ready" /\ waiting # <<>> /\ newest < MaxSequence

NextRecord ==
    [sequence |-> newest + 1, identity |-> Head(waiting), feed |-> pending[Head(waiting)],
     coalesced |-> dropped[Head(waiting)], boot |-> boot]

\* Slip: one record too many is counted on.
OldestAfterLate(sequence) ==
    CASE oldest = 0 -> sequence
      [] oldest # 0 /\ sequence - oldest > SlotCount -> sequence - SlotCount + 1
      [] OTHER -> oldest

OldestAfter(sequence) ==
    CASE oldest = 0 -> sequence
      [] oldest # 0 /\ sequence - oldest >= SlotCount -> sequence - SlotCount + 1
      [] OTHER -> oldest

Written(contents) == [flash EXCEPT ![slot_of(newest + 1)] = contents]

CommittedSlot == [kind |-> "committed", record |-> NextRecord]

\* Erase, header and body, commit marker.
Commit ==
    /\ Due
    /\ flash' = Written(CommittedSlot)
    /\ log' = Append(log, NextRecord)
    /\ newest' = newest + 1 /\ oldest' = OldestAfter(newest + 1)
    /\ committed' = [committed EXCEPT ![Head(waiting)] = NextRecord.feed]
    /\ pending' = [pending EXCEPT ![Head(waiting)] = None]
    /\ dropped' = [dropped EXCEPT ![Head(waiting)] = 0]
    /\ waiting' = Tail(waiting)
    /\ UNCHANGED <<status, page, queued, boot>>

\* What is in the slot when the commit ends early: nothing done yet, an erase cut short,
\* an erased slot, part of the record, part of the marker, all of it.
CutShort ==
    {flash[slot_of(newest + 1)], CommittedSlot} \union
        [kind : {"empty", "torn", "ambiguous"}]

\* A flash operation reports failure, or the power fails in the middle.
CommitBreaks ==
    /\ Due
    /\ \E contents \in CutShort :
          /\ flash' = Written(contents)
          /\ log' = IF contents = CommittedSlot THEN Append(log, NextRecord) ELSE log
    /\ \/ status' = "faulted" /\ UNCHANGED page
       \/ status' = "off" /\ page' = None
    /\ UNCHANGED <<oldest, newest, committed, pending, dropped, waiting, queued, boot>>

-----------------------------------------------------------------------------
(* fh_journal_flash_read: a page, line by line. *)

\* Slip: the gap reaches one record too far.
GapEndInclusive(after) == IF oldest # 0 /\ after < oldest THEN oldest ELSE 0

\* The last sequence of the gap announced first, 0 if there is none.
GapEnd(after) == IF oldest # 0 /\ after < oldest - 1 THEN oldest - 1 ELSE 0

OpenPage(after, limit) ==
    /\ status = "ready" /\ page = None
    /\ page' = [after |-> after, cursor |-> after, newest |-> newest, gap |-> GapEnd(after),
                shown |-> {}, limit |-> limit]
    /\ UNCHANGED <<flash, ram, log, queued, boot>>

MoreLines == Cardinality(page.shown) < page.limit /\ page.cursor < page.newest

\* fh_journal_next; a read of the flash may fail.
ShowLine ==
    /\ page # None /\ MoreLines /\ status = "ready"
    /\ LET sequence == IF page.cursor < oldest THEN oldest ELSE page.cursor + 1
           slot == flash[slot_of(sequence)]
       IN  \/ /\ slot.kind = "committed" /\ slot.record.sequence = sequence
              /\ page' = [page EXCEPT !.cursor = sequence, !.shown = @ \union {sequence}]
              /\ UNCHANGED status
           \/ status' = "faulted" /\ UNCHANGED page
    /\ UNCHANGED <<flash, oldest, newest, committed, pending, dropped, waiting, log, queued, boot>>

ClosePage ==
    /\ page # None /\ (~MoreLines \/ status = "faulted")
    /\ page' = None
    /\ UNCHANGED <<flash, ram, log, queued, boot>>

-----------------------------------------------------------------------------
Next ==
    \/ Boot \/ PowerLoss \/ Commit \/ CommitBreaks
    \/ \E i \in Identities, feed \in Feeds : Observe(i, feed)
    \/ \E after \in 0..MaxSequence, limit \in 1..MaxLimit : OpenPage(after, limit)
    \/ ShowLine \/ ClosePage

Spec == Init /\ [][Next]_vars

-----------------------------------------------------------------------------
(* Properties. *)

TypeOK ==
    /\ flash \in [SlotNumbers -> Slot]
    /\ status \in {"off", "ready", "faulted"}
    /\ oldest \in 0..MaxSequence /\ newest \in 0..MaxSequence
    /\ committed \in [Identities -> Feeds \union {None}]
    /\ pending \in [Identities -> Feeds \union {None}]
    /\ dropped \in [Identities -> 0..MaxQueued] /\ queued \in [Identities -> 0..MaxQueued]
    /\ IsInjective(waiting) /\ ToSet(waiting) = {i \in Identities : pending[i] # None}
    /\ page \in Page \union {None}
    /\ boot \in 0..MaxBoots

Ambiguous == \E s \in SlotNumbers : flash[s].kind = "ambiguous"

\* Whatever the moment the power failed, the ring holds the latest records as they were
\* written, all of them in one run and no fewer than all slots but the one being written;
\* unless a slot is ambiguous the journal opens, and it then knows exactly these records.
HistoryKept ==
    /\ \A r \in Found : r = log[r.sequence]
    /\ ~Ambiguous =>
         LET kept == {r.sequence : r \in Found}
         IN  /\ Readable
             /\ kept \subseteq 1..Len(log)
             /\ \A s \in 1..Len(log) : s + SlotCount > Len(log) + 1 => s \in kept
             /\ status = "ready" => kept = (IF newest = 0 THEN {} ELSE oldest..newest)

\* Every state queued for a connection since the boot has become a record, is counted in
\* the coalesced_before of one, or is counted or pending still: what the journal leaves
\* out, it says.
AllStatesCounted ==
    status = "ready" =>
        \A i \in Identities :
            LET own == {s \in DOMAIN log : log[s].identity = i /\ log[s].boot = boot}
            IN  queued[i] = SumFunction([s \in own |-> 1 + log[s].coalesced])
                            + dropped[i] + (IF pending[i] = None THEN 0 ELSE 1)

\* A page skips no record that is still in the ring and announces as a gap only what has
\* been overwritten, although records are written while it is read.
PageExact ==
    page # None /\ status = "ready" =>
        /\ page.gap < oldest \/ page.gap = 0
        /\ \A s \in (page.after + 1)..page.cursor :
              s \in page.shown \/ s <= page.gap \/ s < oldest
=============================================================================
