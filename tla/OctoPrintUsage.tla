---------------------------- MODULE OctoPrintUsage ----------------------------
(***************************************************************************)
(* The OctoPrint plugin's usage reports from the extruded filament to the   *)
(* spool: the tracker, the outbox kept in OctoPrint's settings, the worker  *)
(* that sends it, and the cloud's treatment of a report                     *)
(* (octoprint_filamenthub_bridge/__init__.py, octoprint_bridge_service.py,  *)
(* printer_usage_service.py, print_job_service.py).                         *)
(*                                                                         *)
(* OctoPrint's own threads (events, sent G-code) and the worker share the   *)
(* plugin's state under _lock, which is not held during a request: a step   *)
(* here is what one thread does under the lock.  _connection_lock keeps the *)
(* worker's requests, pairing and unpairing apart from each other.          *)
(*                                                                         *)
(* A route carries its proof, so that the cloud accepts it whatever has     *)
(* been assigned since, unless the connector has lost its material system   *)
(* or its grant to report consumption, or a spool has been deleted; amounts *)
(* are units of length; the retry schedule is left out.  A cloud that       *)
(* serves a request after the plugin has given it up does what Serve        *)
(* followed by Lose does here: the report is sealed.                        *)
(***************************************************************************)
EXTENDS PrintJobRule, Naturals, FiniteSetsExt, Functions, SequencesExt

CONSTANTS
    Slots, Spools, NoSpool,
    Bindings,     \* the printer connections this OctoPrint may be paired with
    Home,         \* the one it is paired with at first
    None,         \* no binding, no snapshot, no request under way
    Outcomes,     \* the terminal outcomes a print may have
    MaxJobs,      \* bound: prints
    MaxFed,       \* bound: units of filament extruded in all
    MaxSequence,  \* bound: reports of one print
    MaxChanges    \* bound: changes of routes, connection, connector and spools, and ends of
                  \* the worker

ASSUME BoundsAssumption ==
    /\ IsFiniteSet(Slots) /\ IsFiniteSet(Spools) /\ NoSpool \notin Spools
    /\ Outcomes \subseteq Terminal /\ None \notin Bindings /\ Home \in Bindings
    /\ MaxJobs \in Nat \ {0} /\ MaxFed \in Nat /\ MaxSequence \in Nat \ {0}
    /\ MaxChanges \in Nat

VARIABLES
    \* The plugin's memory.
    print,     \* the print being tracked: number, binding, routes, last sequence
    tracker,   \* filament extruded through each slot since the last report
    working,   \* the worker's thread is alive
    flight,    \* the request under way: the report, and the cloud's answer once there
    \* OctoPrint's settings.
    outbox,    \* the reports not yet acknowledged
    binding,   \* the connection paired with
    snapshot,  \* the spool in each slot as last pulled
    \* The cloud.
    token,     \* the token the plugin holds is valid
    connector, \* its connector is "ready", or lacks the material system or the grant to
               \* report consumption
    deleted,   \* the spools the owner has deleted
    jobs,      \* the print job of each print
    receipts,  \* the reports recorded
    charged,   \* what each spool has been charged
    \* History variables and bounds.
    started,   \* how many prints have begun
    fed,       \* what each spool has fed while the plugin followed the print
    lost,      \* the part of it an ending process had only in memory
    closed,    \* prints whose job the owner has closed
    changes    \* how many of the changes MaxChanges bounds there have been

memory == <<print, tracker, working>>
settings == <<outbox, binding, snapshot>>
cloud == <<token, connector, deleted, jobs, receipts, charged>>
history == <<started, fed, lost, closed, changes>>
vars == <<memory, flight, settings, cloud, history>>

Jobs == 1..MaxJobs

\* A spool is assigned to one slot at a time.
Routes == {r \in [Slots -> Spools \union {NoSpool}] :
              \A a, b \in Slots : a # b /\ r[a] = r[b] => r[a] = NoSpool}

Amounts == [Spools -> 0..MaxFed]

Report ==
    [job : Jobs, sequence : 1..MaxSequence, status : {"printing", "paused"} \union Outcomes,
     amounts : Amounts, binding : Bindings \union {None}, sealed : BOOLEAN, blocked : BOOLEAN]

Connector == {"ready", "no_system", "no_consumption"}

PrintState ==
    [job : Jobs, binding : Bindings \union {None}, routes : Routes, sequence : 0..MaxSequence]

\* No print, no answer and no payload are told from the ones there are.
ASSUME NoneAssumption ==
    /\ None \notin PrintState /\ None \notin {"accepted", "refused"}
    /\ NoPayload \notin [sequence : 1..MaxSequence, amounts : Amounts]

NoFilament == [s \in Spools |-> 0]
Unused == [s \in Slots |-> 0]
Unassigned == [s \in Slots |-> NoSpool]

Plus(a, b) == Pointwise(a, b, +)

Init ==
    /\ print = None /\ tracker = Unused /\ working = TRUE /\ flight = None
    /\ outbox = <<>>
    /\ binding = Home /\ snapshot \in Routes
    /\ token = TRUE /\ connector = "ready" /\ deleted = {}
    /\ jobs = [j \in Jobs |-> NoJob] /\ receipts = {} /\ charged = NoFilament
    /\ started = 0 /\ fed = NoFilament /\ lost = NoFilament /\ closed = {} /\ changes = 0

-----------------------------------------------------------------------------
(* OctoPrint's threads. *)

Printing == print # None

\* _begin_print, from PrintStarted or from the first G-code sent.
BeginPrint ==
    /\ ~Printing /\ started < MaxJobs
    /\ started' = started + 1
    /\ print' = [job |-> started + 1, binding |-> binding, sequence |-> 0,
                 routes |-> IF snapshot = None THEN Unassigned ELSE snapshot]
    /\ tracker' = Unused
    /\ UNCHANGED <<working, flight, settings, cloud, fed, lost, closed, changes>>

\* ExtrusionTracker.process: slots the snapshot does not have are not counted.
Extrude(slot) ==
    /\ Printing /\ snapshot # None
    /\ SumFunction(fed) < MaxFed /\ tracker[slot] < MaxFed
    /\ tracker' = [tracker EXCEPT ![slot] = @ + 1]
    /\ fed' = IF print.routes[slot] = NoSpool THEN fed
              ELSE [fed EXCEPT ![print.routes[slot]] = @ + 1]
    /\ UNCHANGED <<print, working, flight, settings, cloud, started, lost, closed, changes>>

\* What the tracker holds, by the spool it is routed to; the rest is unattributed.
Attributed ==
    IF Printing
    THEN [s \in Spools |->
             SumFunctionOnSet(tracker, {slot \in Slots : print.routes[slot] = s})]
    ELSE NoFilament

\* Slip: the terminal report takes the number of the last checkpoint.
NewReportSameNumber(status) ==
    [job |-> print.job, sequence |-> print.sequence, status |-> status,
     amounts |-> Attributed, binding |-> print.binding, sealed |-> FALSE, blocked |-> FALSE]

NewReport(status) ==
    [job |-> print.job, sequence |-> print.sequence + 1, status |-> status,
     amounts |-> Attributed, binding |-> print.binding, sealed |-> FALSE, blocked |-> FALSE]

\* Slip: also when it has been sent.
MergeableSealed(report) ==
    /\ report.job = print.job /\ report.status \notin Terminal
    /\ report.binding = print.binding
    /\ \A s \in Spools : report.amounts[s] > 0 => s \in Range(print.routes)

\* A checkpoint may still be added to.  (The code compares spool and proof of each slot: as
\* changed routes seal the print's reports, an unsealed one has each spool from its slot.)
Mergeable(report) ==
    /\ report.job = print.job /\ report.status \notin Terminal
    /\ ~report.sealed /\ report.binding = print.binding
    /\ \A s \in Spools : report.amounts[s] > 0 => s \in Range(print.routes)

Pending == SelectLastInSeq(outbox, Mergeable)

\* _queue_usage_locked, event_type checkpoint: the outbox it leaves, and the sequence.
Checkpointed(paused) ==
    CASE Pending # 0 ->
           [outbox |-> [outbox EXCEPT
                           ![Pending].amounts = Plus(@, Attributed),
                           ![Pending].status = IF paused THEN "paused" ELSE @],
            sequence |-> print.sequence]
      [] Pending = 0 /\ Attributed = NoFilament ->
           [outbox |-> outbox, sequence |-> print.sequence]
      [] OTHER ->
           [outbox |-> Append(outbox, NewReport(IF paused THEN "paused" ELSE "printing")),
            sequence |-> print.sequence + 1]

Room == print.sequence + 1 < MaxSequence

\* _checkpoint_usage; also the tool or slot change, and the periodic checkpoint.
Checkpoint(paused) ==
    /\ Printing /\ Room
    /\ outbox' = Checkpointed(paused).outbox
    /\ print' = [print EXCEPT !.sequence = Checkpointed(paused).sequence]
    /\ tracker' = Unused
    /\ UNCHANGED <<working, flight, binding, snapshot, cloud, history>>

\* _finish_print
FinishPrint(outcome) ==
    /\ Printing
    /\ outbox' = Append(outbox, NewReport(outcome))
    /\ print' = None /\ tracker' = Unused
    /\ UNCHANGED <<working, flight, binding, snapshot, cloud, history>>

\* OctoPrint ends, or restarts, without a word: what is not in the settings is gone.
\* (An orderly on_shutdown is Checkpoint before it.)  The worker is started again.
Crash ==
    /\ Printing \/ flight # None \/ ~working
    /\ lost' = Plus(lost, Attributed)
    /\ print' = None /\ tracker' = Unused /\ working' = TRUE /\ flight' = None
    /\ UNCHANGED <<settings, cloud, started, fed, closed, changes>>

-----------------------------------------------------------------------------
(* The connection. *)

Change ==
    /\ changes < MaxChanges
    /\ changes' = changes + 1

Changed(new) == {slot \in Slots : print.routes[slot] # new[slot]}

\* Slip: only what stays assigned is reported.
DrainsAssigned(new) ==
    \E slot \in Changed(new) : tracker[slot] > 0 /\ new[slot] # NoSpool

\* What was extruded on a changed slot has to be reported under the old routes.
Drains(new) == \E slot \in Changed(new) : tracker[slot] > 0

\* _apply_snapshot: a change also closes the print's earlier reports to additions.
PullSnapshot(new) ==
    LET queued == IF Drains(new) THEN Checkpointed(FALSE)
                  ELSE [outbox |-> outbox, sequence |-> print.sequence]
    IN  /\ binding # None /\ token /\ connector # "no_system" /\ flight = None
        /\ new # snapshot /\ Range(new) \intersect deleted = {}
        /\ Change
        /\ IF Printing /\ Changed(new) # {}
           THEN /\ Room
                /\ outbox' = [i \in DOMAIN queued.outbox |->
                                 IF queued.outbox[i].job = print.job
                                 THEN [queued.outbox[i] EXCEPT !.sealed = TRUE]
                                 ELSE queued.outbox[i]]
                /\ print' = [print EXCEPT !.sequence = queued.sequence, !.routes = new]
                /\ tracker' = IF Drains(new) THEN Unused ELSE tracker
           ELSE UNCHANGED <<outbox, print, tracker>>
        /\ snapshot' = new
        /\ UNCHANGED <<working, flight, binding, cloud, started, fed, lost, closed>>

\* _pair and pair_bridge.  Unless `saved', the cloud has issued a new token that the
\* plugin does not have: the answer was lost, or a print had begun meanwhile.
Pair(new) ==
    /\ ~Printing /\ flight = None
    /\ Change
    /\ \E saved \in BOOLEAN :
          /\ token' = IF saved THEN TRUE ELSE token /\ new # binding
          /\ binding' = IF saved THEN new ELSE binding
          /\ snapshot' = IF saved /\ new # binding THEN None ELSE snapshot
          /\ connector' = IF saved \/ new = binding THEN "ready" ELSE connector
    /\ UNCHANGED <<memory, flight, outbox, deleted, jobs, receipts, charged, started, fed, lost,
                   closed>>

\* _unpair and revoke_bridge_context, also while a print runs; the answer may be lost.
Unpair ==
    /\ binding # None /\ token /\ flight = None
    /\ Change
    /\ token' = FALSE
    /\ \/ binding' = None /\ snapshot' = None
       \/ UNCHANGED <<binding, snapshot>>
    /\ UNCHANGED <<memory, flight, outbox, connector, deleted, jobs, receipts, charged, started,
                   fed, lost, closed>>

\* revoke_bridge
RevokeByOwner ==
    /\ token
    /\ Change
    /\ token' = FALSE
    /\ UNCHANGED <<memory, flight, settings, connector, deleted, jobs, receipts, charged, started,
                   fed, lost, closed>>

\* upsert_physical_printer_connector: the owner gives the connector a material system and
\* capabilities, or takes them away.
Reconfigure ==
    /\ Change
    /\ connector' \in Connector \ {connector}
    /\ UNCHANGED <<memory, flight, settings, token, deleted, jobs, receipts, charged, started,
                   fed, lost, closed>>

\* delete_spool
DeleteSpool(spool) ==
    /\ spool \notin deleted
    /\ Change
    /\ deleted' = deleted \union {spool}
    /\ UNCHANGED <<memory, flight, settings, token, connector, jobs, receipts, charged, started,
                   fed, lost, closed>>

\* record_heartbeat: the plugin, which reports its capabilities, gets consumption back.
Heartbeat ==
    /\ token /\ binding # None /\ flight = None /\ connector = "no_consumption"
    /\ connector' \in {"ready", "no_system"}
    /\ UNCHANGED <<memory, flight, settings, token, deleted, jobs, receipts, charged, history>>

-----------------------------------------------------------------------------
(* The worker, and an explicit synchronisation: _flush_outbox_locked. *)

\* _event_matches_binding
Matches(report) == binding # None /\ report.binding = binding

HeadIndex == SelectInSeq(outbox, Matches)

\* The report is sealed before the request goes out.
SendHead ==
    /\ outbox' = [outbox EXCEPT ![HeadIndex].sealed = TRUE, ![HeadIndex].blocked = FALSE]
    /\ flight' = [report |-> outbox'[HeadIndex], answer |-> None]
    /\ UNCHANGED <<memory, binding, snapshot, cloud, history>>

Send == flight = None /\ HeadIndex # 0 /\ ~outbox[HeadIndex].blocked /\ SendHead

\* Only an explicit synchronisation tries a blocked report again.
SendBlocked == flight = None /\ HeadIndex # 0 /\ outbox[HeadIndex].blocked /\ SendHead

Same(a, b) == a.job = b.job /\ a.sequence = b.sequence

\* Slip: a refused report is just sent again (_record_delivery_failure).
AnsweredPending(i, answer) == IF answer = "accepted" THEN RemoveAt(outbox, i) ELSE outbox

\* The outbox after the answer to its i-th report.
Answered(i, answer) ==
    IF answer = "accepted" THEN RemoveAt(outbox, i)
    ELSE [outbox EXCEPT ![i].blocked = TRUE]

ReceiveAnswer(answer) ==
    /\ LET Sent(report) == Same(report, flight.report) /\ report.sealed /\ Matches(report)
           i == SelectInSeq(outbox, Sent)
       IN  outbox' = IF i = 0 THEN outbox ELSE Answered(i, answer)
    /\ flight' = None
    /\ UNCHANGED <<memory, binding, snapshot, cloud, history>>

\* The answer to the report under way.
Receive == flight # None /\ flight.answer # None /\ ReceiveAnswer(flight.answer)

\* What comes back is no answer of the cloud's, but of something in between.
ReceiveInvalid == flight # None /\ ReceiveAnswer("refused")

\* The request or its answer is lost, or too late: it will be sent again.
Lose ==
    /\ flight # None
    /\ flight' = None
    /\ UNCHANGED <<memory, settings, cloud, history>>

\* _worker_loop ends at an error _sync_once raises, of the save of its outcome say.
WorkerEnds ==
    /\ working /\ flight = None
    /\ Change
    /\ working' = FALSE
    /\ UNCHANGED <<print, tracker, flight, settings, cloud, started, fed, lost, closed>>

-----------------------------------------------------------------------------
(* The cloud. *)

Payload(report) == [sequence |-> report.sequence, amounts |-> report.amounts]

Receipt(report) ==
    [job |-> report.job, sequence |-> report.sequence, status |-> report.status,
     amounts |-> report.amounts, binding |-> report.binding, connection |-> binding]

\* The last segment of a job that has consumption recorded.
LastSegment(job) ==
    Max({r.sequence : r \in {q \in receipts : q.job = job /\ q.amounts # NoFilament}} \union {0})

\* The spools a report has consumption of.
Used(report) == {s \in Spools : report.amounts[s] > 0}

\* A spool of the report has been deleted.
Missing(report) == Used(report) \intersect deleted # {}

\* record_usage_event, process_printer_usage_event
Verdict(report) ==
    LET known == {r \in receipts : Same(r, report)}
    IN  CASE ~token -> "unauthorized"
          [] token /\ connector = "no_consumption" -> "capability_required"
          [] token /\ connector # "no_consumption" /\ known # {} ->
                IF known = {Receipt(report)} THEN "deduplicated" ELSE "event_conflict"
          [] token /\ connector = "no_system" /\ known = {} -> "not_configured"
          [] token /\ connector = "ready" /\ known = {} /\ Missing(report) -> "access_denied"
          [] OTHER ->
                IF report.sequence # LastSegment(report.job) + 1 THEN "conflict"
                ELSE ProviderVerdict(jobs[report.job], report.status, Payload(report))

Taken == {"applied", "replay", "deduplicated"}

Serve ==
    /\ flight # None /\ flight.answer = None
    /\ LET report == flight.report
           verdict == Verdict(report)
       IN  /\ flight' = [flight EXCEPT !.answer =
                            IF verdict \in Taken THEN "accepted" ELSE "refused"]
           /\ receipts' = IF verdict \in {"applied", "replay"}
                          THEN receipts \union {Receipt(report)} ELSE receipts
           /\ IF verdict = "applied"
              THEN /\ jobs' = [jobs EXCEPT ![report.job] =
                                  ProviderMoves(@, report.status, Payload(report))]
                   /\ charged' = Plus(charged, report.amounts)
              ELSE UNCHANGED <<jobs, charged>>
    /\ UNCHANGED <<memory, settings, token, connector, deleted, history>>

\* transition_print_job
OwnerMoves(job, status) ==
    /\ UserMay(jobs[job], status)
    /\ jobs' = [jobs EXCEPT ![job] = UserMoves(@, status)]
    /\ closed' = IF status \in Terminal THEN closed \union {job} ELSE closed
    /\ UNCHANGED <<memory, flight, settings, token, connector, deleted, receipts, charged,
                   started, fed, lost, changes>>

-----------------------------------------------------------------------------
Next ==
    \/ BeginPrint \/ Crash
    \/ \E slot \in Slots : Extrude(slot)
    \/ \E paused \in BOOLEAN : Checkpoint(paused)
    \/ \E outcome \in Outcomes : FinishPrint(outcome)
    \/ \E new \in Routes : PullSnapshot(new)
    \/ \E new \in Bindings : Pair(new)
    \/ Unpair \/ RevokeByOwner \/ Reconfigure \/ Heartbeat
    \/ \E spool \in Spools : DeleteSpool(spool)
    \/ Send \/ SendBlocked \/ Serve \/ Receive \/ ReceiveInvalid \/ Lose \/ WorkerEnds
    \/ \E job \in Jobs, status \in {"printing", "paused"} \union Outcomes : OwnerMoves(job, status)

WorkerSends == working /\ Send

\* As long as its thread lives the worker goes on, and not every one of its requests is lost.
Spec ==
    /\ Init /\ [][Next]_vars
    /\ WF_vars(WorkerSends) /\ SF_vars(Serve) /\ SF_vars(Receive)

-----------------------------------------------------------------------------
(* Properties. *)

TypeOK ==
    /\ print \in PrintState \union {None} /\ tracker \in [Slots -> 0..MaxFed]
    /\ working \in BOOLEAN /\ connector \in Connector /\ deleted \subseteq Spools
    /\ Range(outbox) \subseteq Report
    /\ \/ flight = None
       \/ flight \in [report : Report, answer : {None, "accepted", "refused"}]
    /\ binding \in Bindings \union {None} /\ snapshot \in Routes \union {None}
    /\ token \in BOOLEAN /\ (binding = None => ~token)
    /\ \A j \in Jobs : jobs[j] = NoJob \/ jobs[j].status \in Status
    /\ charged \in Amounts /\ fed \in Amounts /\ lost \in Amounts

\* What the reports still waiting to be recorded hold of spool s.
Waiting(s) ==
    SumFunction([i \in DOMAIN outbox |->
        IF \E r \in receipts : Same(r, outbox[i]) THEN 0 ELSE outbox[i].amounts[s]])

\* Every unit of filament is charged once, to the spool that was in the slot when it was
\* extruded, and through the connection the print was made on, or is still in the outbox or
\* in the tracker: through reports merged while others are being sent, lost answers,
\* restarts, changed assignments, unpairing and pairing elsewhere.  Only what an ending
\* process had in memory is missing.
FilamentAccounted ==
    /\ \A s \in Spools : fed[s] = charged[s] + Waiting(s) + Attributed[s] + lost[s]
    /\ \A r \in receipts : r.connection = r.binding

\* The cloud takes the report at the head of the queue, as long as the plugin's token is
\* valid and its connector ready, the owner has deleted no spool the report is about
\* and has not closed the print's job by hand: whatever has been merged, lost, sent twice,
\* blocked and tried again, the head is the segment the cloud waits for, and a repeated one
\* is the one it has.
HeadTaken ==
    /\ HeadIndex # 0 /\ token /\ connector = "ready"
    /\ ~Missing(outbox[HeadIndex]) /\ outbox[HeadIndex].job \notin closed
    => Verdict(outbox[HeadIndex]) \in Taken

\* A finished job stays as it ended, whether its owner or the printer ended it: no later
\* report or request moves it, and nothing more of the print is charged.
ClosedStays ==
    [][\A j \in Jobs :
          jobs[j] # NoJob /\ jobs[j].status \in Terminal =>
             /\ jobs'[j] = jobs[j]
             /\ \A r \in receipts' \ receipts : r.job = j => r.amounts = NoFilament]_vars

\* Unless the worker's thread ends again and again or for good, the queue does not stand
\* still: time and again either nothing is queued for the present connection or the head is
\* blocked, which takes the user to resolve.
QueueMoves == <>[]working => []<>(HeadIndex = 0 \/ outbox[HeadIndex].blocked)
=============================================================================
