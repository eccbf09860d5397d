----------------------------- MODULE EdgeUsage -----------------------------
(***************************************************************************)
(* How Edge turns the cumulative filament counter of a printer into usage  *)
(* events (edge-agent usage.py, called from runtime.py).                   *)
(*                                                                         *)
(* Edge samples the counter at moments of its own choosing.  Prints start, *)
(* pause, end and start again between two samples, the feed moves to       *)
(* another spool, native Spoolman takes over, Edge crashes.  Lengths are   *)
(* numbers of units, durations are left out: whether a periodic checkpoint *)
(* is due is a free choice.                                                *)
(*                                                                         *)
(* `log' is the sequence of all events ever put into the outbox; what      *)
(* becomes of them is the subject of module UsageDelivery.                 *)
(***************************************************************************)
EXTENDS Naturals, Sequences, FiniteSetsExt, Functions

CONSTANTS
    Routes,       \* desired routes: a slot, its spool and its assignment revision
    Files,        \* names of printed files
    NoFile,       \* the reading has no file name
    NoRoute,      \* the active feed has no desired spool
    Native,       \* native Spoolman accounts for the feed
    NoTracker,    \* usage_tracker is None
    MaxUsed,      \* bound: filament produced over all prints
    MaxPrints,    \* bound: prints
    MaxEvents,    \* bound: events
    MaxChanges,   \* bound: changes of the feed
    MaxUnsaved    \* bound: saves of the state file that fail

ASSUME NamesAssumption ==
    /\ NoRoute \notin Routes /\ Native \notin Routes /\ NoRoute # Native

VARIABLES
    printer,   \* what Moonraker reports: state, file and counter of print_stats
    feed,      \* the route the active feed has (usage._route), or Native
    mem,       \* usage_tracker and log in memory
    disk,      \* the same in the state file
    \* History variables.
    print,     \* how many prints were started
    extruded,  \* filament fed by each route
    since,     \* feeds in use since the sample in the state file
    steady,    \* in this print the feed was always seen, and always the same
    changes,   \* how often the feed changed
    unsaved    \* how many saves failed

env == <<printer, feed, print, extruded, since, steady, changes>>
edge == <<mem, disk, unsaved>>
vars == <<env, edge>>

Feeds == Routes \union {NoRoute, Native}

Active == {"printing", "paused"}       \* ACTIVE_STATES
Ended == {"ended"}                     \* the keys of TERMINAL_OUTCOMES

\* `print' and `base' are history: the print and the counter tracking began with.
Tracker ==
    [job : Nat, file : Files \union {NoFile}, state : Active \union Ended, used : Nat,
     route : Feeds, next : Nat, pending : Nat, done : BOOLEAN,
     suspended : BOOLEAN, print : Nat, base : Nat]

ASSUME NoTrackerAssumption == NoTracker \notin Tracker

Event ==
    [job : Nat, segment : Nat, type : {"checkpoint", "terminal"},
     route : Feeds, length : Nat]

Init ==
    /\ printer = [state |-> "standby", file |-> NoFile, used |-> 0]
    /\ feed = NoRoute
    /\ mem = [tracker |-> NoTracker, log |-> <<>>]
    /\ disk = mem
    /\ print = 0
    /\ extruded = [r \in Routes |-> 0]
    /\ since = {feed}
    /\ steady = TRUE
    /\ changes = 0
    /\ unsaved = 0

-----------------------------------------------------------------------------
(* The printer, seen through print_stats and the desired slots.             *)

Total == SumFunction(extruded)

StartPrint ==
    /\ printer.state \notin Active /\ print < MaxPrints
    /\ \E f \in Files : printer' = [state |-> "printing", file |-> f, used |-> 0]
    /\ print' = print + 1
    /\ steady' = TRUE
    /\ UNCHANGED <<feed, extruded, since, changes, edge>>

\* The counter of a print never goes down while the print lasts.
Extrude ==
    /\ printer.state = "printing" /\ printer.used < MaxUsed /\ Total < MaxUsed
    /\ printer' = [printer EXCEPT !.used = @ + 1]
    /\ extruded' = IF feed \in Routes THEN [extruded EXCEPT ![feed] = @ + 1] ELSE extruded
    /\ UNCHANGED <<feed, print, since, steady, changes, edge>>

PauseOrResume ==
    /\ printer.state \in Active
    /\ printer' = [printer EXCEPT !.state = IF @ = "paused" THEN "printing" ELSE "paused"]
    /\ UNCHANGED <<feed, print, extruded, since, steady, changes, edge>>

EndPrint ==
    /\ printer.state \in Active
    /\ printer' = [printer EXCEPT !.state = "ended"]
    /\ UNCHANGED <<feed, print, extruded, since, steady, changes, edge>>

\* The firmware restarts or the file is reset: the counters are cleared.
ResetPrinter ==
    /\ printer.state # "standby"
    /\ printer' = [printer EXCEPT !.state = "standby", !.used = 0]
    /\ UNCHANGED <<feed, print, extruded, since, steady, changes, edge>>

\* A tool change, a new desired spool, or native Spoolman being switched on or off.
\* Two samples cannot tell that the feed was away in between, so the model has no
\* feed come back before a sample of another one is in the state file.
ChangeFeed ==
    /\ changes < MaxChanges
    /\ \E f \in Feeds \ since : feed' = f /\ since' = since \union {f}
    /\ steady' = FALSE
    /\ changes' = changes + 1
    /\ UNCHANGED <<printer, print, extruded, edge>>

-----------------------------------------------------------------------------
(* usage.py.  Each operator returns the new tracker and the events, like    *)
(* the function it stands for; t is a tracker, and the reading is `printer' *)
(* with `feed' as its route.                                                *)

Result(t, events) == [tracker |-> t, events |-> events]

\* A new uuid4: here, a number that no event and no tracker with evidence bears.
NewJob ==
    LET logged == {e.job : e \in Range(mem.log) \union Range(disk.log)}
        tracked == {t.job : t \in {t \in {mem.tracker, disk.tracker} \ {NoTracker} : t.pending > 0}}
    IN 1 + Max({0} \union logged \union tracked)

NewTracker ==
    [job |-> NewJob, file |-> printer.file, state |-> printer.state,
     used |-> printer.used, route |-> feed, next |-> 1, pending |-> 0,
     done |-> printer.state \in Ended, suspended |-> FALSE,
     print |-> print, base |-> printer.used]

\* Slip: a counter that fell is taken for the same job.
SameJob_FileOnly(t) == t.file = printer.file \/ NoFile \in {t.file, printer.file}

\* Slip: a counter that did not move is taken for another job.
SameJob_Strict(t) ==
    /\ t.file = printer.file \/ NoFile \in {t.file, printer.file}
    /\ printer.used > t.used

\* _same_job: another file name or a lower counter is another job.
SameJob(t) ==
    /\ t.file = printer.file \/ NoFile \in {t.file, printer.file}
    /\ printer.used >= t.used

\* An item is only made of a positive length on a known route.
EventOf(t, segment, type, route, length) ==
    [job |-> t.job, segment |-> segment, type |-> type,
     route |-> IF length > 0 THEN route ELSE NoRoute, length |-> length]

\* Slip: the segment number is not advanced.
CapturePending_SameSegment(t) ==
    IF t = NoTracker \/ t.done \/ t.route = NoRoute \/ t.pending = 0
       THEN Result(t, <<>>)
       ELSE Result([t EXCEPT !.pending = 0],
                   <<EventOf(t, t.next, "checkpoint", t.route, t.pending)>>)

\* capture_pending_usage_event: what earlier samples attributed is flushed.
CapturePending(t) ==
    IF t = NoTracker \/ t.done \/ t.route = NoRoute \/ t.pending = 0
       THEN Result(t, <<>>)
       ELSE Result([t EXCEPT !.next = @ + 1, !.pending = 0],
                   <<EventOf(t, t.next, "checkpoint", t.route, t.pending)>>)

\* Slip: the interval of a route change is charged to the new route.
Attributed_NewRoute(t) ==
    IF feed = NoRoute THEN 0
    ELSE IF t.route # feed THEN printer.used - t.used
    ELSE t.pending + (printer.used - t.used)

\* Slip: only the last interval is attributed.
Attributed_LastInterval(t) ==
    IF t.route # feed \/ feed = NoRoute THEN 0 ELSE printer.used - t.used

\* The length pending on the present route: the interval of a route change is dropped.
Attributed(t) ==
    IF t.route # feed THEN 0
    ELSE IF feed = NoRoute THEN t.pending
    ELSE t.pending + (printer.used - t.used)

\* A reading of the tracked job: up to two events, the first for the old route.
Advance(t, due) ==
    LET left == IF t.route \notin {feed, NoRoute} /\ t.pending > 0
                   THEN <<EventOf(t, t.next, "checkpoint", t.route, t.pending)>>
                   ELSE <<>>
        pending == Attributed(t)
        ending == printer.state \in Ended
        flush == pending > 0 /\ (due \/ (printer.state = "paused" /\ t.state # "paused"))
        now == IF ending \/ flush
                  THEN <<EventOf(t, t.next + Len(left),
                                 IF ending THEN "terminal" ELSE "checkpoint", feed, pending)>>
                  ELSE <<>>
    IN Result([t EXCEPT !.state = printer.state, !.used = printer.used, !.route = feed,
                        !.next = @ + Len(left) + Len(now),
                        !.pending = IF now # <<>> THEN 0 ELSE pending,
                        !.done = ending],
              left \o now)

Sampled(t, due) ==
    IF printer.state = "standby" THEN Result(NoTracker, <<>>)
    ELSE IF t = NoTracker \/ t.done \/ ~SameJob(t) THEN Result(NewTracker, <<>>)
    ELSE Advance(t, due)

\* The first reading after a suspension only sets the counter and the route.
Resumed(t) ==
    IF SameJob(t)
       THEN [t EXCEPT !.suspended = FALSE, !.used = printer.used, !.route = feed]
       ELSE NoTracker

\* capture_usage_events, with a usage reading.
CaptureUsage(t, due) ==
    IF t # NoTracker /\ t.suspended
       THEN LET flushed == CapturePending(t)
                sampled == Sampled(Resumed(flushed.tracker), due)
            IN Result(sampled.tracker, flushed.events \o sampled.events)
       ELSE Sampled(t, due)

\* capture_usage_events, without one.
Suspended(t) == IF t = NoTracker THEN t ELSE [t EXCEPT !.suspended = TRUE]

-----------------------------------------------------------------------------
(* The Edge runtime. *)

\* The events of a result are put into the outbox and the state is saved; the
\* sample is only made when the outbox has room.
Keep(result) ==
    /\ Len(mem.log) + Len(result.events) <= MaxEvents
    /\ mem' = [tracker |-> result.tracker, log |-> mem.log \o result.events]
    /\ \/ disk' = mem' /\ UNCHANGED unsaved
       \/ disk' = disk /\ unsaved < MaxUnsaved /\ unsaved' = unsaved + 1

\* run_cycle with a reading of the counter.
Sample ==
    /\ feed # Native
    /\ \E due \in BOOLEAN : Keep(CaptureUsage(mem.tracker, due))
    /\ since' = IF disk' = mem' THEN {feed} ELSE since
    /\ UNCHANGED <<printer, feed, print, extruded, steady, changes>>

\* run_cycle without one: native Spoolman accounts for the feed, or the
\* configuration that tells so cannot be read.
SampleNothing ==
    /\ Keep(Result(Suspended(mem.tracker), <<>>))
    /\ since' = IF disk' = mem' THEN {feed} ELSE since
    /\ steady' = FALSE
    /\ UNCHANGED <<printer, feed, print, extruded, changes>>

\* _checkpoint_without_provider: the printer does not answer, or SIGTERM made the
\* worker leave its loop (shutdown).
Flush ==
    /\ Keep(CapturePending(mem.tracker))
    /\ UNCHANGED env

\* The save at the end of every cycle (node._cycle), where the one before it failed.
EndCycle ==
    /\ mem # disk
    /\ disk' = mem
    /\ UNCHANGED <<env, mem, unsaved>>

\* The process ends, after a shutdown or in a crash, and is started again (node._build).
\* The time in between is time without samples.
Restart ==
    /\ mem # disk
    /\ mem' = disk
    /\ UNCHANGED <<env, disk, unsaved>>

-----------------------------------------------------------------------------
Next ==
    \/ StartPrint \/ Extrude \/ PauseOrResume \/ EndPrint \/ ResetPrinter \/ ChangeFeed
    \/ Sample \/ SampleNothing \/ Flush \/ EndCycle \/ Restart

Spec == Init /\ [][Next]_vars

-----------------------------------------------------------------------------
(* Properties. *)

EdgeState == [tracker : Tracker \union {NoTracker}, log : Seq(Event)]

\* The values of the variables.
TypeOK ==
    /\ printer \in [state : {"standby"} \union Active \union Ended,
                    file : Files \union {NoFile}, used : Nat]
    /\ feed \in Feeds /\ since \subseteq Feeds
    /\ mem \in EdgeState /\ disk \in EdgeState
    /\ steady \in BOOLEAN
    /\ print \in Nat /\ changes \in Nat /\ unsaved \in Nat
    /\ extruded \in [Routes -> Nat]

\* The filament the events of a log charge to a route.
ChargedTo(log, r) ==
    SumFunction([i \in DOMAIN log |-> IF log[i].route = r THEN log[i].length ELSE 0])

\* The filament the events of a log charge for a job.
ChargedFor(log, job) ==
    SumFunction([i \in DOMAIN log |-> IF log[i].job = job THEN log[i].length ELSE 0])

PendingOn(t, r) == IF t # NoTracker /\ t.route = r THEN t.pending ELSE 0

\* No spool is charged more than it fed: not across prints, reprints of the same
\* file, counters that start again, spool changes, native Spoolman, crashes or
\* states that were not saved (the docstring of capture_usage_events).
NeverOvercharged ==
    \A p \in {mem, disk}, r \in Routes :
        ChargedTo(p.log, r) + PendingOn(p.tracker, r) <= extruded[r]

\* The cloud takes the segments of a job in order, 1, 2, 3..., and none after the
\* terminal one: Edge never makes any others, and never goes back to an earlier job.
SegmentsInOrder ==
    \A i \in DOMAIN mem.log :
        LET e == mem.log[i]
            earlier == {j \in 1..(i - 1) : mem.log[j].job = e.job}
        IN /\ e.segment = Cardinality(earlier) + 1
           /\ \A j \in earlier : mem.log[j].type = "checkpoint"
           /\ \A j \in 1..(i - 1) : mem.log[j].job <= e.job

\* What the state file holds as pending is kept, or charged to its route, until the
\* print has ended without a sample that saw it end.
EvidenceKept ==
    [][LET t == disk.tracker
           u == disk'.tracker
       IN (t # NoTracker /\ t.pending > 0) =>
             \/ u # NoTracker /\ u.job = t.job /\ u.route = t.route /\ u.pending >= t.pending
             \/ \E i \in DOMAIN disk'.log :
                   /\ i > Len(disk.log)
                   /\ disk'.log[i].job = t.job
                   /\ disk'.log[i].route = t.route
                   /\ disk'.log[i].length >= t.pending
             \/ t.print < print \/ printer.state = "standby"]_vars

\* A print that runs on one spool, never suspended, is charged in full from the
\* counter at which Edge first saw it to its end, across pauses, disconnects, crashes
\* and saves that failed.
SteadyPrintCharged ==
    LET t == mem.tracker
    IN (t # NoTracker /\ t.done /\ t.print = print /\ steady /\ feed \in Routes) =>
          ChargedFor(mem.log, t.job) = t.used - t.base
=============================================================================
