# FilamentHub: a TLA+ model of filament accounting

FilamentHub keeps the balance of filament spools.  Printers report what they
consume through *FilamentHub Edge*, a helper on the printer's host, and the
cloud deducts it from the spool in use.  The program's hard promise is about
that number: every gram a printer consumed is deducted once, from the right
spool, although connections break, processes crash, prints start and end
unobserved, and several helpers may watch one printer.  These modules are about
that promise.

| file | what it is |
| --- | --- |
| `UsageLedger.tla` | abstract: deductions made once each and in order |
| `UsageDelivery.tla` | Edge's queue and state file, the HTTP exchange, the cloud's receipts; implements `UsageLedger` |
| `EdgeUsage.tla`, `MCEdgeUsage.tla` | how Edge turns a filament counter into usage events |
| `UsageAuthorityRule.tla` | abstract: which helper's reports are deducted |
| `UsageHelpers.tla` | the connectors the next two modules are about |
| `UsageAuthority.tla` | `hold_usage_authority` statement by statement; implements `UsageAuthorityRule` |
| `UsageHandover.tla` | several helpers with queues of their own under `UsageAuthorityRule` |
| `SpoolBalance.tla` | one spool's balance: late reports, weighings, edits, write-offs, reversals |
| `BridgePairing.tla` | pairing codes, connectors, revocation, reset, and the evidence queued meanwhile |
| `PrintJobRule.tla` | what moves a print job: its owner's requests, its provider's events |
| `OctoPrintUsage.tla` | the OctoPrint plugin's reports, from the extruder to the spool, under `PrintJobRule` |
| `AmsJournal.tla` | the firmware's AMS history in flash |
| `UsageDeliveryProofs.tla`, `EdgeUsageProofs.tla`, `SpoolBalanceProofs.tla`, `BridgePairingProofs.tla`, `OctoPrintUsageProofs.tla`, `AmsJournalProofs.tla` | theorems about the module of that name, for every value of its constants |
| `UsageAuthorityProofs.tla` | theorems about `UsageAuthority`, and about `UsageHandover`, which builds on the same rule |
| `Induction.tla` | what the proofs need about least elements, sums over finite sets and sequences |
| `*.cfg` | the instances TLC checks |
| `PROJECT.json` | components, runs, mutants, the map from definitions to source lines, findings, hazards, theorems |

Run `tlc -config X.cfg M` for a module and its configuration (the pairs are in
PROJECT.json) and `tlapm MProofs.tla` for the proofs about a module `M`
(`UsageAuthorityProofs` for `UsageHandover`).

## 1. Inventory

The repository is a FastAPI backend (`src/backend`), an Edge agent with an
ESP32 firmware (`src/edge-agent`), printer and slicer plugins
(`src/octoprint-plugin`, `src/orca-plugin`) and a web frontend.

**Edge agent.**  `node.py` runs one thread per connection; a thread repeats a
*cycle* (`runtime.run_cycle`): heartbeat, send queued evidence, fetch the
desired snapshot, read the printer, capture usage, send the observation.  The
only durable state is one JSON file per connection (`state.py`, replaced
atomically by `storage.py`): credentials, the usage tracker (`usage.py`), the
outbox of usage batches and two sequence numbers.

- *Usage capture* (`usage.py`).  State: the tracker (job key, file, counter,
  route, next segment, pending length, flags).  Operations:
  `capture_usage_events`, `capture_pending_usage_event`.  Hard: it sees the
  printer only at the samples it makes; between two of them prints end, restart,
  change spool, and Edge itself may die and come back with an older tracker.
  Correct when no spool is charged more than it fed, evidence that was recorded
  is not forgotten, and segments of a job are numbered without gap.
- *Runtime, outbox, state file* (`runtime.py`, `state.py`, `node.py`).
  Operations: capture, enqueue, save, flush, acknowledge, restart; pairing and
  `reset_connection`.  Hard: memory runs ahead of the file when a save fails; a
  crash between the cloud's commit and the local removal.  Correct when the file
  always loads, nothing durable is lost and the queue cannot jam.
- *HTTP client* (`cloud.py`, `http.py`): at most one request out, a timeout, no
  answer is trusted that does not name the batch.  Hard: a request given up may
  still be processed.
- *Providers* (`providers/`): Moonraker, Happy Hare and QIDI Box readings.
- *ESP32 firmware* (`firmware/src`): a small Edge in C, which keeps the history of
  the AMS states it saw in a ring of flash slots (`ams_journal.c`) and hands it out in
  pages over USB (`ams_journal_flash.c`).  Hard: the power fails inside a write; a page
  is read line by line while records are written.  Correct when what was committed
  survives unless it is overwritten, and what is left out is said.

**Backend.**

- *Usage batches* (`printer_bridge_service.record_printer_bridge_usage_batch`):
  one transaction under the connector's row lock; batch receipts by sequence,
  event receipts by key.  Correct when a repeated, late or reordered request
  changes nothing.
- *Usage authority* (`printer_usage_route_service.hold_usage_authority`): which
  of several connectors of a material system is counted.  State: one boolean per
  connector under a partial unique index.  Hard: two row locks taken in
  sequence, READ COMMITTED re-evaluation, a rollback that must undo the claim.
- *Usage events and the spool ledger* (`printer_usage_service.py`,
  `spool_usage_service.py`): segment order of a print job, deduction, weighings
  and their proration, reversals.  Hard: evidence that arrives after a weighing.
- *Print jobs* (`print_job_service.py`): a job's state machine, moved by the
  owner and by the provider.
- *Bridge pairing and revocation*, *observations and the desired snapshot*,
  *slot assignments*, *preset slot synchronisation*: locked transactions that
  the paths above read.
- *OctoPrint bridge* (`octoprint_bridge_service.py`, `src/octoprint-plugin`): a
  reporting client with a tracker, an outbox in OctoPrint's settings and a worker
  thread of its own.  Hard: reports are added to while the worker sends them; spools,
  connection and owner change in the middle of a print.
- *Spoolman-compatible interface*, *Orca plugin*: other reporting clients.  Hard: Moonraker's deltas have no identity, a retry is told
  from a second print by weight and a time window.
- *Refresh sessions*, *plugin sign-in hand-off*, *CRM spool reservations*,
  *weighted preset reconciliation*: each a small concurrent protocol.
- Accounts, catalogue, calculator, labels, e-mail, wiki, statistics: request
  handlers without a protocol of their own.

**How they interact.**  The tracker's events become a batch; the batch is in
the state file before it is sent; the cloud takes batches of one connector in
the order of their sequence, asks whether the connector holds the authority, and
either deducts the events, each as the next segment of its print job, or only
writes the receipt.  The desired snapshot that Edge reads carries the routes the
tracker attributes filament to, and reading it can take the authority as well.

PROJECT.json lists every component with what is modelled of it, and under
`hazards` what is hard to test, each at the line where it bites.

## 2. The modules and the code

### UsageDelivery

| model | code |
| --- | --- |
| `mem`, `disk` | `EdgeState` in memory and in the state file: usage sequence, outbox, and (`mark`) how much filament the tracker has turned into events |
| `Capture` | `run_cycle` or `_checkpoint_without_provider` with `_enqueue_usage_batch`: the outbox limit, the next sequence, the save |
| `EndCycle` | the last save of `node._cycle` |
| `Send`, `ReceiveAck`, `ReceiveRefusal`, `Timeout` | `_flush_usage_outbox` and `upload_usage_batch` |
| `Crash`, `Restart` | the process ends; `node._build` loads the file |
| `Serve`, `ServeLate` | `record_printer_bridge_usage_batch`, on a request that is waited for and on one that was given up |
| `receipts`, `ledger` | the batch receipts and the deductions |

The client is synchronous: while a request is out the thread does nothing else
(`Idle`).  A request that was given up is lost or stays in `late`, from where it
may be served at any later time, also after its retry, after later batches and
after a crash.  A save may fail (`SaveCanFail`); then memory stays ahead of the
file.  Two captures never have the same payload (`stamp`, the observation time),
which is what makes a re-used sequence a conflict.

Left out on purpose: a batch is one interval of filament (several events of one
batch are taken together; `EdgeUsage` has them apart), the helper holds the
authority (`UsageHandover` has the other case), no event is refused for a deleted
spool, and the sequence bound 2^63 - 1 is never reached.

### EdgeUsage

The operators have the functions' names: `SameJob`, `NewTracker`, `EventOf`,
`CapturePending`, `CaptureUsage`.  `CaptureUsage` is split where the function
has its early returns (`Suspended`, `Resumed`, `Sampled`, `Advance`).  The actions
are the callers: `Sample` and `SampleNothing` are `run_cycle` with and without a
usage reading, `Flush` is `_checkpoint_without_provider` and the shutdown,
`EndCycle` and `Restart` are `node.py`.  The printer is free to start, pause, end
and reset prints and to change its feed at any time.

`print`, `extruded`, `since`, `steady` are history variables the properties speak
about; no action of Edge reads them.

Durations are left out (a periodic checkpoint is due or not, freely), and so is
the `checkpoint_reason` argument, which no caller passes.  Two restrictions of
the environment are assumptions the code itself makes: the counter of a print
does not fall while the print lasts (a fall is taken for another job), and a feed
does not leave and come back between two samples that reach the file (two equal
routes are taken for an unbroken interval).  The hazards list has both.

### UsageAuthorityRule and UsageAuthority

The rule says: at most one holder; another helper takes over only when there is
none or when the holder is revoked or silent for six minutes.  `UsageAuthority`
has one transaction per connector, and one action per statement: `Begin` locks
the own row, `Query` evaluates the search for the holder in its snapshot,
`LockHolder` is the moment PostgreSQL grants the lock and evaluates the row
again, `Claim` flushes the writes against the unique index, `Commit` and
`Rollback` end the transaction.  The ingest of an observation
(`BeginIngest`, `LockNext`, `CommitIngest`, `RollbackIngest`) locks the rows of all
connectors in the order of their ids; an advisory lock of the account lets one run at a
time.  The other writers of the rows (heartbeat, the two revocations, pairing) each wait
for the row's lock and write one row.

A usage transaction locks its own row and then the holder's, whatever their ids.
`NoUsageDeadlock` says that such transactions never wait for each other in a circle:
the transaction of the connector that is found to be the holder asks for no row itself.
With an ingest they can.  If connector 1 holds the authority, the ingest has locked its
row and a batch of connector 2 its own, each waits for the other's; PostgreSQL rolls one
of them back (`Rollback`, `RollbackIngest`), and the client tries again.  An ingest also makes the connector it is
about active again, so an observation that has waited for the row while its connector
was revoked undoes the revocation (`Observe` of the rule).

All connectors here have one provider and transport; of another provider's an ingest
locks only those with topology authority.  Left out: the credential's row, which pairing
locks before the connector's and the owner's revocation after it.

### UsageHandover

Composes the rule with the helpers' queues.  Each helper has its own job key and
therefore its own print job in the cloud; `applied[h]` is the number of segments
recorded for it, and `Expected` the comparison `process_printer_usage_event`
makes.  `Deduct` is a batch whose helper holds or takes the authority,
`Acknowledge` one of a helper that does not, `PullDesired` the taking of the
authority through `build_printer_bridge_desired_snapshot`.  A batch whose segment
is not the expected one is refused and rolled back whole: no step.

Edge sends its pending observation before anything else, and the cloud takes only those
of the printer's connector with the lowest id: every other Edge gets a 401, and
`run_cycle` ends there (`runtime.py:73`, `82-83`) before it sends a heartbeat or its usage
queue, or samples the printer.  `Observers` are the helpers this does not stop: the
Edge of the lowest connector, and clients that report consumption and send no
observation; `pending` are the others that have an observation to send.  A refused one
never goes away: the helper delivers nothing more (`GetsThrough`), falls silent, and
samples only while it does not reach the cloud at all (`Samples`).  So, as the code is, of
several Edges of one printer one delivers; the other kind of second helper is a desktop
client such as the Bambu plugin, whose token is invalidated by its first refused
snapshot.  The runs with two `Observers` ask what the cloud's own functions promise
whichever clients use them.  What a late observation does to a revoked connector is in
`UsageAuthority` and not here.

A helper sends `Burst` batches and then reads the desired snapshot, with the rest still
queued; the model lets it read whenever it has sent so many at all.  One print, one
event in each batch; a delivery is one step, because `UsageDelivery` shows that it
amounts to one.  The module shares `UsageHelpers` with `UsageAuthority`, and the proofs
are about both at once, so what would have the same name in both has a name of its own
here: `HandoverInit`, `HandoverSpec`, `GoSilent`, `SendHeartbeat` and so on.

### SpoolBalance

One spool and its history of `PresetUsageEvent`s.

| model | code |
| --- | --- |
| `label`, `used`, `empty` | `initial_weight_g`, `used_weight_g`, `state = empty` |
| `records` | the spool's events: `delta_weight_g`, `print_job_id` and, from `meta`, `reported_weight_g`, `balance_accounting`, `reverted`, `balance_observed_at`, `observed_at`, `reverts_event_id` |
| `Charge` with `SegmentStart`, `Accounting`, `Due`, `Consumed` | `process_printer_usage_event` from the spool on |
| `Boundary` | `latest_spool_balance_observation` |
| `Recorded` | `record_spool_usage`, which settles reports that wait for a weighing |
| `Measure`, `StateUsed`, `EditLabel`, `WriteOff`, `Revert` | `measure_spool`, `update_spool` with and without `used_weight_g`, `use_spool`, `revert_spool_usage` |
| `Confirmed` | `confirmed_event_weight` |

Each operation locks the spool's row first and commits at its end, so each is one
step.  Reports are charged in the order they were made, each once: that is what
`UsageDelivery` shows.  They may be charged at any later time, and the owner may do
anything in between.

A spool may be added with filament already taken off it (`Openings`); `stage_new_spool`
then writes an opening balance, which counts as a weighing.

`fed` and `gone` are the truth (what the printer fed, what was cut off), `base` is by
how much the last statement of the amount was off from it, and `doubt` says that
something happened since which the code cannot know: a report without a source time, a
segment of uneven flow with a weighing inside (the code's comment says "assuming steady
flow"), a report or write-off that exceeds what the label allows, the label of a spool
held for empty.  Every statement of the amount ends the doubt.  A reversal is taken at
its word.  `JobFact` is about all jobs of the spool together, and about histories in which
no report was capped at what the label leaves, which loses the rest, and no reversal was
itself reverted.

Assumed: Edge and the cloud share a clock; a report has `started_at` (Edge's always
has) and contract version 2.  Left out: `usage_started_at` and estimated consumption,
which other clients send; intervals Edge drops (`EdgeUsage` has them); other spools'
segments of the same job; the states `active`, `shelf` and `archived`, which change no
weight; a state of `empty` set by hand.  Weights are whole units; a proration divides
an even segment without remainder.

### BridgePairing

Several Edges, each on a host of its own, and one printer in the cloud.

| model | code |
| --- | --- |
| `edge` | the state file: instance id (`life`), token, code digest, cached desired snapshot, sequence, outbox; and the configured code |
| `links` | the printer's connectors in the order of their ids, each with its credential |
| `IssueCode`, `ExpireCode`, `RevokeByOwner` | `issue_printer_bridge_pairing_code`, the code's time limit, the owner's revocations |
| `Pair` with `PairedElsewhere`, `Target`, `Clash`, `PairedLinks` | `_ensure_paired`, `pair_printer_bridge`, `_connector_for_source`, the unique index of sources |
| `Reset` | `reset_connection`, broken off or not between the cloud's commit and the local save |
| `Upload` with `Verdict`, `PullDesired`, `Capture` | the cycle of a paired Edge; the batch checks of the cloud, by connector and source |

`home` is a history variable: the connector an identity was first paired on.  One
batch is one unit of evidence; its route carries the connector whose desired snapshot
issued its proof, which is what `resolve_usage_routes` compares.  A heartbeat changes
nothing here.  All Edges belong to one material system, so the 409 of a move to another
one does not occur.  Two blockers of a reset (a pending observation, an open usage
tracker) are left out: the model resets in more states than the code.

### PrintJobRule and OctoPrintUsage

`PrintJobRule` has the transition table and the two operations that move a job,
`transition_print_job` (`UserMay`, `UserMoves`) and `ensure_provider_job_event`
(`ProviderVerdict`, `ProviderMoves`); both lock the job's row.

`OctoPrintUsage` has a step for what one thread of the plugin does under `_lock`.

| model | code |
| --- | --- |
| `print`, `tracker` | the fields of the running print and `ExtrusionTracker`; gone after a crash |
| `outbox`, `binding`, `snapshot` | OctoPrint's settings |
| `flight` | the request of `_flush_outbox_locked`, which is made without the lock |
| `working` | the worker's thread is alive |
| `token`, `connector`, `deleted` | what the cloud asks before it takes a report: the token; the connector's material system and its grant to report consumption; the spools |
| `BeginPrint`, `Extrude`, `Checkpoint`, `FinishPrint` | `_begin_print`, `on_gcode_sent`, `_checkpoint_usage`, `_finish_print`; `Checkpointed` is `_queue_usage_locked` with its merging |
| `PullSnapshot` | `_apply_snapshot`: report what was extruded under the old routes, seal, change the routes |
| `Pair`, `Unpair`, `RevokeByOwner` | `_pair_locked` and `pair_bridge`, `_unpair_locked` and `revoke_bridge_context`, `revoke_bridge` |
| `Send`, `SendBlocked`, `Receive`, `Lose` | `_flush_outbox_locked`: seal and send the first report of the present binding; the answer; no answer |
| `ReceiveInvalid` | an answer that is no acknowledgement blocks the report like a refusal |
| `WorkerEnds` | `_sync_once` raises out of `_worker_loop`, which catches nothing: the thread is gone until OctoPrint is started again |
| `Serve` with `Verdict` | `record_usage_event`, `process_printer_usage_event` |
| `Reconfigure`, `Heartbeat`, `DeleteSpool` | `upsert_physical_printer_connector`, `record_heartbeat` (which gives the grant back, also when it read the connector before its system was taken away), `delete_spool` |
| `OwnerMoves` | `transition_print_job` |

`fed`, `lost`, `closed` are history variables.  Every route has a proof, so reports
without one are left out, as are the limit of 256 items in a report, the retry
schedule and what changes no state of these: tool mapping, what else a heartbeat
reports, the API.  A request served after the plugin gave it up leaves the same as one served before, since
the report is sealed and stays in the outbox.

### AmsJournal

| model | code |
| --- | --- |
| `flash` | the partition's slots, as `read_slot` sees them: empty, torn, committed, or ambiguous, which it refuses |
| `status`, `oldest`, `newest`, `committed`, `pending`, `dropped` | the fields of `fh_ams_journal` |
| `waiting` | the order of `pending_since` |
| `Boot`, `Observe` (`Queue`, `Withdraw`), `Commit` | `fh_journal_open`, `fh_journal_observe`, `fh_journal_poll` |
| `CommitBreaks` | power or flash failing inside `fh_journal_poll` after any of its writes, a part of one included |
| `OpenPage`, `ShowLine`, `ClosePage` | `fh_journal_flash_read`, which takes the mutex anew for each line |

`log` holds every record whose commit marker was written.  The minimum of five minutes
between two commits is left out: the model commits in more states than the code, and
so it can overwrite a record between two lines of a page.

## 3. What the runs show

| run | instance | properties |
| --- | --- | --- |
| `usage_delivery` | outbox 2, 4 batches, 4 units, 2 crashes, failing saves (450,354 states) | `TypeOK`, `LedgerInOrder`, `EvidenceConserved`, `DiskLoads`, `ImplementsLedger` |
| `usage_delivery_live` | the same with saves that work, fair (3,721) | `HeadNeverRefused`, `Delivered` |
| `edge_usage` | 2 routes, 2 files, 2 prints, 3 units, 3 events, 2 feed changes, 1 failing save (4,385,195) | `TypeOK`, `NeverOvercharged`, `SegmentsInOrder`, `SteadyPrintCharged`, `EvidenceKept` |
| `usage_authority` | 3 connectors and an ingest (33,248) | `TypeOK`, `OneApplies`, `OneHolder`, `NoUsageDeadlock`, `ImplementsRule` |
| `usage_handover` | 3 helpers, one with refused observations, 2 units, 1 outage, 1 revocation, 3 tenures by the desired snapshot, bursts of 1, fair (547,837) | `HandoverTypeOK`, `OncePerTenure`, `FollowsRule`, `NoGapInJob`, `SecondDrains` |
| `spool_balance` | 3 units on a spool labelled 2, corrected to 3, added with 0 or 1 used; 4 ticks, 2 jobs, 3 records (2,633,195) | `TypeOK`, `BalanceExact`, `LedgerAdds`, `EmptyHoldsNothing`, `JobFact` |
| `bridge_pairing` | 2 Edges, 3 connectors, 4 codes, 2 identities and 2 batches each, outbox 2 (1,327,636) | `TypeOK`, `EvidenceKept`, `HeadTaken`, `PairingEvictsNobody` |
| `octoprint_usage` | 2 prints, 1 slot, 2 spools, 2 connections, 2 units, 2 changes, 3 reports of a print, fair (1,391,110) | `TypeOK`, `FilamentAccounted`, `HeadTaken`, `ClosedStays`, `QueueMoves` |
| `ams_journal` | 3 slots, 5 records, 2 connections, 2 boots, pages of up to 2 lines (2,561,724) | `TypeOK`, `HistoryKept`, `AllStatesCounted`, `PageExact` |
| `bridge_pairing_new_code` | violated: see the findings | `NewCodeWorks` |
| `handover_drain` | violated: see the findings | `QueueDrains` |
| `handover_twice` | violated: see the findings | `NeverDeductTwice` |

Every property of a passing run has a mutant in PROJECT.json: a plausible slip in
one mapped definition (the operators marked `Slip:` in the modules) that makes TLC
find that property violated in the same run.

**The bounds and why they are enough.**

- `UsageDelivery`: an outbox of two has a head, a tail and a full state; four
  batches let the queue fill, drain and fill again; two crashes allow a crash
  during the recovery from a crash.  `MaxSequence` and `MaxPrinted` only cut the
  history off; the proofs below do without any bound.
- `EdgeUsage`: a second print and a second route are needed for a confusion of
  two jobs or spools; three units allow one before, one during and one after a
  change; two feed changes reach a route, leave it for native Spoolman or
  another spool, and come back; one failing save makes a restart go back in time.
  Routes and files are interchangeable (`Symmetry`).  `Restart` keeps no time of
  its own: the time a process is down is time without samples.
- `UsageAuthority`: three connectors are the smallest number in which two race
  for a third one's authority, and the ingest has a row before, between and after them.
  Nothing else is bounded.
- `UsageHandover`: two helpers that get through, for the authority to pass over and back,
  and one that holds it until its first observation is refused; three tenures are one
  each.  With bursts of one, Edge's four, a queue of two is read over.  The runs of the
  findings have two helpers and bursts of four.
- `SpoolBalance`: four ticks allow a segment of two or three with a weighing inside;
  two jobs let one job's segments follow the other's; three records are a report, a
  weighing that meets it and a reversal, or a reversal of a reversal.  An opening balance
  takes one record and is half the label.  A label that is first too low makes reports
  exceed it and an empty spool come back.
- `BridgePairing`: two Edges compete for a connector; a third connector is what the
  pairing of an Edge that was displaced makes; four codes are two pairings each; two
  identities are a reset; an outbox of two has a head and a tail.
- `OctoPrintUsage`: with one slot a change of its spool in the middle of a print puts
  two spools into one print's reports; two units go to a report and the one after it;
  two changes are an unpairing and a pairing, a spool and back, a revocation and a
  pairing, a connector that loses its configuration and gets it back, a spool deleted
  while another is put in, or a worker that ends twice.
- `AmsJournal`: a ring of three holds a first, a middle and a last record, and five
  records write over two of them; the code's ring has 32 slots, a number that enters
  nowhere but in `slot_of` and the retention arithmetic.

The runs without `CHECK_DEADLOCK` (the bounds stop the printer and the system may
then rest) say so; `usage_authority` has no bound, and its system never rests.  A deadlock in
the database is not a deadlock of the model, where the clock and the rollback go on:
`NoUsageDeadlock` states it of the rows that are waited for.

**Fairness.**  In `UsageDelivery` the worker loop retries for ever
(`node._worker` catches every error, waits and runs the next cycle) and the
container is restarted by its supervisor: weak fairness of `Capture`, `Send`,
`ReceiveRefusal` and `Restart`.  Strong fairness of `Serve` and `ReceiveAck` says
that the network and the cloud recover: a request sent over and over is served
and answered in time at some point.  Without it nothing can be delivered.
`Delivered` is stated with saves that work; see the last paragraph of this
section.  In `UsageHandover` a helper goes on with its cycles, and one that gets through
(reaches the cloud, has a valid token and no observation that is refused) sends its
heartbeat and its queue in them; nothing is assumed of an Edge whose observations are
refused, and `SecondDrains` says nothing of it.  In `OctoPrintUsage` a worker whose thread
is alive sends whatever is to be sent (weak fairness of `WorkerSends`), and not every
request or answer of a report is lost (strong fairness of `Serve` and `Receive`).
`_worker_loop` has no handler: an error of the save or of the message to the user
interface at the end of `_sync_once` ends the thread, which is the action `WorkerEnds`, and
`QueueMoves` is about a worker that ends no more.  The saves of the outbox itself are taken
to work.  Nothing is assumed of users: no blocked report is retried unless somebody asks for it.

**Three findings** (`findings` in PROJECT.json).

1. `handover_drain`.  A comment in `record_printer_bridge_usage_batch` says that a
   second helper "is acknowledged, so its queue drains".  Segments acknowledged
   without deduction leave no event behind, and `process_printer_usage_event`
   expects a job's next segment to follow the recorded ones.  So a helper that
   may take the authority over in the middle of a print has its next segment refused,
   and its first-in first-out queue stands still.  In the run helper b takes the authority
   by reading the desired snapshot, the first segment of helper a is acknowledged, and then
   b, whose observation is refused, stops delivering and falls silent for good; a's second
   segment is refused for ever, although all of a's requests and observations get through.
   `SecondDrains` is what does hold: the queue of a helper that gets through drains while
   another one holds the authority and stays in contact.
2. `handover_twice`.  The docstring of `hold_usage_authority` says that two
   helpers "never deduct the same print twice".  In the run helper a deducts a
   segment, loses its connection and falls silent; the first segment of helper b, delivered
   after that, deducts the same filament under b's own job.  Both get through here, as
   clients do that send no observation; a second Edge is stopped by its observation (section
   2).  `OncePerTenure` is what does hold.
3. `bridge_pairing_new_code`.  The Edge README says that a new code "rotates the
   credential for the same printer binding without discarding queued evidence".  The
   code is a code of the printer's newest connector.  If that connector is another
   Edge's whose link is revoked, `_connector_for_source` hands it over although the
   pairing Edge has a connector already; the unique index of sources refuses the
   write, and the same happens at every retry.  `_ensure_paired` comes first in a
   cycle, so the Edge neither uploads nor captures until the code is taken out of
   its options, or the other Edge is paired again and a further code issued.

**Queues that stand still.**  `HeadTaken` of `BridgePairing` speaks of an Edge whose link stands on
the connector it was first given.  Elsewhere it fails: an Edge whose connector was
given to another one while its own link was revoked is paired on a third one, where its
sequence is out of order or its queued routes are foreign; the batch is refused each
time, and `reset_connection` is blocked by the outbox.  `HeadTaken` of `OctoPrintUsage` names
what has to stand for a report to be taken: a valid token, a connector with its material
system and its grant, the spools of the report, and a job the owner has not closed by hand.
Where one of them is missing the report is refused and stays blocked in front of the queue
until the user asks for it again, and so it does after an answer that is no
acknowledgement.  A deleted spool and a closed job do not come back.  For a second Edge of
one printer see `UsageHandover` in section 2: its queue stands still behind its observation.
The documents promise nothing else, so these are conditions of the properties and not
findings.

**Pages of the journal.**  A record overwritten between two lines of a page is skipped
without a gap of its own; `PageExact` says that nothing else is.  It takes a commit in
the moment the page is read.

**Saves that fail.**  `LedgerInOrder`, `EvidenceConserved` and `DiskLoads` hold
whatever is not saved.  `HeadNeverRefused` does not: when the save after a capture
fails, the batch is delivered from memory, and the process then dies, the restarted
process re-uses the sequence with another payload and is refused
(`BATCH_CONFLICT`) from then on.  The code's comments do not promise otherwise, so
this is a condition of the run and not a finding.

## 4. What is proved

Theorems are in modules of their own, which extend the modules they are about.  They hold for every value of the constants: any number of helpers, spools,
slots, prints, crashes and failing saves, any queue limit and any bound.

| theorem | states |
| --- | --- |
| **`UsageDeliveryProofs`** | |
| `TypeCorrect`, `FileLoads` | `TypeOK`, `DiskLoads`: types, the outbox limit in memory and file, the checks of `StateStore.load` |
| `ChargedInOrder` | `LedgerInOrder` |
| `EvidenceKept` | `EvidenceConserved` |
| `HeadTaken` | `HeadNeverRefused`, where saves work (`SaveCanFail = FALSE`) |
| `Implements` | `ImplementsLedger`: every step is a step of `UsageLedger` or a stutter |
| **`EdgeUsageProofs`** | |
| `TypeCorrect` | `TypeOK` |
| `NobodyOvercharged` | `NeverOvercharged` |
| `SegmentsAreInOrder` | `SegmentsInOrder` |
| `SteadyPrintIsCharged` | `SteadyPrintCharged` |
| `PendingIsKept` | the action property `EvidenceKept` |
| **`UsageAuthorityProofs`** | |
| `TypeCorrect` | `TypeOK` |
| `OneHolds`, `OneDeducts` | `OneHolder`, `OneApplies` |
| `UsageNeverDeadlocks` | `NoUsageDeadlock`: usage transactions never wait for each other in a circle |
| `Implements` | `ImplementsRule`: every statement is a step of `UsageAuthorityRule` or a stutter |
| `HandoverTypeCorrect` | `HandoverTypeOK` of `UsageHandover` |
| `DeductedOncePerTenure` | `OncePerTenure` |
| `JobsHaveNoGap` | the action property `NoGapInJob` |
| `HandoverFollowsRule` | `FollowsRule`: every step of `UsageHandover` is a step of `UsageAuthorityRule` or a stutter |
| **`SpoolBalanceProofs`** | |
| `TypeCorrect` | `TypeOK`: in particular the used weight never falls below zero |
| `BalanceIsExact` | `BalanceExact` |
| `HistoryAddsUp`, `EmptyIsEmpty` | `LedgerAdds`, `EmptyHoldsNothing` |
| `JobsKeepTheirFact` | `JobFact`, of histories without capped reports and reverted reversals |
| **`BridgePairingProofs`** | |
| `TypeCorrect` | `TypeOK` |
| `EvidenceIsKept` | `EvidenceKept` |
| `HeadIsTaken` | `HeadTaken` |
| `NobodyEvicted` | the action property `PairingEvictsNobody` |
| **`OctoPrintUsageProofs`** | |
| `TypeCorrect` | `TypeOK` |
| `FilamentIsAccounted` | `FilamentAccounted` |
| `HeadIsTaken` | `HeadTaken`: with a valid token, a ready connector, no spool deleted and the job not closed by hand |
| `ClosedJobsStay` | the action property `ClosedStays` |
| **`AmsJournalProofs`** | |
| `TypeCorrect` | `TypeOK` |
| `RingKeepsHistory` | `HistoryKept` |
| `StatesAreCounted` | `AllStatesCounted` |
| `PagesAreExact` | `PageExact` |

**Assumptions.**  All are named and stand in the module that declares the constants.
They say that bounds are naturals and that a null value is none of the values it stands
beside (`NoCallAssumption`, `NoTrackerAssumption`, `NoneAssumption`,
`NoSegmentAssumption`, `NamesAssumption`).  Beyond that, `BoundsAssumption` of
`OctoPrintUsage` has finite sets of slots and spools, that of `AmsJournal` a ring of at least two
slots (the code's has 32; in a ring of one a record is erased while its successor is
written), that of `SpoolBalance` rates of flow above zero, that of `BridgePairing` room for
the connector the first code creates.

**Why each invariant is what it is.**  Hardly any of these properties is inductive.

- `UsageDelivery`.  That a deduction continues the ledger depends on what is in the
  request, hence on the queue it was taken from, hence on the file a queue may have been
  loaded from.  `IInv` says that there is one chain: the receipts are numbered 1, 2, 3,
  ... and each starts where the one before ends (`ReceiptsChained`), every deduction has
  its receipt (`LedgerHasReceipts`), the queue in memory and the queue in the file both
  continue this chain from where their last acknowledged batch ends to their own mark
  (`QueueChained`), the request that is out is the head of the queue, with its receipt
  once it is acknowledged (`CallIsHead`), and each late request continues the chain at
  its own place (`Continues`).  The two queues may hold different batches under one
  sequence, after a failed save and a crash, and so may a late request: the invariant
  asks each to fit the receipts and not one another.  Where saves work, the second
  invariant `NoFork` adds that no sequence is given to two batches; only this makes the
  head of the queue acceptable.  `EvidenceConserved` follows from the chain: intervals
  that follow each other cover every unit between their ends (`ChainCovers`).
- `EdgeUsage`.  Edge has two states, one in memory and one in the file that a restart
  brings back, and the invariant (`Sound`) holds of both against the printer as it is now.
  A route's charges, with what is pending, do not exceed what it fed, also if the next
  sample charges all the counter has advanced (`Covered`).  This survives a change of
  the feed because the feed cannot have come back to the tracker's route unseen
  (`Unbroken`), and a new print because its counter starts at zero: once it is above the
  tracker's, the print has fed the difference.  A tracker that is given up for another
  file or a lower counter belongs to a print that is over (`Traces`).  `Continues` ties the tracker's next segment to the log,
  `Full` counts a steady print in full, and `Keeps` compares memory with the file: what
  the file has pending, memory has pending or has turned into an event after the file's
  last one, or the print is over.  It is this that makes `PendingIsKept` a fact about
  the save, however many samples lie between two saves.
- `UsageAuthority`.  `IInv` says what a transaction's program counter implies about the
  two rows it keeps locked (`OwnRowKept`, `PredecessorKept`), and that a flushed claim is
  alone (`ClaimAlone`).  For the absence of deadlocks a second invariant adds whose row locks
  there are (`RowsHeld`) and that no transactions have found, in a circle, each the next one's connector to
  be the holder (`NoCircle`): one that waits has locked its own row only, so a deadlock
  would be such a circle.  The refinement maps the holder to the connector whose claim is
  committed.
- `UsageHandover`.  How often unit n was deducted is bounded by the helpers that may have
  had it deducted (`Deductors`), these by the helpers that show to have held the
  authority (`Held`), and these by the tenures.  `QueuesChained` says how far a helper's
  queue has been consumed.  `FollowsRule` needs no invariant: that the requests of
  `UsageHandover` and the transactions of `UsageAuthority` refine one rule is what allows
  a request to be one step in the former.
- `SpoolBalance`.  The balance is exact only if the reports that are under way are
  truthful, follow each other without gap from what the spool's history knows of, and are
  divided by a weighing in the proportion of what was fed.  `Truthful`, `Contiguous` and
  `Consistent` say this of the queue, of its joint with the history, and of the records.
- `BridgePairing`.  An Edge's queue, its token and the cloud's receipts may each name
  another connector.  A code is held by one connector and every pairing spends one
  (`CodesOnce`), so that credentials stay within the bound; a token that matches its
  connector's credential was made for it (`TokenMade`), and `PairingEvictsNobody` follows
  from that.  The queue holds the last batches captured, and a receipt
  lies before it or is its head's, on the connector of the head's route (`QueueCounted`,
  `Placed`): so a batch whose acknowledgement was lost is recorded a second time neither
  on the same connector, by its sequence, nor on another, by its route (`RecordedOnce`,
  `NoneForgotten`).  For the head to be the batch the cloud expects, the connector must
  have seen all of this identity: either the identity has known no connector but the first
  one (`AtHome`), or it has moved on to a later one and no code it may still use leads back
  (`Gone`).  This is inductive only because a new code is given to the newest connector,
  and because a later identity is unknown to every connector (`FutureUnknown`).
- `OctoPrintUsage`.  A report is a fact once it is made: `FactsAgree` identifies it
  by job and sequence, `NoneMissing` and `RecordedInOrder` say that the queue and the
  cloud together have a print's reports from the first to the last and the cloud a
  prefix, `RecordedSealed` and `FlightQueued` that what has been sent takes no more
  additions.  `JobsFollow` ties a closed job to its owner or to a recorded report.  Only
  with all of these is the merging of reports harmless and the head of the queue the one
  the cloud expects.
- `AmsJournal`.  `SlotsHoldLatest` and `LatestKept` say which slot holds which record, up
  to the one slot a write under way may have spoilt; `ReadyKnows` that an open journal
  knows it.  The arithmetic of the ring (`Divided` and the lemmas after it) is proved for
  every number of slots from two on.

`Induction.tla` has the facts the proofs need about finite data.  The library's
induction theorems take an operator as a parameter, which the provers cannot
instantiate; the module starts from the well-foundedness of `<` on the naturals instead,
which can be used with sets: a set of naturals that is not empty has a least element.
From there it proves what the community modules' sums (folds over a set in an order that
CHOOSE picks) make of finite sets: the order does not matter, and a sum changes by what
one element changes.

**Only model-checked.**

- Liveness: `Delivered`, `SecondDrains`, `QueueMoves`.  Liveness under
  fairness, and ENABLED, are beyond the prover.
- The three properties of the findings, which are violated.

No module uses a RECURSIVE operator.

## 5. Not modelled

The components marked `not_modelled` in PROJECT.json, each with its reason: parsing
and rendering (providers' topologies, G-code, labels, e-mail), data mapping
(catalogue, presets, imports), the user interface, and what the plan below has not
reached.  Wire formats, credentials, rate limits and logging are left out of the
modelled parts.

## 6. Plan

The order is that of the promise: delivery and its ledger, the capture and the
authority, the balance, pairing, the second reporting client and the firmware's history
are done, and every safety and action property of theirs is proved.  What is left:

1. *What else moves a balance.*  `SpoolmanDeltas` (replay windows) and estimated
   consumption in `SpoolBalance`.
2. *Small protocols*, none of which touches the state modelled here.  `RefreshSession` (two
   tabs refresh at once, an answer is lost, a delayed retry of the older token),
   `OAuthHandoff` (the five-second lock expires while its holder is at work),
   `SpoolReservations` (two orders that each hold a spool and ask for the other's),
   `WeightedRefresh` (a preset changes while a worker rebuilds its aggregate).
3. *Composition.*  `BridgePairing` with `UsageDelivery`, for failing saves over two
   identities of a connection.
