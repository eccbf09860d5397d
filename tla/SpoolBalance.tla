----------------------------- MODULE SpoolBalance -----------------------------
(***************************************************************************)
(* The balance of one spool in the cloud: what printer reports, weighings,  *)
(* edits, manual write-offs and reversals make of used_weight_g             *)
(* (printer_usage_service.py, spool_usage_service.py, spool_service.py).    *)
(*                                                                         *)
(* Reports arrive in their order, each once (module UsageDelivery), but any *)
(* time after they were made: the owner may have weighed the spool before,  *)
(* within or after the segment a report covers.  Every operation locks the  *)
(* spool's row for the length of its transaction and is one step here.      *)
(*                                                                         *)
(* Weights are numbers of units, moments are ticks of one clock, which Edge *)
(* and the cloud share.                                                     *)
(***************************************************************************)
EXTENDS Integers, Sequences, FiniteSetsExt, Functions

CONSTANTS
    Net,         \* filament on the spool when it is added
    Label,       \* initial_weight_g it is added with
    Labels,      \* the values the owner may correct it to
    Openings,    \* the used weights the owner may give a spool that is added
    Statements,  \* the used weights the owner may state
    Rates,       \* filament per tick while a print runs
    NoSegment,   \* no print is on
    MaxTime,     \* bound: ticks
    MaxJobs,     \* bound: print jobs
    MaxRecords   \* bound: records of the spool's history

ASSUME BoundsAssumption ==
    /\ Net \in Nat /\ Label \in Nat /\ Labels \subseteq Nat /\ Statements \subseteq Nat
    /\ Openings \subseteq Nat /\ \A weight \in Openings : weight < Label
    /\ Rates \subseteq Nat \ {0}
    /\ MaxTime \in Nat \ {0} /\ MaxJobs \in Nat /\ MaxRecords \in Nat

ASSUME NoSegmentAssumption == NoSegment \notin [job : Nat, start : Nat, even : BOOLEAN]

VARIABLES
    \* The printer and Edge.
    now,        \* the clock
    fed,        \* filament the printer has fed, at each moment
    flow,       \* filament it feeds in the present tick
    job,        \* the latest print job
    open,       \* the segment being printed, or NoSegment
    queue,      \* reports under way to the cloud
    \* The cloud.
    label,      \* initial_weight_g
    used,       \* used_weight_g
    empty,      \* the spool's state is `empty'
    records,    \* the spool's PresetUsageEvents, oldest first
    \* History variables, from when the spool is added.
    gone,       \* what has really left the spool other than through the printer
    base,       \* by how much the last statement of the amount set `used' off from it
    doubt       \* since then something happened the balance cannot know

printer == <<now, fed, flow, job, open>>
spool == <<label, used, empty, records>>
vars == <<printer, queue, spool, gone, base, doubt>>

Times == 1..MaxTime

Unknown == 0     \* no moment: the clock starts at 1

Segment == [job : Nat, start : Times, even : BOOLEAN]

\* `even': the filament of the segment was fed at a constant rate.
Report ==
    [job : Nat, started : Times, start : Times, end : Times, weight : Nat,
     timed : BOOLEAN, even : BOOLEAN]

Accountings ==
    {"none", "needs_reconciliation", "already_in_balance", "prorated_after_balance",
     "reconciled_by_measurement"}

\* What is no longer on the spool.
Spent == fed[now] + gone

-----------------------------------------------------------------------------
(* The history of the spool. *)

Record ==
    [type : {"printer_report", "manual_adjust", "reconcile_adjust"},
     delta : Int, reported : Nat, accounting : Accountings, reverted : BOOLEAN,
     boundary : Times \union {Unknown},    \* balance_observed_at of a weighing
     observed : Times \union {Unknown},    \* observed_at of a report, if the source gave it
     job : Nat,                            \* print_job_id, 0 for none
     reverts : Nat]                        \* reverts_event_id, 0 for none

Adjustment(type, delta, boundary) ==
    [type |-> type, delta |-> delta, reported |-> 0, accounting |-> "none",
     reverted |-> FALSE, boundary |-> boundary, observed |-> Unknown, job |-> 0,
     reverts |-> 0]

\* record_spool_usage: a weighing settles the reports that were waiting for one.
Recorded(history, record) ==
    LET Settled(r) ==
            IF record.boundary # Unknown /\ r.accounting = "needs_reconciliation"
               THEN [r EXCEPT !.accounting = "reconciled_by_measurement"] ELSE r
    IN Append([i \in DOMAIN history |-> Settled(history[i])], record)

\* latest_spool_balance_observation, of all weighings, reverted ones included.
Boundary == Max({Unknown} \union {records[i].boundary : i \in DOMAIN records})

-----------------------------------------------------------------------------
\* stage_new_spool: filament taken off it before it is added is an opening balance, which
\* counts as a weighing.
Init ==
    /\ now = 1 /\ fed = [t \in Times |-> 0]
    /\ flow = 0 /\ job = [number |-> 0, started |-> 1] /\ open = NoSegment
    /\ queue = <<>>
    /\ label = Label /\ used \in Openings /\ empty = FALSE
    /\ records = IF used = 0 THEN <<>>
                 ELSE Recorded(<<>>, Adjustment("reconcile_adjust", used, now))
    /\ gone = 0 /\ base = used /\ doubt = FALSE

-----------------------------------------------------------------------------
(* The printer and its reports. *)

Tick ==
    /\ now < MaxTime /\ Spent + flow <= Net
    /\ now' = now + 1
    /\ fed' = [t \in Times |-> IF t > now THEN fed[now] + flow ELSE fed[t]]
    /\ UNCHANGED <<flow, job, open, queue, spool, gone, base, doubt>>

StartJob ==
    /\ open = NoSegment /\ job.number < MaxJobs
    /\ flow' \in Rates
    /\ job' = [number |-> job.number + 1, started |-> now]
    /\ open' = [job |-> job.number + 1, start |-> now, even |-> TRUE]
    /\ UNCHANGED <<now, fed, queue, spool, gone, base, doubt>>

\* The print pauses, goes on, or changes its speed.
ChangeFlow ==
    /\ open # NoSegment
    /\ flow' \in (Rates \union {0}) \ {flow}
    /\ open' = [open EXCEPT !.even = @ /\ open.start = now]
    /\ UNCHANGED <<now, fed, job, queue, spool, gone, base, doubt>>

\* A checkpoint of the filament fed since the one before.  The source need not say
\* when it was made (observed_at).
Capture ==
    /\ open # NoSegment /\ fed[now] > fed[open.start]
    /\ \E timed \in BOOLEAN :
          queue' = Append(queue, [job |-> open.job, started |-> job.started,
                                  start |-> open.start, end |-> now,
                                  weight |-> fed[now] - fed[open.start],
                                  timed |-> timed, even |-> open.even])
    /\ open' = [open EXCEPT !.start = now, !.even = TRUE]
    /\ UNCHANGED <<now, fed, flow, job, spool, gone, base, doubt>>

EndJob ==
    /\ open # NoSegment /\ fed[now] = fed[open.start]
    /\ open' = NoSegment
    /\ flow' = 0
    /\ UNCHANGED <<now, fed, job, queue, spool, gone, base, doubt>>

-----------------------------------------------------------------------------
(* process_printer_usage_event, from the spool on. *)

JobReports(j) == {i \in DOMAIN records : records[i].type = "printer_report" /\ records[i].job = j}

\* Slip: a start that is a guess is used as if it was known.
SegmentStart_Guess(report) ==
    LET earlier == JobReports(report.job)
        previous == records[Max(earlier)].observed
    IN IF earlier = {} THEN [at |-> report.started, known |-> TRUE]
       ELSE IF previous # Unknown THEN [at |-> previous, known |-> TRUE]
       ELSE [at |-> report.started, known |-> TRUE]

\* A segment starts where the job's previous one was observed; where the source did
\* not say, the start of the job stands in, which is a guess.
SegmentStart(report) ==
    LET earlier == JobReports(report.job)
        previous == records[Max(earlier)].observed
    IN IF earlier = {} THEN [at |-> report.started, known |-> TRUE]
       ELSE IF previous # Unknown THEN [at |-> previous, known |-> TRUE]
       ELSE [at |-> report.started, known |-> FALSE]

Accounting(report) ==
    LET start == SegmentStart(report)
    IN IF Boundary = Unknown THEN "none"
       ELSE IF ~report.timed THEN "needs_reconciliation"
       ELSE IF report.end <= Boundary THEN "already_in_balance"
       ELSE IF start.at >= Boundary THEN "none"
       ELSE IF start.known THEN "prorated_after_balance" ELSE "needs_reconciliation"

\* What the balance still lacks of a report.
Due(report) ==
    CASE Accounting(report) = "none" -> report.weight
      [] Accounting(report) = "prorated_after_balance" ->
            (report.weight * (report.end - Boundary)) \div (report.end - SegmentStart(report).at)
      [] OTHER -> 0

\* Slip: what the spool still holds is not looked at.
Available_Label == label

Available == IF used < label THEN label - used ELSE 0

Consumed(report) == Min({Due(report), Available})

\* A deduction leaves the spool empty when nothing remains.
Deduct(weight) ==
    /\ used' = used + weight
    /\ empty' = (empty \/ used' >= label)
    /\ UNCHANGED label

Charge ==
    LET report == Head(queue)
        accounting == Accounting(report)
    IN /\ queue # <<>> /\ Len(records) < MaxRecords
       /\ queue' = Tail(queue)
       /\ Deduct(Consumed(report))
       /\ records' = Recorded(records,
             [Adjustment("printer_report", Consumed(report), Unknown) EXCEPT
                !.reported = report.weight, !.accounting = accounting, !.job = report.job,
                !.observed = IF report.timed THEN report.end ELSE Unknown])
       /\ doubt' = (\/ doubt
                    \/ accounting = "needs_reconciliation"
                    \/ accounting = "prorated_after_balance" /\ ~report.even
                    \/ Consumed(report) < Due(report))
       /\ UNCHANGED <<printer, gone, base>>

-----------------------------------------------------------------------------
(* The owner. *)

\* A statement of what is on the spool now, which brings an empty one back.
SetUsed(weight) ==
    /\ used' = weight
    /\ empty' = (weight >= label)
    /\ UNCHANGED label

\* measure_spool: the spool is put on the scale.
Measure ==
    LET remaining == Net - Spent
    IN /\ Len(records) < MaxRecords
       /\ remaining <= label
       /\ SetUsed(Min({label, Max({label - remaining, 0})}))
       /\ records' = Recorded(records, Adjustment("reconcile_adjust", used' - used, now))
       /\ base' = used' - Spent
       /\ doubt' = FALSE
       /\ UNCHANGED <<printer, queue, gone>>

\* update_spool with used_weight_g: the owner states the amount, rightly or wrongly.
StateUsed ==
    /\ Len(records) < MaxRecords
    /\ \E weight \in Statements :
          /\ weight <= label
          /\ SetUsed(weight)
          /\ records' = Recorded(records, Adjustment("manual_adjust", weight - used, now))
    /\ base' = used' - Spent
    /\ doubt' = FALSE
    /\ UNCHANGED <<printer, queue, gone>>

\* Slip: an empty spool keeps its used weight when its label is corrected.
EditLabel_Kept ==
    /\ Len(records) < MaxRecords
    /\ \E weight \in Labels \ {label} :
          /\ used <= weight
          /\ label' = weight
          /\ used' = used
          /\ empty' = (empty \/ used' >= label')
          /\ records' = Recorded(records, Adjustment("manual_adjust", used' - used, Unknown))
    /\ UNCHANGED <<printer, queue, gone, base, doubt>>

\* update_spool with initial_weight_g only: no statement about what is left.  An empty
\* spool stays empty.
EditLabel ==
    /\ Len(records) < MaxRecords
    /\ \E weight \in Labels \ {label} :
          /\ used <= weight
          /\ label' = weight
          /\ used' = IF empty THEN weight ELSE used
          /\ empty' = (empty \/ used' >= label')
          /\ records' = Recorded(records, Adjustment("manual_adjust", used' - used, Unknown))
          /\ doubt' = (doubt \/ used' # used)
    /\ UNCHANGED <<printer, queue, gone, base>>

\* use_spool: a unit is cut off and written off.
WriteOff ==
    /\ Len(records) < MaxRecords
    /\ Deduct(Min({1, Available}))
    /\ records' = Recorded(records, Adjustment("manual_adjust", used' - used, Unknown))
    /\ Spent < Net
    /\ gone' = gone + 1
    /\ doubt' = (doubt \/ Available = 0)
    /\ UNCHANGED <<printer, queue, base>>

\* Slip: what has been taken off since is not looked at.
Revertible_NoFloor(i) ==
    /\ records[i].type # "reconcile_adjust"
    /\ ~records[i].reverted
    /\ used - records[i].delta <= label

Revertible(i) ==
    /\ records[i].type # "reconcile_adjust"
    /\ ~records[i].reverted
    /\ used - records[i].delta \in 0..label

\* Slip: the record is not marked, and can be reverted again.
Mark_Not(i) == records

Mark(i) == [records EXCEPT ![i].reverted = TRUE]

\* revert_spool_usage.  The reversal of a stated amount counts as a weighing, that of
\* a printer report does not.
Revert ==
    /\ Len(records) < MaxRecords
    /\ \E i \in DOMAIN records :
          LET record == records[i]
              weighing == record.type = "manual_adjust" /\ record.boundary # Unknown
          IN /\ Revertible(i)
             /\ used' = used - record.delta
             /\ empty' = (empty /\ used' >= label)
             /\ records' = Recorded(Mark(i),
                   [Adjustment("manual_adjust", 0 - record.delta,
                               IF weighing THEN now ELSE Unknown) EXCEPT
                      !.job = record.job, !.reverts = i])
             /\ base' = IF weighing THEN used' - Spent ELSE base - record.delta
             /\ doubt' = (doubt /\ ~weighing)
    /\ UNCHANGED <<printer, queue, label, gone>>

-----------------------------------------------------------------------------
Next ==
    \/ Tick \/ StartJob \/ ChangeFlow \/ Capture \/ EndJob
    \/ Charge
    \/ Measure \/ StateUsed \/ EditLabel \/ WriteOff \/ Revert

Spec == Init /\ [][Next]_vars

-----------------------------------------------------------------------------
(* Properties. *)

\* The values of the variables.
TypeOK ==
    /\ now \in Times /\ fed \in [Times -> Nat]
    /\ flow \in Rates \union {0}
    /\ job \in [number : 0..MaxJobs, started : Times]
    /\ open \in Segment \union {NoSegment}
    /\ queue \in Seq(Report)
    /\ label \in Labels \union {Label} /\ used \in Nat /\ empty \in BOOLEAN
    /\ records \in Seq(Record)
    /\ gone \in Nat /\ base \in Int /\ doubt \in BOOLEAN

\* What was fed from one moment to another, as far as no weighing covers it.
Uncovered(start, end) ==
    IF end <= Boundary THEN 0 ELSE fed[end] - fed[Max({start, Boundary})]

\* What the balance still has to learn from the printer.
Outstanding ==
    SumFunction([i \in DOMAIN queue |-> Uncovered(queue[i].start, queue[i].end)])
        + (IF open = NoSegment THEN 0 ELSE Uncovered(open.start, now))

\* From one statement of the amount to the next the balance takes what left the spool,
\* less what is still under way: no unit is taken twice and none is forgotten, however
\* reports, weighings, label edits, write-offs and reversals interleave (the comments in
\* process_printer_usage_event).  What the code cannot know stands in `doubt' until the
\* next statement: a report without a time, uneven flow across a weighing, more than the
\* label allows, the label of a spool taken for empty.
BalanceExact == ~doubt => used + Outstanding = Spent + base

\* The balance is the sum of its history and never more than the spool held.
LedgerAdds ==
    /\ used = SumFunction([i \in DOMAIN records |-> records[i].delta])
    /\ used <= label

\* An empty spool holds nothing.
EmptyHoldsNothing == empty => used = label

\* confirmed_event_weight.
Confirmed(r) ==
    IF ~r.reverted /\ r.accounting \in
          {"already_in_balance", "prorated_after_balance", "reconciled_by_measurement"}
       THEN r.reported ELSE r.delta

\* unreconciled_consumption_g of a job, by record.
Unreconciled(r) ==
    IF r.accounting = "needs_reconciliation" /\ ~r.reverted THEN r.reported ELSE 0

\* What a record of a job stands for; of a report that was reverted, what it said.
Stands(r) ==
    IF r.job = 0 THEN 0
    ELSE Confirmed(r) + Unreconciled(r) + (IF r.reverted THEN r.reported ELSE 0)

Capped(r) == r.type = "printer_report" /\ r.accounting = "none" /\ r.delta < r.reported

\* What the print jobs are said to have consumed is what was printed: a weighing never
\* takes it away (the docstring of confirmed_event_weight), and a reversal takes away what
\* its report said and no more.  It is said of histories in which no report was capped at
\* what the label leaves, which loses the rest, and no reversal was itself reverted, after
\* which a report counts again or not, as a weighing had covered it or not.
JobFact ==
    (\A i \in DOMAIN records :
        ~Capped(records[i]) /\ (records[i].reverts # 0 => ~records[i].reverted)) =>
    SumFunction([i \in DOMAIN records |-> Stands(records[i])])
        + SumFunction([i \in DOMAIN queue |-> queue[i].weight])
        + (IF open = NoSegment THEN 0 ELSE fed[now] - fed[open.start])
    = fed[now]
=============================================================================
