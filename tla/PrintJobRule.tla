----------------------------- MODULE PrintJobRule -----------------------------
(***************************************************************************)
(* What the cloud makes of one print job when its owner and the job's       *)
(* provider move it (print_job_service.py).  Either operation locks the     *)
(* job's row, so each is one step.                                          *)
(*                                                                         *)
(* A job is NoJob, or its status with the payload of the provider's         *)
(* terminal event, which is what source_payload_hash identifies.            *)
(***************************************************************************)
CONSTANTS NoJob, NoPayload

Terminal == {"completed", "cancelled", "failed"}

Status == {"prepared", "sent", "printing", "paused"} \union Terminal

\* ALLOWED_TRANSITIONS
Allowed(status) ==
    CASE status = "prepared" -> {"sent", "printing", "cancelled", "failed"}
      [] status = "sent" -> {"printing", "cancelled", "failed"}
      [] status = "printing" -> {"paused"} \union Terminal
      [] status = "paused" -> {"printing"} \union Terminal
      [] status \in Terminal -> {}

\* transition_print_job.  A repeated request with the same idempotency key finds its
\* event and changes nothing.
UserMay(job, status) == job # NoJob /\ status \in Allowed(job.status)

UserMoves(job, status) == [job EXCEPT !.status = status]

\* Slip: a job that has ended takes further checkpoints.
ProviderVerdictReopens(job, status, payload) ==
    IF job = NoJob \/ status = job.status \/ status \in Allowed(job.status) \/ status \notin Terminal
    THEN "applied" ELSE "conflict"

\* ensure_provider_job_event: what it does with an event of this status and payload.
\* "replay" is a terminal event the job already had: accepted, and nothing is deducted.
ProviderVerdict(job, status, payload) ==
    CASE job = NoJob -> "applied"
      [] job # NoJob /\ job.status \in Terminal ->
            IF job.status = status /\ job.payload = payload THEN "replay" ELSE "conflict"
      [] OTHER ->
            IF status = job.status \/ status \in Allowed(job.status) THEN "applied" ELSE "conflict"

ProviderMoves(job, status, payload) ==
    [status |-> status, payload |-> IF status \in Terminal THEN payload ELSE NoPayload]
=============================================================================
