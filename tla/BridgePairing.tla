----------------------------- MODULE BridgePairing -----------------------------
(***************************************************************************)
(* The link between Edges and one physical printer in the cloud: pairing    *)
(* codes, the connector each Edge is given, revocation by the owner and by  *)
(* the device, an explicit reset, and what these make of the usage evidence *)
(* Edge has queued (printer_bridge_service.py, runtime.py).                 *)
(*                                                                         *)
(* A request to the cloud is one transaction and one step; its answer may   *)
(* be lost.  Edge saves its state with each step that changes it, so a      *)
(* restart finds what the step left.  The two steps a crash can separate,   *)
(* the cloud's commit and Edge's save, are separated here.                  *)
(*                                                                         *)
(* Every Edge has a node identity of its own and all are paired to the same *)
(* material system.  `active' and `revoked_at' follow the token: they are   *)
(* set and cleared together with it.                                        *)
(***************************************************************************)
EXTENDS Naturals, Sequences, FiniteSets, FiniteSetsExt, Functions

CONSTANTS
    Edges,          \* the Edge connections, each on a host (node) of its own
    None,           \* no connector, no code, no token, no source, no node
    MaxConnectors,  \* bound: connectors of the printer
    MaxCodes,       \* bound: pairing codes the owner issues
    MaxLives,       \* bound: identities of one Edge connection (resets + 1)
    MaxBatches,     \* bound: batches one Edge captures
    MaxOutbox       \* bound: batches queued at once (a cycle uploads up to 4)

ASSUME BoundsAssumption ==
    /\ MaxConnectors \in Nat \ {0} /\ MaxCodes \in Nat /\ MaxBatches \in Nat
    /\ MaxLives \in Nat \ {0} /\ MaxOutbox \in 1..4

VARIABLES
    edge,      \* the durable state of each Edge connection
    links,     \* the printer's connectors with their credentials, oldest first
    receipts,  \* the usage batches recorded on each connector
    issued,    \* how many codes the owner has issued
    captured,  \* history: how many batches each Edge has captured
    home       \* history: the connector each identity was first paired on

vars == <<edge, links, receipts, issued, captured, home>>

Connectors == 1..MaxConnectors
Codes == 1..MaxCodes
Lives == 1..MaxLives
Instance == Edges \X Lives
Unit == 1..MaxBatches

\* `route' is the connector whose desired snapshot proved the route of the batch.
Batch == [sequence : Unit, unit : Unit, route : Connectors]
Receipt == [source : Instance, sequence : Unit, unit : Unit]
Token == [connector : Connectors, generation : Codes]

ASSUME NoneAssumption ==
    /\ None \notin Nat /\ None \notin Edges
    /\ None \notin Instance /\ None \notin Token

\* `code' is the configured pairing code, `digest' the one last paired with,
\* `desired' the connector whose desired snapshot is cached.
EdgeState ==
    [life : Lives, token : Token \union {None},
     code : Codes \union {None}, digest : Codes \union {None},
     desired : Connectors \union {None},
     sequence : 0..MaxBatches, outbox : UNION {[1..n -> Batch] : n \in 0..MaxOutbox}]

\* A connector and its credential.
Link ==
    [source : Instance \union {None}, node : Edges \union {None},
     paired : BOOLEAN, code : Codes \union {None}, generation : 0..MaxCodes]

Init ==
    /\ edge = [e \in Edges |->
                  [life |-> 1, token |-> None, code |-> None, digest |-> None,
                   desired |-> None, sequence |-> 0, outbox |-> <<>>]]
    /\ links = <<>>
    /\ receipts = [c \in Connectors |-> {}]
    /\ issued = 0
    /\ captured = [e \in Edges |-> 0]
    /\ home = [i \in Instance |-> None]

-----------------------------------------------------------------------------
(* The owner. *)

NewLink(source) ==
    [source |-> source, node |-> None, paired |-> FALSE, code |-> None, generation |-> 0]

Revoked(link) == [link EXCEPT !.paired = FALSE, !.code = None]

\* issue_printer_bridge_pairing_code: the code belongs to the newest connector, the
\* first one made if there is none.  The owner puts it into the options of Edge e.
IssueCode(e) ==
    /\ issued < MaxCodes
    /\ issued' = issued + 1
    /\ LET present == IF links = <<>> THEN <<NewLink(None)>> ELSE links
       IN  links' = [present EXCEPT ![Len(present)].code = issued + 1]
    /\ edge' = [edge EXCEPT ![e].code = issued + 1]
    /\ UNCHANGED <<receipts, captured, home>>

\* PAIRING_TTL is over.
ExpireCode(c) ==
    /\ c \in DOMAIN links /\ links[c].code # None
    /\ links' = [links EXCEPT ![c].code = None]
    /\ UNCHANGED <<edge, receipts, issued, captured, home>>

\* revoke_connector_for_user, and revoke_printer_bridge_for_user for the newest.
RevokeByOwner(c) ==
    /\ c \in DOMAIN links
    /\ links' = [links EXCEPT ![c] = Revoked(@)]
    /\ UNCHANGED <<edge, receipts, issued, captured, home>>

-----------------------------------------------------------------------------
(* Pairing. *)

InstanceOf(e) == <<e, edge[e].life>>

\* _new_pairing_code_available
NewCode(e) == edge[e].code # None /\ edge[e].code # edge[e].digest

\* The connector whose credential holds the code Edge e is configured with.
CodeLink(e) == {c \in DOMAIN links : links[c].code # None /\ links[c].code = edge[e].code}

\* Slip: only a link whose node is unknown counts.
PairedElsewhereUnknown(c, e) ==
    /\ links[c].paired
    /\ links[c].source \notin {None, InstanceOf(e)}
    /\ links[c].node = None

\* Another Edge has a working link on connector c.
PairedElsewhere(c, e) ==
    /\ links[c].paired
    /\ links[c].source \notin {None, InstanceOf(e)}
    /\ links[c].node # e

\* _connector_for_source: the connector the pairing of Edge e with c's code ends on.
Target(c, e) ==
    LET siblings == {s \in DOMAIN links : links[s].source = InstanceOf(e)}
    IN  CASE ~PairedElsewhere(c, e) -> c
          [] PairedElsewhere(c, e) /\ siblings # {} -> Min(siblings)
          [] OTHER -> Len(links) + 1

\* uq_physical_printer_connector_source refuses a second connector of one source:
\* the transaction ends in an IntegrityError.
Clash(t, e) == \E s \in DOMAIN links \ {t} : links[s].source = InstanceOf(e)

\* A new token for Edge e: the ones before it are worthless.
WithCredential(link, e) ==
    [link EXCEPT !.paired = TRUE, !.code = None, !.node = e, !.source = InstanceOf(e),
                 !.generation = @ + 1]

\* Slip: the code is cleared where the pairing ends, not where it was issued.
PairedLinksCodeKept(c, t, e) ==
    LET present == IF t > Len(links) THEN Append(links, NewLink(InstanceOf(e))) ELSE links
    IN  [present EXCEPT ![t] = WithCredential(@, e)]

\* The links after a pairing of Edge e with the code of c that ended on t.
PairedLinks(c, t, e) ==
    LET present == IF t > Len(links) THEN Append(links, NewLink(InstanceOf(e))) ELSE links
        spent == [present EXCEPT ![c].code = None]
    IN  [spent EXCEPT ![t] = WithCredential(@, e)]

\* _ensure_paired and pair_printer_bridge.  With `lost' the cloud has committed and the
\* answer, or Edge before it saved, is lost.  A refused code (401), and a clash (500),
\* change nothing: Edge raises and tries again in the next cycle.
Pair(e) ==
    /\ NewCode(e) \/ (edge[e].token = None /\ edge[e].code # None)
    /\ \E c \in CodeLink(e), lost \in BOOLEAN :
          LET t == Target(c, e)
          IN  /\ t \in Connectors /\ ~Clash(t, e)
              /\ links' = PairedLinks(c, t, e)
              /\ home' = [home EXCEPT ![InstanceOf(e)] = IF @ = None THEN t ELSE @]
              /\ edge' = IF lost THEN edge
                         ELSE [edge EXCEPT
                                  ![e].token = [connector |-> t,
                                                generation |-> links'[t].generation],
                                  ![e].digest = edge[e].code]
    /\ UNCHANGED <<receipts, issued, captured>>

\* require_printer_bridge_token accepts the token of Edge e.
Working(e) ==
    /\ edge[e].token # None
    /\ LET link == links[edge[e].token.connector]
       IN  link.paired /\ link.generation = edge[e].token.generation

\* Slip: the sequence goes on.
ClearedKeepsSequence(state) ==
    [state EXCEPT !.life = @ + 1, !.token = None, !.digest = None, !.desired = None]

\* What an explicit reset leaves of an Edge connection.
Cleared(state) ==
    [state EXCEPT !.life = @ + 1, !.token = None, !.digest = None, !.desired = None,
                  !.sequence = 0]

\* connection_reset_blockers
MayReset(e) == edge[e].outbox = <<>>

\* reset_connection: the cloud first, where an unknown token is no obstacle, then the
\* local state, unless the process ends in between.
Reset(e) ==
    /\ MayReset(e) /\ edge[e].life < MaxLives
    /\ links' = IF Working(e) THEN [links EXCEPT ![edge[e].token.connector] = Revoked(@)]
                ELSE links
    /\ \E ends \in BOOLEAN : edge' = IF ends THEN edge ELSE [edge EXCEPT ![e] = Cleared(@)]
    /\ UNCHANGED <<receipts, issued, captured, home>>

-----------------------------------------------------------------------------
(* A cycle of a paired Edge: upload, pull the desired snapshot, capture. *)

\* run_cycle passes _ensure_paired without a request.
Paired(e) == edge[e].token # None /\ ~NewCode(e)

\* Slip: the route's proof is not asked for its connector.
VerdictAnyRoute(c, source, batch) ==
    LET own == {r \in receipts[c] : r.source = source}
        same == {r \in own : r.sequence = batch.sequence}
    IN  CASE links[c].source # source -> "unauthorized"
          [] links[c].source = source /\ same # {} -> "deduplicated"
          [] OTHER ->
               IF batch.sequence # Max({r.sequence : r \in own} \union {0}) + 1
               THEN "out_of_order" ELSE "accepted"

\* record_printer_bridge_usage_batch and resolve_usage_routes.
Verdict(c, source, batch) ==
    LET own == {r \in receipts[c] : r.source = source}
        same == {r \in own : r.sequence = batch.sequence}
    IN  CASE links[c].source # source -> "unauthorized"
          [] links[c].source = source /\ same # {} ->
               IF \A r \in same : r.unit = batch.unit THEN "deduplicated" ELSE "conflict"
          [] OTHER ->
               IF batch.sequence # Max({r.sequence : r \in own} \union {0}) + 1
               THEN "out_of_order"
               ELSE IF batch.route # c THEN "assignment_conflict" ELSE "accepted"

HeadVerdict(e) == Verdict(edge[e].token.connector, InstanceOf(e), Head(edge[e].outbox))

\* _flush_usage_outbox; a refusal changes nothing and the head stays.
Upload(e) ==
    /\ Paired(e) /\ Working(e) /\ edge[e].outbox # <<>>
    /\ HeadVerdict(e) \in {"accepted", "deduplicated"}
    /\ LET head == Head(edge[e].outbox)
       IN  receipts' = [receipts EXCEPT ![edge[e].token.connector] =
                           @ \union {[source |-> InstanceOf(e), sequence |-> head.sequence,
                                      unit |-> head.unit]}]
    /\ \E lost \in BOOLEAN :
          edge' = IF lost THEN edge ELSE [edge EXCEPT ![e].outbox = Tail(@)]
    /\ UNCHANGED <<links, issued, captured, home>>

\* _pull_desired_snapshot: reached only when the upload before it was not refused.
PullDesired(e) ==
    /\ Paired(e) /\ Working(e) /\ edge[e].outbox = <<>>
    /\ edge' = [edge EXCEPT ![e].desired = edge[e].token.connector]
    /\ UNCHANGED <<links, receipts, issued, captured, home>>

\* capture_usage_events and _enqueue_usage_batch: with the cached desired snapshot, and
\* whether or not the cloud answers.  (A cycle whose token the cloud refuses ends before
\* this step, so with a revoked token it is taken only while the cloud is out of reach.)
Capture(e) ==
    /\ Paired(e) /\ edge[e].desired # None
    /\ captured[e] < MaxBatches /\ Len(edge[e].outbox) < MaxOutbox
    /\ captured' = [captured EXCEPT ![e] = @ + 1]
    /\ edge' = [edge EXCEPT ![e].sequence = @ + 1,
                            ![e].outbox = Append(@, [sequence |-> edge[e].sequence + 1,
                                                     unit |-> captured[e] + 1,
                                                     route |-> edge[e].desired])]
    /\ UNCHANGED <<links, receipts, issued, home>>

-----------------------------------------------------------------------------
Next ==
    \/ \E e \in Edges : IssueCode(e) \/ Pair(e) \/ Reset(e)
    \/ \E e \in Edges : Upload(e) \/ PullDesired(e) \/ Capture(e)
    \/ \E c \in Connectors : ExpireCode(c) \/ RevokeByOwner(c)

Spec == Init /\ [][Next]_vars

-----------------------------------------------------------------------------
(* Properties. *)

TypeOK ==
    /\ edge \in [Edges -> EdgeState]
    /\ Len(links) <= MaxConnectors /\ Range(links) \subseteq Link
    /\ receipts \in [Connectors -> SUBSET Receipt]
    /\ issued \in 0..MaxCodes
    /\ captured \in [Edges -> 0..MaxBatches]
    /\ home \in [Instance -> Connectors \union {None}]
    /\ \A c \in DOMAIN links : links[c].paired => links[c].source # None /\ links[c].node # None
    \* A code that has paired an Edge pairs no other.
    /\ \A e \in Edges, c \in DOMAIN links :
          links[c].code # None => links[c].code # edge[e].digest

\* The receipts of a batch, on whichever connector.
Records(e, u) ==
    {p \in Connectors \X UNION {receipts[k] : k \in Connectors} :
        p[2] \in receipts[p[1]] /\ p[2].source[1] = e /\ p[2].unit = u}

\* No batch an Edge has captured is forgotten and none is recorded twice, through
\* pairings whose answer was lost, revocations, resets that broke off and a connector
\* that went to another Edge in the meantime: a batch sent on one connector and again on
\* another after its acknowledgement was lost is stopped by its route.
EvidenceKept ==
    \A e \in Edges : \A u \in 1..captured[e] :
        /\ Cardinality(Records(e, u)) <= 1
        /\ Records(e, u) = {} => \E i \in DOMAIN edge[e].outbox : edge[e].outbox[i].unit = u

\* Pairing an Edge never takes a working link from another (_connector_for_source).
PairingEvictsNobody ==
    [][\A e \in Edges :
          Working(e) =>
             LET c == edge[e].token.connector
             IN  links'[c].generation # links[c].generation
                     => links'[c].source = InstanceOf(e)]_vars

\* While an Edge's link stands on the connector it was first given, the cloud takes the
\* head of its queue: sequence numbers, identities and routes of Edge and cloud agree,
\* also over a reset and whatever happened to the link in between.
HeadTaken ==
    \A e \in Edges :
        /\ Paired(e) /\ Working(e) /\ edge[e].outbox # <<>>
        /\ edge[e].token.connector = home[InstanceOf(e)]
        => HeadVerdict(e) \in {"accepted", "deduplicated"}

\* "Supplying a new code rotates the credential for the same printer binding without
\* discarding queued evidence" (edge-agent/README.md): a code the owner has just issued
\* pairs the Edge it was issued to.
NewCodeWorks ==
    \A e \in Edges : NewCode(e) =>
        \A c \in CodeLink(e) : ~Clash(Target(c, e), e)
=============================================================================
