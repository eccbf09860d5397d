------------------------ MODULE BridgePairingProofs ------------------------
(***************************************************************************)
(* Proofs about BridgePairing for any number of Edge connections,           *)
(* connectors, codes, identities and batches.                               *)
(***************************************************************************)
EXTENDS BridgePairing, Induction

-----------------------------------------------------------------------------
(* The inductive invariant. *)

Linked == DOMAIN links

\* The sequence of the last batch that has left the queue of Edge e.
Acked(e) == edge[e].sequence - Len(edge[e].outbox)

SequencesOK ==
    /\ links \in Seq(Link)
    /\ \A e \in Edges : edge[e].outbox \in Seq(Batch) /\ Len(edge[e].outbox) <= MaxOutbox

\* Codes no connector holds any more.
Spent == {k \in 1..issued : \A c \in Linked : links[c].code # k}

\* A code is held by one connector, and each pairing has cost one.
CodesOnce ==
    /\ \A c \in Linked : links[c].code # None => links[c].code \in 1..issued
    /\ \A c, d \in Linked : links[c].code # None /\ links[c].code = links[d].code => c = d
    /\ \A c \in Linked : links[c].generation <= Cardinality(Spent)
    /\ \A e \in Edges : /\ edge[e].code # None => edge[e].code \in 1..issued
                        /\ edge[e].digest # None => edge[e].digest \in 1..issued

\* A token that is not older than its connector's credential was made for it.
TokenMade(e) ==
    edge[e].token # None =>
        LET c == edge[e].token.connector
        IN  /\ c \in Linked /\ edge[e].token.generation <= links[c].generation
            /\ edge[e].token.generation = links[c].generation =>
                  links[c].source = InstanceOf(e) /\ links[c].node = e

\* The queue holds the last batches captured, in order.
QueueCounted(e) ==
    LET q == edge[e].outbox
    IN  /\ Len(q) <= edge[e].sequence /\ edge[e].sequence <= captured[e]
        /\ \A k \in DOMAIN q : /\ q[k].sequence = Acked(e) + k
                               /\ q[k].unit + Len(q) = captured[e] + k

\* A receipt of a former identity is of a batch captured before this one began; one of the
\* present identity has left the queue or is the head, on the connector of its route.
ReceiptPlaced(c, r) ==
    LET e == r.source[1]
        q == edge[e].outbox
    IN  /\ r.unit <= captured[e] /\ r.source[2] <= edge[e].life
        /\ r.source[2] < edge[e].life => r.unit + edge[e].sequence <= captured[e]
        /\ r.source[2] = edge[e].life =>
              /\ r.unit + edge[e].sequence = captured[e] + r.sequence
              /\ \/ r.sequence <= Acked(e)
                 \/ r.sequence = Acked(e) + 1 /\ q # <<>> /\ q[1].route = c

Placed == \A c \in Connectors : \A r \in receipts[c] : ReceiptPlaced(c, r)

\* A batch is recorded once,
RecordedOnce ==
    \A c, d \in Connectors : \A r \in receipts[c], s \in receipts[d] :
        r.source[1] = s.source[1] /\ r.unit = s.unit => c = d /\ r = s

\* and not forgotten before.
NoneForgotten ==
    \A e \in Edges : \A u \in 1..captured[e] :
        \/ \E c \in Connectors : \E r \in receipts[c] : r.source[1] = e /\ r.unit = u
        \/ \E k \in DOMAIN edge[e].outbox : edge[e].outbox[k].unit = u

\* The connector knows nothing of identity i.
Unknown(i, c) ==
    /\ c \in Linked => links[c].source # i
    /\ \A r \in receipts[c] : r.source # i

\* Later identities of an Edge are unknown.
FutureUnknown ==
    \A e \in Edges : \A l \in Lives : l > edge[e].life =>
        home[<<e, l>>] = None /\ \A c \in Connectors : Unknown(<<e, l>>, c)

\* An identity that has not been paired.
New(e) ==
    /\ edge[e].token = None /\ edge[e].desired = None
    /\ edge[e].sequence = 0 /\ edge[e].outbox = <<>>
    /\ \A c \in Connectors : Unknown(InstanceOf(e), c)

\* One that has known no connector but h, and all that was acknowledged is recorded there.
AtHome(e, h) ==
    /\ \A c \in Connectors : c # h => Unknown(InstanceOf(e), c)
    /\ edge[e].token # None => edge[e].token.connector = h
    /\ edge[e].desired \in {None, h}
    /\ \A k \in DOMAIN edge[e].outbox : edge[e].outbox[k].route = h
    /\ Acked(e) # 0 => \E r \in receipts[h] : r.source = InstanceOf(e) /\ r.sequence = Acked(e)

\* One that has moved on does not come back: every code it may still use is a newer one's.
Gone(e, h) ==
    /\ links[h].source # InstanceOf(e)
    /\ h < Len(links)
    /\ h \notin CodeLink(e)

HomeOrGone(e) ==
    LET h == home[InstanceOf(e)]
    IN  IF h = None THEN New(e)
        ELSE /\ h \in Linked
             /\ \A c \in CodeLink(e) : h <= c
             /\ AtHome(e, h) \/ Gone(e, h)

IInv ==
    /\ TypeOK /\ SequencesOK
    /\ CodesOnce
    /\ Placed /\ RecordedOnce /\ NoneForgotten
    /\ FutureUnknown
    /\ \A e \in Edges : TokenMade(e) /\ QueueCounted(e) /\ HomeOrGone(e)

-----------------------------------------------------------------------------
(* Types. *)

\* The queues of the bounded type are the sequences of at most that length.
LEMMA QueueIs ==
    ASSUME NEW q
    PROVE  q \in UNION {[1..n -> Batch] : n \in 0..MaxOutbox}
              <=> q \in Seq(Batch) /\ Len(q) <= MaxOutbox
<1>1. MaxOutbox \in Nat
  BY BoundsAssumption
<1>2. ASSUME q \in UNION {[1..n -> Batch] : n \in 0..MaxOutbox}
      PROVE  q \in Seq(Batch) /\ Len(q) <= MaxOutbox
  <2>1. PICK n \in 0..MaxOutbox : q \in [1..n -> Batch]
    BY <1>2
  <2> QED BY <1>1, <2>1
<1>3. ASSUME q \in Seq(Batch), Len(q) <= MaxOutbox
      PROVE  q \in UNION {[1..n -> Batch] : n \in 0..MaxOutbox}
  <2>1. q \in [1..Len(q) -> Batch] /\ Len(q) \in 0..MaxOutbox
    BY <1>1, <1>3
  <2> QED BY <2>1
<1> QED BY <1>2, <1>3

\* The values of an Edge connection and of a link.
LEMMA EdgeTyped ==
    ASSUME TypeOK, NEW e \in Edges
    PROVE  /\ edge[e].life \in Lives /\ edge[e].token \in Token \union {None}
           /\ edge[e].code \in Codes \union {None} /\ edge[e].digest \in Codes \union {None}
           /\ edge[e].desired \in Connectors \union {None}
           /\ edge[e].sequence \in 0..MaxBatches /\ edge[e].sequence \in Nat
           /\ edge[e].outbox \in Seq(Batch) /\ Len(edge[e].outbox) <= MaxOutbox
           /\ Len(edge[e].outbox) \in Nat
           /\ captured[e] \in 0..MaxBatches /\ captured[e] \in Nat
           /\ InstanceOf(e) \in Instance /\ InstanceOf(e)[1] = e
           /\ InstanceOf(e)[2] = edge[e].life
<1>1. edge[e] \in EdgeState /\ captured[e] \in 0..MaxBatches
  BY DEF TypeOK
<1>2. /\ edge[e].life \in Lives /\ edge[e].token \in Token \union {None}
      /\ edge[e].code \in Codes \union {None} /\ edge[e].digest \in Codes \union {None}
      /\ edge[e].desired \in Connectors \union {None}
      /\ edge[e].sequence \in 0..MaxBatches
      /\ edge[e].outbox \in UNION {[1..n -> Batch] : n \in 0..MaxOutbox}
  BY <1>1 DEF EdgeState
<1>3. edge[e].outbox \in Seq(Batch) /\ Len(edge[e].outbox) <= MaxOutbox
  BY <1>2, QueueIs
<1>4. /\ InstanceOf(e) \in Instance /\ InstanceOf(e)[1] = e
      /\ InstanceOf(e)[2] = edge[e].life
  BY <1>2 DEF InstanceOf, Instance
<1>5. edge[e].sequence \in Nat /\ captured[e] \in Nat /\ Len(edge[e].outbox) \in Nat
  BY <1>1, <1>2, <1>3, BoundsAssumption
<1> QED BY <1>1, <1>2, <1>3, <1>4, <1>5

LEMMA LinksTyped ==
    ASSUME TypeOK, SequencesOK
    PROVE  /\ links \in Seq(Link) /\ Len(links) \in Nat /\ Len(links) <= MaxConnectors
           /\ Linked = 1..Len(links) /\ Linked \subseteq Connectors
           /\ \A c \in Linked :
                 /\ links[c] \in Link
                 /\ links[c].source \in Instance \union {None}
                 /\ links[c].code \in Codes \union {None}
                 /\ links[c].generation \in 0..MaxCodes /\ links[c].generation \in Nat
<1>1. links \in Seq(Link) /\ Len(links) <= MaxConnectors /\ MaxConnectors \in Nat
  BY BoundsAssumption DEF TypeOK, SequencesOK
<1>2. Len(links) \in Nat /\ Linked = 1..Len(links) /\ Linked \subseteq Connectors
  BY <1>1 DEF Linked, Connectors
<1>3. ASSUME NEW c \in Linked
      PROVE  /\ links[c] \in Link
             /\ links[c].source \in Instance \union {None}
             /\ links[c].code \in Codes \union {None}
             /\ links[c].generation \in 0..MaxCodes /\ links[c].generation \in Nat
  <2>1. links[c] \in Link
    BY <1>1, <1>2
  <2> QED BY <2>1, BoundsAssumption DEF Link
<1> QED BY <1>1, <1>2, <1>3

\* A sequence of links has links for its range.
LEMMA RangeTyped == ASSUME NEW s \in Seq(Link) PROVE Range(s) \subseteq Link
BY DEF Range

LEMMA ReceiptTyped ==
    ASSUME TypeOK, NEW c \in Connectors, NEW r \in receipts[c]
    PROVE  /\ r \in Receipt /\ r.source \in Instance /\ r.source = <<r.source[1], r.source[2]>>
           /\ r.source[1] \in Edges /\ r.source[2] \in Lives
           /\ r.sequence \in Unit /\ r.sequence \in Nat /\ r.unit \in Unit /\ r.unit \in Nat
<1>1. r \in Receipt
  BY DEF TypeOK
<1>2. r.source \in Instance /\ r.sequence \in Unit /\ r.unit \in Unit
  BY <1>1 DEF Receipt
<1>3. /\ r.source = <<r.source[1], r.source[2]>>
      /\ r.source[1] \in Edges /\ r.source[2] \in Lives
  BY <1>2 DEF Instance
<1> QED BY <1>1, <1>2, <1>3, BoundsAssumption DEF Unit

\* A batch in the queue.
LEMMA BatchTyped ==
    ASSUME TypeOK, NEW e \in Edges, NEW k \in DOMAIN edge[e].outbox
    PROVE  /\ edge[e].outbox[k] \in Batch /\ k \in 1..Len(edge[e].outbox)
           /\ edge[e].outbox[k].sequence \in Unit /\ edge[e].outbox[k].sequence \in Nat
           /\ edge[e].outbox[k].unit \in Unit /\ edge[e].outbox[k].unit \in Nat
           /\ edge[e].outbox[k].route \in Connectors
<1>1. edge[e].outbox \in Seq(Batch)
  BY EdgeTyped
<1>2. edge[e].outbox[k] \in Batch /\ k \in 1..Len(edge[e].outbox)
  BY <1>1
<1> QED BY <1>2, BoundsAssumption DEF Batch, Unit

-----------------------------------------------------------------------------
(* Steps that leave parts of the state alone. *)

\* The identities and the queues stay.
SameQueues ==
    /\ receipts' = receipts /\ captured' = captured
    /\ \A e \in Edges : /\ edge'[e].life = edge[e].life
                        /\ edge'[e].sequence = edge[e].sequence
                        /\ edge'[e].outbox = edge[e].outbox

\* The links keep their owners; a new one has none.
SameOwners ==
    /\ Len(links) <= Len(links')
    /\ \A c \in Linked : /\ links'[c].source = links[c].source
                         /\ links'[c].node = links[c].node
                         /\ links'[c].generation = links[c].generation
                         /\ links'[c].paired => links[c].paired
    /\ \A c \in DOMAIN links' : c \notin Linked =>
          links'[c].source = None /\ links'[c].generation = 0 /\ ~links'[c].paired

\* Codes are withdrawn, and a new one is given to the newest connector.
CodesFall ==
    /\ issued' \in {issued, issued + 1}
    /\ \A c \in DOMAIN links' :
          /\ links'[c].code \in {None, issued + 1} \/ (c \in Linked /\ links'[c].code = links[c].code)
          /\ links'[c].code = issued + 1 => issued' = issued + 1 /\ c = Len(links')
    /\ \A e \in Edges :
          /\ edge'[e].code \in {edge[e].code, issued + 1}
          /\ edge'[e].code = issued + 1 => issued' = issued + 1
          /\ edge'[e].digest \in {None, edge[e].digest}

\* A code an Edge may use is one it might have used before, or the newest connector's.
CodesNewest ==
    \A e \in Edges : \A c \in CodeLink(e)' : c \in CodeLink(e) \/ c = Len(links')

LEMMA QueuesKept ==
    ASSUME IInv, SameQueues
    PROVE  /\ \A e \in Edges : QueueCounted(e)'
           /\ Placed' /\ RecordedOnce' /\ NoneForgotten'
<1>1. ASSUME NEW e \in Edges PROVE QueueCounted(e)'
  BY DEF SameQueues, IInv, QueueCounted, Acked
<1>2. Placed'
  <2> SUFFICES ASSUME NEW c \in Connectors, NEW r \in receipts[c] PROVE ReceiptPlaced(c, r)'
    BY DEF SameQueues, Placed
  <2>1. ReceiptPlaced(c, r) /\ r.source[1] \in Edges
    BY ReceiptTyped DEF IInv, Placed
  <2> QED BY <2>1 DEF SameQueues, ReceiptPlaced, Acked
<1>3. RecordedOnce'
  BY DEF SameQueues, IInv, RecordedOnce
<1>4. NoneForgotten'
  BY DEF SameQueues, IInv, NoneForgotten
<1> QED BY <1>1, <1>2, <1>3, <1>4

LEMMA TokensKept ==
    ASSUME IInv, SequencesOK', SameOwners, NEW e \in Edges,
           edge'[e].token = edge[e].token, edge'[e].life = edge[e].life
    PROVE  TokenMade(e)'
<1>1. TokenMade(e) /\ Len(links) \in Nat /\ Linked = 1..Len(links) /\ links' \in Seq(Link)
  BY LinksTyped DEF IInv, SequencesOK
<1>2. Linked \subseteq DOMAIN links'
  BY <1>1 DEF SameOwners
<1> QED BY <1>1, <1>2 DEF SameOwners, TokenMade, InstanceOf, Linked

LEMMA FutureKept ==
    ASSUME IInv, SequencesOK', SameOwners, home' = home, receipts' = receipts,
           \A e \in Edges : edge'[e].life = edge[e].life
    PROVE  FutureUnknown'
<1>1. ASSUME NEW e \in Edges, NEW l \in Lives, l > edge[e].life
      PROVE  home[<<e, l>>] = None /\ \A c \in Connectors : Unknown(<<e, l>>, c)'
  <2>1. home[<<e, l>>] = None /\ \A c \in Connectors : Unknown(<<e, l>>, c)
    BY <1>1 DEF IInv, FutureUnknown
  <2>2. <<e, l>> # None
    BY NoneAssumption DEF Instance
  <2> QED BY <2>1, <2>2 DEF SameOwners, Unknown, Linked
<1> QED BY <1>1 DEF FutureUnknown

LEMMA HomeKept ==
    ASSUME IInv, SequencesOK', SameOwners, CodesNewest, home' = home, receipts' = receipts,
           NEW e \in Edges,
           edge'[e].life = edge[e].life, edge'[e].sequence = edge[e].sequence,
           edge'[e].outbox = edge[e].outbox, edge'[e].token = edge[e].token,
           edge'[e].desired = edge[e].desired
    PROVE  HomeOrGone(e)'
<1> DEFINE h == home[InstanceOf(e)]
<1>1. /\ InstanceOf(e)' = InstanceOf(e) /\ InstanceOf(e) # None
      /\ Len(links) \in Nat /\ Linked = 1..Len(links) /\ Len(links') \in Nat
      /\ Linked' = 1..Len(links')
  BY LinksTyped, EdgeTyped, NoneAssumption DEF InstanceOf, IInv, SequencesOK, Linked
<1>2. \A c \in Connectors : Unknown(InstanceOf(e), c) => Unknown(InstanceOf(e), c)'
  BY <1>1 DEF Unknown, SameOwners, Linked
<1>3. CASE h = None
  BY <1>1, <1>2, <1>3 DEF IInv, HomeOrGone, New
<1>4. CASE h # None
  <2>1. /\ h \in Linked /\ \A c \in CodeLink(e) : h <= c
        /\ AtHome(e, h) \/ Gone(e, h)
    BY <1>4 DEF IInv, HomeOrGone
  <2>2. h \in Linked' /\ h \in Nat /\ h <= Len(links) /\ Len(links) <= Len(links')
    BY <1>1, <2>1 DEF SameOwners
  <2>3. \A c \in CodeLink(e)' : h <= c
    BY <1>1, <2>1, <2>2 DEF CodesNewest
  <2>4. ASSUME AtHome(e, h) PROVE AtHome(e, h)'
    BY <1>1, <1>2, <2>4 DEF AtHome, Acked
  <2>5. ASSUME Gone(e, h) PROVE Gone(e, h)'
    <3>1. h < Len(links') /\ h # Len(links')
      BY <1>1, <2>2, <2>5 DEF Gone
    <3>2. h \notin CodeLink(e)'
      BY <2>5, <3>1 DEF Gone, CodesNewest
    <3>3. links'[h].source # InstanceOf(e)
      BY <2>1, <2>5 DEF Gone, SameOwners
    <3> QED BY <1>1, <3>1, <3>2, <3>3 DEF Gone
  <2> QED BY <1>1, <1>4, <2>1, <2>2, <2>3, <2>4, <2>5 DEF HomeOrGone
<1> QED BY <1>3, <1>4

-----------------------------------------------------------------------------
(* Codes. *)

LEMMA SpentIs ==
    ASSUME TypeOK
    PROVE  /\ IsFiniteSet(Spent) /\ Cardinality(Spent) \in Nat
           /\ Cardinality(Spent) <= issued /\ issued <= MaxCodes /\ issued \in Nat
<1>1. issued \in Nat /\ issued <= MaxCodes
  BY BoundsAssumption DEF TypeOK
<1>2. IsFiniteSet(1..issued) /\ Cardinality(1..issued) = issued
  BY <1>1, FS_Interval
<1>3. Spent \in SUBSET (1..issued)
  BY DEF Spent
<1>4. IsFiniteSet(Spent) /\ Cardinality(Spent) <= issued
  BY <1>2, <1>3, FS_Subset
<1>5. Cardinality(Spent) \in Nat
  BY <1>4, FS_CardinalityType
<1> QED BY <1>1, <1>4, <1>5

\* While codes are only withdrawn and newly issued, no two connectors share one, and none
\* that has paired an Edge comes back.
LEMMA CodesKept ==
    ASSUME IInv, SequencesOK', SameOwners, CodesFall, issued' \in 0..MaxCodes
    PROVE  /\ CodesOnce' /\ CodesNewest
           /\ \A e \in Edges, c \in DOMAIN links' :
                 links'[c].code # None => links'[c].code # edge'[e].digest
<1>1. /\ Len(links) \in Nat /\ Linked = 1..Len(links) /\ Len(links') \in Nat
      /\ DOMAIN links' = 1..Len(links') /\ issued \in Nat
      /\ None \notin Nat
  BY LinksTyped, SpentIs, NoneAssumption DEF IInv, SequencesOK
<1>2. \A c \in Linked : links[c].code # None => links[c].code \in 1..issued
  BY DEF IInv, CodesOnce
<1>3. \A e \in Edges : /\ edge[e].code # None => edge[e].code \in 1..issued
                       /\ edge[e].digest # None => edge[e].digest \in 1..issued
  BY DEF IInv, CodesOnce
<1>4. ASSUME NEW c \in DOMAIN links', links'[c].code # None
      PROVE  links'[c].code \in 1..issued'
  BY <1>1, <1>2, <1>4 DEF CodesFall
<1>5. ASSUME NEW c \in DOMAIN links', NEW d \in DOMAIN links',
             links'[c].code # None, links'[c].code = links'[d].code
      PROVE  c = d
  <2>1. CASE links'[c].code = issued + 1
    BY <1>1, <1>2, <1>5, <2>1 DEF CodesFall
  <2>2. CASE links'[c].code # issued + 1
    <3>1. /\ c \in Linked /\ links'[c].code = links[c].code
          /\ d \in Linked /\ links'[d].code = links[d].code
      BY <1>5, <2>2 DEF CodesFall
    <3> QED BY <1>5, <3>1 DEF IInv, CodesOnce
  <2> QED BY <2>1, <2>2
<1>6. ASSUME NEW c \in DOMAIN links' PROVE links'[c].generation <= Cardinality(Spent')
  <2>1. Spent \subseteq Spent'
    <3> SUFFICES ASSUME NEW k \in Spent PROVE k \in Spent'
      OBVIOUS
    <3>1. k \in 1..issued' /\ k # issued + 1 /\ k # None
      BY <1>1 DEF Spent, CodesFall
    <3>2. \A d \in DOMAIN links' : links'[d].code # k
      BY <3>1 DEF Spent, CodesFall
    <3> QED BY <3>1, <3>2 DEF Spent, Linked
  <2>2. IsFiniteSet(1..issued')
    <3>1. issued' \in Nat
      BY BoundsAssumption
    <3> QED BY <3>1, FS_Interval
  <2>3. Spent' \in SUBSET (1..issued')
    BY DEF Spent
  <2>4. IsFiniteSet(Spent')
    BY <2>2, <2>3, FS_Subset
  <2>5. Cardinality(Spent') \in Nat /\ Cardinality(Spent) <= Cardinality(Spent')
    BY <2>1, <2>4, FS_Subset, FS_CardinalityType
  <2>6. Cardinality(Spent) \in Nat
    BY SpentIs DEF IInv
  <2>7. CASE c \in Linked
    <3>1. links'[c].generation = links[c].generation /\ links[c].generation \in Nat
      BY <2>7, LinksTyped DEF SameOwners, IInv
    <3>2. links[c].generation <= Cardinality(Spent)
      BY <2>7 DEF IInv, CodesOnce
    <3> HIDE DEF Spent
    <3> QED BY <2>5, <2>6, <3>1, <3>2
  <2>8. CASE c \notin Linked
    BY <2>5, <2>8 DEF SameOwners
  <2> QED BY <2>7, <2>8
<1>7. ASSUME NEW e \in Edges
      PROVE  /\ edge'[e].code # None => edge'[e].code \in 1..issued'
             /\ edge'[e].digest # None => edge'[e].digest \in 1..issued'
  BY <1>1, <1>3 DEF CodesFall
<1>8. CodesOnce'
  BY <1>4, <1>5, <1>6, <1>7 DEF CodesOnce, Linked
<1>9. ASSUME NEW e \in Edges, NEW c \in CodeLink(e)'
      PROVE  c \in CodeLink(e) \/ c = Len(links')
  <2>1. c \in DOMAIN links' /\ links'[c].code # None /\ links'[c].code = edge'[e].code
    BY DEF CodeLink
  <2>2. CASE links'[c].code = issued + 1
    BY <2>1, <2>2 DEF CodesFall
  <2>3. CASE links'[c].code # issued + 1
    BY <2>1, <2>3 DEF CodesFall, CodeLink, Linked
  <2> QED BY <2>2, <2>3
<1>10. ASSUME NEW e \in Edges, NEW c \in DOMAIN links', links'[c].code # None
       PROVE  links'[c].code # edge'[e].digest
  <2>1. \A d \in Linked : links[d].code # None => links[d].code # edge[e].digest
    BY DEF IInv, TypeOK, Linked
  <2>2. CASE links'[c].code = issued + 1
    BY <1>1, <1>3, <2>2 DEF CodesFall
  <2>3. CASE links'[c].code # issued + 1
    BY <1>10, <2>1, <2>3 DEF CodesFall
  <2> QED BY <2>2, <2>3
<1> QED BY <1>8, <1>9, <1>10 DEF CodesNewest

\* The types after such a step.
LEMMA TypeKept ==
    ASSUME IInv, SequencesOK', SameOwners, CodesFall, issued' \in 0..MaxCodes,
           Len(links') <= MaxConnectors, edge' \in [Edges -> EdgeState],
           receipts' = receipts, captured' = captured, home' = home
    PROVE  TypeOK'
<1>1. Range(links') \subseteq Link
  BY RangeTyped DEF SequencesOK
<1>2. \A c \in DOMAIN links' : links'[c].paired => links'[c].source # None /\ links'[c].node # None
  BY DEF SameOwners, IInv, TypeOK, Linked
<1>3. \A e \in Edges, c \in DOMAIN links' :
         links'[c].code # None => links'[c].code # edge'[e].digest
  BY CodesKept
<1>4. TypeOK
  BY DEF IInv
<1> QED BY <1>1, <1>2, <1>3, <1>4 DEF TypeOK

\* What only withdraws and issues codes, or revokes credentials, keeps everything.
LEMMA OwnerKeeps ==
    ASSUME IInv, SequencesOK', SameQueues, SameOwners, CodesFall, issued' \in 0..MaxCodes,
           Len(links') <= MaxConnectors, edge' \in [Edges -> EdgeState], home' = home,
           \A e \in Edges : /\ edge'[e].token = edge[e].token
                            /\ edge'[e].desired = edge[e].desired
    PROVE  IInv'
<1>1. TypeOK'
  BY TypeKept DEF SameQueues
<1>2. CodesOnce' /\ CodesNewest
  BY CodesKept
<1>3. \A e \in Edges : TokenMade(e)'
  BY TokensKept DEF SameQueues
<1>4. (\A e \in Edges : QueueCounted(e)') /\ Placed' /\ RecordedOnce' /\ NoneForgotten'
  BY QueuesKept
<1>5. FutureUnknown'
  BY FutureKept DEF SameQueues
<1>6. \A e \in Edges : HomeOrGone(e)'
  BY <1>2, HomeKept DEF SameQueues
<1> QED BY <1>1, <1>2, <1>3, <1>4, <1>5, <1>6 DEF IInv

-----------------------------------------------------------------------------
(* The owner. *)

LEMMA RevokedTyped ==
    ASSUME NEW link \in Link
    PROVE  /\ Revoked(link) \in Link /\ Revoked(link).source = link.source
           /\ Revoked(link).node = link.node /\ Revoked(link).generation = link.generation
           /\ Revoked(link).code = None /\ ~Revoked(link).paired
BY DEF Revoked, Link

\* Edge connections that stay as they are.
LEMMA EdgesSame ==
    ASSUME IInv, edge' = edge
    PROVE  /\ edge' \in [Edges -> EdgeState]
           /\ \A e \in Edges : edge'[e].outbox \in Seq(Batch) /\ Len(edge'[e].outbox) <= MaxOutbox
BY EdgeTyped DEF IInv, TypeOK

\* No one knows the next code.
LEMMA NextCodeUnknown ==
    ASSUME IInv
    PROVE  /\ issued \in Nat /\ issued + 1 # None
           /\ \A c \in Linked : links[c].code # issued + 1
           /\ \A e \in Edges : edge[e].code # issued + 1 /\ edge[e].digest # issued + 1
<1>1. issued \in Nat /\ None \notin Nat
  BY SpentIs, NoneAssumption DEF IInv
<1>2. \A c \in Linked : links[c].code # issued + 1
  BY <1>1 DEF IInv, CodesOnce
<1>3. \A e \in Edges : edge[e].code # issued + 1 /\ edge[e].digest # issued + 1
  BY <1>1 DEF IInv, CodesOnce
<1> QED BY <1>1, <1>2, <1>3

\* One link is changed, but not its owner.
LEMMA LinkChanged ==
    ASSUME IInv, NEW c \in Linked, NEW v \in Link, links' = [links EXCEPT ![c] = v],
           v.source = links[c].source, v.node = links[c].node,
           v.generation = links[c].generation, v.paired => links[c].paired
    PROVE  /\ links' \in Seq(Link) /\ Len(links') = Len(links) /\ DOMAIN links' = Linked
           /\ Len(links') <= MaxConnectors
           /\ links'[c] = v /\ \A d \in Linked : d # c => links'[d] = links[d]
           /\ SameOwners
<1>1. /\ links \in Seq(Link) /\ Len(links) \in Nat /\ Linked = 1..Len(links)
      /\ Len(links) <= MaxConnectors
  BY LinksTyped DEF IInv
<1>2. links' \in Seq(Link) /\ Len(links') = Len(links) /\ DOMAIN links' = Linked
  BY <1>1
<1>3. links'[c] = v /\ \A d \in Linked : d # c => links'[d] = links[d]
  BY <1>1
<1>4. ASSUME NEW d \in Linked
      PROVE  /\ links'[d].source = links[d].source /\ links'[d].node = links[d].node
             /\ links'[d].generation = links[d].generation
             /\ links'[d].paired => links[d].paired
  BY <1>3
<1>5. SameOwners
  BY <1>1, <1>2, <1>4 DEF SameOwners
<1> QED BY <1>1, <1>2, <1>3, <1>5

\* If no code is issued either, everything is kept.
LEMMA WithdrawnKeeps ==
    ASSUME IInv, NEW c \in Linked, NEW v \in Link, links' = [links EXCEPT ![c] = v],
           v.source = links[c].source, v.node = links[c].node,
           v.generation = links[c].generation, v.paired => links[c].paired, v.code = None,
           UNCHANGED <<edge, receipts, issued, captured, home>>
    PROVE  IInv'
<1>1. /\ links' \in Seq(Link) /\ Len(links') <= MaxConnectors /\ DOMAIN links' = Linked
      /\ links'[c] = v /\ \A d \in Linked : d # c => links'[d] = links[d]
      /\ SameOwners
  BY LinkChanged
<1>2. SequencesOK'
  BY <1>1, EdgesSame DEF SequencesOK
<1>3. \A d \in Linked : links'[d].code \in {None, links[d].code}
  BY <1>1
<1>4. CodesFall
  BY <1>1, <1>3, NextCodeUnknown DEF CodesFall
<1>5. SameQueues
  BY DEF SameQueues
<1>6. issued' \in 0..MaxCodes
  BY DEF IInv, TypeOK
<1> QED BY <1>1, <1>2, <1>4, <1>5, <1>6, EdgesSame, OwnerKeeps

LEMMA ExpireCodeKeeps == ASSUME IInv, NEW c \in Connectors, ExpireCode(c) PROVE IInv'
<1> DEFINE v == [links[c] EXCEPT !.code = None]
<1>1. c \in Linked /\ links' = [links EXCEPT ![c] = v]
  BY DEF ExpireCode, Linked
<1>2. links[c] \in Link
  BY <1>1, LinksTyped DEF IInv
<1>3. /\ v \in Link /\ v.source = links[c].source /\ v.node = links[c].node
      /\ v.generation = links[c].generation /\ v.paired = links[c].paired /\ v.code = None
  BY <1>2 DEF Link
<1>4. UNCHANGED <<edge, receipts, issued, captured, home>>
  BY DEF ExpireCode
<1> HIDE DEF v
<1> QED BY <1>1, <1>3, <1>4, WithdrawnKeeps

LEMMA RevokeKeeps == ASSUME IInv, NEW c \in Connectors, RevokeByOwner(c) PROVE IInv'
<1>1. c \in Linked /\ links' = [links EXCEPT ![c] = Revoked(links[c])]
  BY DEF RevokeByOwner, Linked
<1>2. links[c] \in Link
  BY <1>1, LinksTyped DEF IInv
<1>3. UNCHANGED <<edge, receipts, issued, captured, home>>
  BY DEF RevokeByOwner
<1> QED BY <1>1, <1>2, <1>3, RevokedTyped, WithdrawnKeeps

LEMMA OneLink ==
    ASSUME NEW v \in Link
    PROVE  <<v>> \in Seq(Link) /\ Len(<<v>>) = 1 /\ <<v>>[1] = v
OBVIOUS

LEMMA IssueCodeKeeps == ASSUME IInv, NEW e \in Edges, IssueCode(e) PROVE IInv'
<1> DEFINE present == IF links = <<>> THEN <<NewLink(None)>> ELSE links
           n == Len(present)
           v == [present[n] EXCEPT !.code = issued + 1]
<1>1. /\ issued < MaxCodes /\ issued' = issued + 1
      /\ links' = [present EXCEPT ![n] = v]
      /\ edge' = [edge EXCEPT ![e].code = issued + 1]
      /\ UNCHANGED <<receipts, captured, home>>
  BY DEF IssueCode
<1>2. /\ links \in Seq(Link) /\ Len(links) \in Nat /\ Linked = 1..Len(links)
      /\ Len(links) <= MaxConnectors /\ issued \in Nat /\ MaxCodes \in Nat
      /\ issued' \in 0..MaxCodes /\ issued' \in Codes
  BY <1>1, LinksTyped, SpentIs, BoundsAssumption DEF IInv, Codes
<1>3. NewLink(None) \in Link
  BY BoundsAssumption DEF NewLink, Link
<1>4. /\ present \in Seq(Link) /\ n = Len(present) /\ n \in Nat /\ n >= 1 /\ n <= MaxConnectors
      /\ n >= Len(links)
      /\ \A c \in 1..n : IF c \in Linked THEN present[c] = links[c] ELSE present[c] = NewLink(None)
      /\ \A c \in Linked : c \in 1..n
  <2>1. CASE links = <<>>
    <3>1. present = <<NewLink(None)>>
      BY <2>1
    <3>2. present \in Seq(Link) /\ Len(present) = 1 /\ present[1] = NewLink(None)
      BY <1>3, <3>1, OneLink
    <3>3. Len(links) = 0 /\ Linked = {}
      BY <1>2, <2>1
    <3> QED BY <3>2, <3>3, BoundsAssumption
  <2>2. CASE links # <<>>
    <3>1. present = links /\ Len(links) >= 1
      BY <1>2, <2>2
    <3> QED BY <1>2, <3>1
  <2> QED BY <2>1, <2>2
<1> HIDE DEF present, n
<1>5. present[n] \in Link
  BY <1>4
<1>6. /\ v \in Link /\ v.source = present[n].source /\ v.node = present[n].node
      /\ v.generation = present[n].generation /\ v.paired = present[n].paired
      /\ v.code = issued + 1
  BY <1>1, <1>2, <1>5 DEF Link
<1> HIDE DEF v
<1>7. /\ links' \in Seq(Link) /\ Len(links') = n /\ DOMAIN links' = 1..n
      /\ links'[n] = v /\ \A c \in 1..n : c # n => links'[c] = present[c]
  BY <1>1, <1>4, <1>6
<1>8. \A c \in 1..n : /\ links'[c].source = present[c].source
                      /\ links'[c].node = present[c].node
                      /\ links'[c].generation = present[c].generation
                      /\ links'[c].paired = present[c].paired
                      /\ links'[c].code = IF c = n THEN issued + 1 ELSE present[c].code
  BY <1>6, <1>7
<1>9. /\ NewLink(None).source = None /\ NewLink(None).generation = 0
      /\ NewLink(None).paired = FALSE /\ NewLink(None).code = None
  BY DEF NewLink
<1>10. SameOwners
  <2>1. Len(links) <= Len(links')
    BY <1>2, <1>4, <1>7
  <2>2. \A c \in Linked : /\ links'[c].source = links[c].source
                          /\ links'[c].node = links[c].node
                          /\ links'[c].generation = links[c].generation
                          /\ links'[c].paired => links[c].paired
    BY <1>4, <1>8
  <2>3. \A c \in DOMAIN links' : c \notin Linked =>
           links'[c].source = None /\ links'[c].generation = 0 /\ ~links'[c].paired
    BY <1>4, <1>7, <1>8, <1>9
  <2> QED BY <2>1, <2>2, <2>3 DEF SameOwners
<1>11. \A x \in Edges : /\ edge[x] \in EdgeState
                        /\ edge'[x] = IF x = e THEN [edge[x] EXCEPT !.code = issued + 1] ELSE edge[x]
  BY <1>1 DEF IInv, TypeOK
<1>12. \A x \in Edges : /\ edge'[x].life = edge[x].life /\ edge'[x].sequence = edge[x].sequence
                        /\ edge'[x].outbox = edge[x].outbox /\ edge'[x].token = edge[x].token
                        /\ edge'[x].desired = edge[x].desired
                        /\ edge'[x].digest = edge[x].digest
                        /\ edge'[x].code = IF x = e THEN issued + 1 ELSE edge[x].code
  BY <1>11 DEF EdgeState
<1>13. edge' \in [Edges -> EdgeState]
  <2>1. \A x \in Edges : edge'[x] \in EdgeState
    <3> SUFFICES ASSUME NEW x \in Edges PROVE edge'[x] \in EdgeState
      OBVIOUS
    <3>1. issued + 1 \in Codes /\ edge[x] \in EdgeState
      BY <1>1, <1>2, <1>11
    <3>2. [edge[x] EXCEPT !.code = issued + 1] \in EdgeState
      BY <3>1 DEF EdgeState
    <3> QED BY <1>11, <3>1, <3>2
  <2>2. edge' = [x \in Edges |-> edge'[x]]
    BY <1>1 DEF IInv, TypeOK
  <2> QED BY <2>1, <2>2
<1>14. SequencesOK'
  BY <1>7, <1>12, EdgeTyped DEF SequencesOK, IInv
<1>15. CodesFall
  <2>1. ASSUME NEW c \in DOMAIN links'
        PROVE  /\ links'[c].code \in {None, issued + 1} \/ (c \in Linked /\ links'[c].code = links[c].code)
               /\ links'[c].code = issued + 1 => issued' = issued + 1 /\ c = Len(links')
    BY <1>1, <1>4, <1>7, <1>8, <1>9, NextCodeUnknown
  <2> QED BY <1>1, <1>12, <2>1 DEF CodesFall
<1>16. SameQueues
  BY <1>1, <1>12 DEF SameQueues
<1> QED BY <1>1, <1>2, <1>4, <1>7, <1>10, <1>12, <1>13, <1>14, <1>15, <1>16, OwnerKeeps

-----------------------------------------------------------------------------
(* A reset. *)

LEMMA ClearedTyped ==
    ASSUME NEW state \in EdgeState, state.life < MaxLives
    PROVE  /\ Cleared(state) \in EdgeState
           /\ Cleared(state).life = state.life + 1 /\ state.life + 1 \in Lives
           /\ Cleared(state).token = None /\ Cleared(state).digest = None
           /\ Cleared(state).desired = None /\ Cleared(state).sequence = 0
           /\ Cleared(state).outbox = state.outbox /\ Cleared(state).code = state.code
<1>1. state.life + 1 \in Lives /\ 0 \in 0..MaxBatches
  BY BoundsAssumption DEF EdgeState, Lives
<1> QED BY <1>1 DEF Cleared, EdgeState

\* The connector of a token that works.
LEMMA WorkingLinked ==
    ASSUME IInv, NEW e \in Edges, Working(e)
    PROVE  LET c == edge[e].token.connector
           IN  /\ edge[e].token \in Token /\ c \in Connectors /\ c \in Linked
               /\ links[c].paired /\ links[c].source = InstanceOf(e) /\ links[c].node = e
<1>1. edge[e].token # None /\ edge[e].token \in Token /\ TokenMade(e)
  BY EdgeTyped DEF IInv, Working
<1>2. edge[e].token.connector \in Connectors
  BY <1>1 DEF Token
<1> QED BY <1>1, <1>2 DEF Working, TokenMade

LEMMA ResetKeeps == ASSUME IInv, NEW e \in Edges, Reset(e) PROVE IInv'
<1>1. /\ edge[e].outbox = <<>> /\ edge[e].life < MaxLives
      /\ links' = IF Working(e) THEN [links EXCEPT ![edge[e].token.connector] =
                                         Revoked(links[edge[e].token.connector])]
                  ELSE links
      /\ edge' = edge \/ edge' = [edge EXCEPT ![e] = Cleared(edge[e])]
      /\ UNCHANGED <<receipts, issued, captured, home>>
  BY DEF Reset, MayReset
<1> USE DEF SequencesOK
<1>2. /\ links' \in Seq(Link) /\ Len(links') <= MaxConnectors /\ DOMAIN links' = Linked
      /\ SameOwners
      /\ \A c \in Linked : links'[c].code \in {None, links[c].code}
  <2>1. CASE Working(e)
    <3> DEFINE c == edge[e].token.connector
               v == Revoked(links[c])
    <3>1. c \in Linked /\ links[c] \in Link
      BY <2>1, WorkingLinked, LinksTyped DEF IInv
    <3>2. /\ v \in Link /\ v.source = links[c].source /\ v.node = links[c].node
          /\ v.generation = links[c].generation /\ v.code = None /\ ~v.paired
      BY <3>1, RevokedTyped
    <3>3. links' = [links EXCEPT ![c] = v]
      BY <1>1, <2>1
    <3> HIDE DEF c, v
    <3>4. /\ links' \in Seq(Link) /\ Len(links') <= MaxConnectors /\ DOMAIN links' = Linked
          /\ links'[c] = v /\ \A d \in Linked : d # c => links'[d] = links[d]
          /\ SameOwners
      BY <3>1, <3>2, <3>3, LinkChanged
    <3> QED BY <3>2, <3>4
  <2>2. CASE ~Working(e)
    <3>1. links' = links
      BY <1>1, <2>2
    <3>2. SameOwners
      BY <3>1, LinksTyped DEF SameOwners, Linked, IInv
    <3> QED BY <3>1, <3>2, LinksTyped DEF Linked, IInv
  <2> QED BY <2>1, <2>2
<1>3. \A x \in Edges :
         /\ edge'[x] \in EdgeState
         /\ edge'[x] = edge[x] \/ (x = e /\ edge'[x] = Cleared(edge[x]))
  BY <1>1, ClearedTyped DEF IInv, TypeOK
<1>4. edge' \in [Edges -> EdgeState]
  <2>1. edge' = [x \in Edges |-> edge'[x]]
    BY <1>1 DEF IInv, TypeOK
  <2> QED BY <1>3, <2>1
<1>5. /\ edge[e] \in EdgeState
      /\ \A x \in Edges :
         /\ edge'[x].outbox = edge[x].outbox /\ edge'[x].code = edge[x].code
         /\ edge'[x].digest \in {None, edge[x].digest}
  BY <1>1, <1>3, ClearedTyped DEF IInv, TypeOK
<1>6. SequencesOK'
  BY <1>2, <1>5, EdgeTyped DEF IInv
<1>7. CodesFall
  BY <1>1, <1>2, <1>5, NextCodeUnknown DEF CodesFall
<1>8. issued' \in 0..MaxCodes
  BY <1>1 DEF IInv, TypeOK
<1>9. CodesOnce' /\ CodesNewest
  BY <1>2, <1>6, <1>7, <1>8, CodesKept
<1>10. TypeOK'
  BY <1>1, <1>2, <1>4, <1>6, <1>7, <1>8, TypeKept
<1>11. RecordedOnce' /\ NoneForgotten'
  BY <1>1, <1>5 DEF IInv, RecordedOnce, NoneForgotten
<1>12. ASSUME NEW x \in Edges, edge'[x] = edge[x]
       PROVE  TokenMade(x)' /\ QueueCounted(x)' /\ HomeOrGone(x)'
  <2>1. TokenMade(x)'
    BY <1>2, <1>6, <1>12, TokensKept
  <2>2. QueueCounted(x)'
    BY <1>1, <1>12 DEF IInv, QueueCounted, Acked
  <2>3. HomeOrGone(x)'
    BY <1>1, <1>2, <1>6, <1>9, <1>12, HomeKept
  <2> QED BY <2>1, <2>2, <2>3
<1>13. ASSUME edge'[e] = Cleared(edge[e])
       PROVE  TokenMade(e)' /\ QueueCounted(e)' /\ HomeOrGone(e)'
  <2>1. /\ edge'[e].token = None /\ edge'[e].desired = None /\ edge'[e].sequence = 0
        /\ edge'[e].outbox = <<>> /\ edge'[e].life = edge[e].life + 1
        /\ edge[e].life + 1 \in Lives /\ edge[e].life \in Lives
    BY <1>1, <1>5, <1>13, ClearedTyped DEF EdgeState
  <2>2. TokenMade(e)'
    BY <2>1 DEF TokenMade
  <2>3. QueueCounted(e)'
    BY <1>1, <2>1, EdgeTyped DEF QueueCounted, Acked, IInv
  <2>4. /\ home[<<e, edge[e].life + 1>>] = None
        /\ \A c \in Connectors : Unknown(<<e, edge[e].life + 1>>, c)
    BY <2>1 DEF IInv, FutureUnknown, Lives
  <2>5. InstanceOf(e)' = <<e, edge[e].life + 1>>
    BY <2>1 DEF InstanceOf
  <2>6. \A c \in Connectors : Unknown(InstanceOf(e), c)'
    BY <1>1, <1>2, <2>4, <2>5 DEF Unknown, SameOwners, Linked
  <2>7. New(e)'
    BY <2>1, <2>6 DEF New
  <2> QED BY <1>1, <2>2, <2>3, <2>4, <2>5, <2>7 DEF HomeOrGone
<1>14. \A x \in Edges : edge'[x].life \in Lives /\ edge[x].life \in Lives
                        /\ edge[x].life <= edge'[x].life
                        /\ (edge'[x].life # edge[x].life => edge'[x].sequence = 0)
  BY <1>1, <1>3, <1>5, ClearedTyped, EdgeTyped DEF IInv, Lives
<1>15. FutureUnknown'
  <2>1. ASSUME NEW x \in Edges, NEW l \in Lives, l > edge'[x].life
        PROVE  home[<<x, l>>] = None /\ \A c \in Connectors : Unknown(<<x, l>>, c)'
    <3>1. l > edge[x].life
      BY <1>14, <2>1 DEF Lives
    <3>2. home[<<x, l>>] = None /\ \A c \in Connectors : Unknown(<<x, l>>, c)
      BY <3>1 DEF IInv, FutureUnknown
    <3> QED BY <1>1, <1>2, <3>2 DEF Unknown, SameOwners, Linked
  <2> QED BY <1>1, <2>1 DEF FutureUnknown
<1>16. Placed'
  <2> SUFFICES ASSUME NEW c \in Connectors, NEW r \in receipts[c] PROVE ReceiptPlaced(c, r)'
    BY <1>1 DEF Placed
  <2> DEFINE x == r.source[1]
  <2>1. /\ ReceiptPlaced(c, r) /\ x \in Edges /\ r.source[2] \in Lives
        /\ r.unit \in Nat
    BY ReceiptTyped DEF IInv, Placed
  <2>2. CASE edge'[x] = edge[x]
    BY <1>1, <2>1, <2>2 DEF ReceiptPlaced, Acked
  <2>3. CASE edge'[x] # edge[x]
    <3>1. x = e /\ edge'[x] = Cleared(edge[x])
      BY <1>3, <2>1, <2>3
    <3>2. edge'[x].life = edge[x].life + 1 /\ edge'[x].sequence = 0
      BY <1>1, <1>5, <3>1, ClearedTyped
    <3>3. r.unit <= captured[x] /\ r.source[2] <= edge[x].life
      BY <2>1 DEF ReceiptPlaced
    <3>4. /\ r.unit <= captured'[x] /\ r.source[2] <= edge'[x].life
          /\ r.source[2] # edge'[x].life /\ r.unit + edge'[x].sequence <= captured'[x]
      BY <1>1, <1>14, <2>1, <3>2, <3>3 DEF Lives
    <3> QED BY <3>4 DEF ReceiptPlaced
  <2> QED BY <2>2, <2>3
<1> QED BY <1>3, <1>6, <1>9, <1>10, <1>11, <1>12, <1>13, <1>15, <1>16 DEF IInv

-----------------------------------------------------------------------------
(* Upload. *)

\* The receipt of the head of the queue.
HeadReceipt(e) ==
    [source |-> InstanceOf(e), sequence |-> edge[e].outbox[1].sequence,
     unit |-> edge[e].outbox[1].unit]

LEMMA HeadIs ==
    ASSUME IInv, NEW e \in Edges, edge[e].outbox # <<>>
    PROVE  /\ Head(edge[e].outbox) = edge[e].outbox[1] /\ 1 \in DOMAIN edge[e].outbox
           /\ Len(edge[e].outbox) >= 1
           /\ edge[e].outbox[1] \in Batch
           /\ edge[e].outbox[1].sequence = Acked(e) + 1 /\ Acked(e) \in Nat
           /\ edge[e].outbox[1].unit + Len(edge[e].outbox) = captured[e] + 1
           /\ edge[e].outbox[1].sequence \in Unit /\ edge[e].outbox[1].unit \in Unit
           /\ edge[e].outbox[1].sequence \in Nat /\ edge[e].outbox[1].unit \in Nat
           /\ HeadReceipt(e) \in Receipt
           /\ HeadReceipt(e).source = InstanceOf(e)
           /\ HeadReceipt(e).sequence = edge[e].outbox[1].sequence
           /\ HeadReceipt(e).unit = edge[e].outbox[1].unit
<1>1. /\ edge[e].outbox \in Seq(Batch) /\ Len(edge[e].outbox) \in Nat
      /\ edge[e].sequence \in Nat /\ InstanceOf(e) \in Instance
  BY EdgeTyped DEF IInv
<1>2. /\ Len(edge[e].outbox) >= 1 /\ Head(edge[e].outbox) = edge[e].outbox[1]
      /\ 1 \in DOMAIN edge[e].outbox
  BY <1>1
<1>3. /\ edge[e].outbox[1] \in Batch
      /\ edge[e].outbox[1].sequence \in Unit /\ edge[e].outbox[1].unit \in Unit
      /\ edge[e].outbox[1].sequence \in Nat /\ edge[e].outbox[1].unit \in Nat
  BY <1>2, BatchTyped DEF IInv
<1>4. QueueCounted(e)
  BY DEF IInv
<1>5. /\ Len(edge[e].outbox) <= edge[e].sequence
      /\ edge[e].outbox[1].sequence = Acked(e) + 1
      /\ edge[e].outbox[1].unit + Len(edge[e].outbox) = captured[e] + 1
  BY <1>2, <1>4 DEF QueueCounted
<1>6. Acked(e) \in Nat
  BY <1>1, <1>5 DEF Acked
<1>7. /\ HeadReceipt(e) \in Receipt
      /\ HeadReceipt(e).source = InstanceOf(e)
      /\ HeadReceipt(e).sequence = edge[e].outbox[1].sequence
      /\ HeadReceipt(e).unit = edge[e].outbox[1].unit
  BY <1>1, <1>3 DEF HeadReceipt, Receipt
<1> QED BY <1>2, <1>3, <1>5, <1>6, <1>7

LEMMA Less ==
    ASSUME NEW u \in Nat, NEW s \in Nat, NEW n \in Nat, NEW k \in Nat,
           u + n = k + 1, n <= s, u + s <= k
    PROVE  FALSE
OBVIOUS

\* A receipt of the head is on the connector of its route.
LEMMA HeadPlaced ==
    ASSUME IInv, NEW e \in Edges, edge[e].outbox # <<>>, NEW c \in Connectors,
           NEW r \in receipts[c], r.source[1] = e, r.unit = edge[e].outbox[1].unit
    PROVE  c = edge[e].outbox[1].route /\ r = HeadReceipt(e)
<1>1. /\ r.source = <<r.source[1], r.source[2]>> /\ r.source[2] \in Lives
      /\ r.sequence \in Nat /\ r.unit \in Nat /\ r \in Receipt
  BY ReceiptTyped DEF IInv
<1>2. /\ captured[e] \in Nat /\ edge[e].sequence \in Nat /\ Len(edge[e].outbox) \in Nat
      /\ edge[e].life \in Lives
      /\ Len(edge[e].outbox) <= edge[e].sequence
  BY EdgeTyped DEF IInv, QueueCounted
<1>3. ReceiptPlaced(c, r)
  BY DEF IInv, Placed
<1>4. /\ r.source[2] <= edge[e].life
      /\ r.source[2] < edge[e].life => r.unit + edge[e].sequence <= captured[e]
      /\ r.source[2] = edge[e].life =>
            /\ r.unit + edge[e].sequence = captured[e] + r.sequence
            /\ \/ r.sequence <= Acked(e)
               \/ r.sequence = Acked(e) + 1 /\ edge[e].outbox[1].route = c
  BY <1>3 DEF ReceiptPlaced
<1>5. r.unit + Len(edge[e].outbox) = captured[e] + 1
  BY HeadIs
<1>6. ~(r.source[2] < edge[e].life)
  <2> SUFFICES ASSUME r.source[2] < edge[e].life PROVE FALSE
    OBVIOUS
  <2>1. r.unit + edge[e].sequence <= captured[e]
    BY <1>4
  <2> QED BY <1>1, <1>2, <1>5, <2>1, Less
<1>7. r.source[2] = edge[e].life
  BY <1>1, <1>2, <1>4, <1>6 DEF Lives
<1>8. r.sequence = Acked(e) + 1
  <2>1. r.unit + edge[e].sequence = captured[e] + r.sequence
    BY <1>4, <1>7
  <2>2. r.sequence = (edge[e].sequence - Len(edge[e].outbox)) + 1
    <3>1. /\ r.unit \in Nat /\ edge[e].sequence \in Nat /\ Len(edge[e].outbox) \in Nat
          /\ captured[e] \in Nat /\ r.sequence \in Nat
      BY <1>1, <1>2
    <3>2. \A s, n, k, m \in Nat :
             r.unit + n = k + 1 /\ r.unit + s = k + m => m = (s - n) + 1
      BY <3>1
    <3>3. \A n, k, m \in Nat :
             r.unit + n = k + 1 /\ r.unit + edge[e].sequence = k + m
                => m = (edge[e].sequence - n) + 1
      BY <3>1, <3>2, ZenonT(30)
    <3>4. \A k, m \in Nat :
             r.unit + Len(edge[e].outbox) = k + 1 /\ r.unit + edge[e].sequence = k + m
                => m = (edge[e].sequence - Len(edge[e].outbox)) + 1
      BY <3>1, <3>3, ZenonT(30)
    <3>5. \A m \in Nat :
             r.unit + edge[e].sequence = captured[e] + m
                => m = (edge[e].sequence - Len(edge[e].outbox)) + 1
      BY <1>5, <3>1, <3>4, ZenonT(30)
    <3> QED BY <2>1, <3>1, <3>5, ZenonT(30)
  <2> QED BY <2>2 DEF Acked
<1>9. edge[e].outbox[1].route = c
  BY <1>1, <1>2, <1>4, <1>7, <1>8 DEF Acked
<1>10. r.source = InstanceOf(e) /\ r.sequence = edge[e].outbox[1].sequence
  BY <1>1, <1>7, <1>8, HeadIs DEF InstanceOf
<1>11. r = HeadReceipt(e)
  BY <1>1, <1>10 DEF Receipt, HeadReceipt
<1> QED BY <1>9, <1>11

\* What an accepted upload records.
LEMMA UploadRecords ==
    ASSUME IInv, NEW e \in Edges, Upload(e)
    PROVE  LET c == edge[e].token.connector
               R == HeadReceipt(e)
           IN  /\ edge[e].outbox # <<>> /\ edge[e].token # None
               /\ c \in Connectors /\ c \in Linked /\ links[c].source = InstanceOf(e)
               /\ edge[e].outbox[1].route = c
               /\ receipts' \in [Connectors -> SUBSET Receipt]
               /\ \A d \in Connectors : receipts[d] \subseteq receipts'[d]
               /\ R \in receipts'[c]
               /\ \A d \in Connectors : \A r \in receipts'[d] :
                     r \in receipts[d] \/ (d = c /\ r = R)
<1> DEFINE c == edge[e].token.connector
           R == HeadReceipt(e)
           h == edge[e].outbox[1]
<1>1. /\ edge[e].outbox # <<>> /\ Working(e)
      /\ Verdict(c, InstanceOf(e), Head(edge[e].outbox)) \in {"accepted", "deduplicated"}
      /\ receipts' = [receipts EXCEPT ![c] = receipts[c] \union
                          {[source |-> InstanceOf(e), sequence |-> Head(edge[e].outbox).sequence,
                            unit |-> Head(edge[e].outbox).unit]}]
  BY DEF Upload, HeadVerdict
<1>2. /\ c \in Connectors /\ c \in Linked /\ links[c].source = InstanceOf(e)
      /\ edge[e].token # None
  BY <1>1, WorkingLinked DEF Working
<1>3. Head(edge[e].outbox) = h /\ R \in Receipt
  BY <1>1, HeadIs
<1>4. receipts' = [receipts EXCEPT ![c] = receipts[c] \union {R}]
  BY <1>1, <1>3 DEF HeadReceipt
<1>5. receipts \in [Connectors -> SUBSET Receipt]
  BY DEF IInv, TypeOK
<1>6. /\ receipts' \in [Connectors -> SUBSET Receipt]
      /\ \A d \in Connectors : receipts[d] \subseteq receipts'[d]
      /\ R \in receipts'[c]
      /\ \A d \in Connectors : \A r \in receipts'[d] : r \in receipts[d] \/ (d = c /\ r = R)
  <2> HIDE DEF R, c
  <2> QED BY <1>2, <1>3, <1>4, <1>5
<1>7. h.route = c
  <2> DEFINE same == {r \in {r \in receipts[c] : r.source = InstanceOf(e)} :
                         r.sequence = h.sequence}
  <2>1. CASE same # {}
    <3>1. \A r \in same : r.unit = h.unit
      <4>1. (\A r \in same : r.unit = h.unit)
              \/ Verdict(c, InstanceOf(e), h) = "conflict"
        BY <1>2, <2>1 DEF Verdict
      <4> QED BY <1>1, <1>3, <4>1
    <3>2. PICK r \in same : TRUE
      BY <2>1
    <3>3. r \in receipts[c] /\ r.source = InstanceOf(e) /\ r.unit = h.unit
      BY <3>1, <3>2
    <3>4. r.source[1] = e
      BY <3>3, EdgeTyped DEF IInv
    <3> QED BY <1>1, <1>2, <3>3, <3>4, HeadPlaced
  <2>2. CASE same = {}
    <3>1. \/ Verdict(c, InstanceOf(e), h) = "out_of_order"
          \/ Verdict(c, InstanceOf(e), h) = "assignment_conflict"
          \/ h.route = c
      BY <1>2, <2>2 DEF Verdict
    <3> QED BY <1>1, <1>3, <3>1
  <2> QED BY <2>1, <2>2
<1> QED BY <1>1, <1>2, <1>6, <1>7

\* Links that stay as they are.
LEMMA LinksSame ==
    ASSUME IInv, links' = links
    PROVE  SameOwners /\ links' \in Seq(Link) /\ Len(links') <= MaxConnectors
<1>1. /\ links \in Seq(Link) /\ Len(links) \in Nat /\ Len(links) <= MaxConnectors
  BY LinksTyped DEF IInv
<1> QED BY <1>1 DEF SameOwners, Linked

\* Edge connections that keep their identity, token and codes.
SamePairing ==
    \A e \in Edges : /\ edge'[e].life = edge[e].life /\ edge'[e].token = edge[e].token
                     /\ edge'[e].code = edge[e].code /\ edge'[e].digest = edge[e].digest

LEMMA PairingKept ==
    ASSUME IInv, UNCHANGED <<links, issued, home>>, SamePairing, SequencesOK'
    PROVE  /\ SameOwners /\ CodesOnce' /\ CodesNewest
           /\ \A e \in Edges : TokenMade(e)'
           /\ \A e \in Edges, c \in DOMAIN links' :
                 links'[c].code # None => links'[c].code # edge'[e].digest
<1>1. SameOwners
  BY LinksSame
<1>2. CodesFall
  BY NextCodeUnknown DEF CodesFall, SamePairing, Linked
<1>3. issued' \in 0..MaxCodes
  BY DEF IInv, TypeOK
<1>4. \A e \in Edges : TokenMade(e)'
  BY <1>1, TokensKept DEF SamePairing
<1> QED BY <1>1, <1>2, <1>3, <1>4, CodesKept

\* The types after a step of the queues.
LEMMA QueueTyped ==
    ASSUME IInv, UNCHANGED <<links, issued, home>>, SamePairing, SequencesOK',
           edge' \in [Edges -> EdgeState], receipts' \in [Connectors -> SUBSET Receipt],
           captured' \in [Edges -> 0..MaxBatches]
    PROVE  TypeOK'
<1>1. \A e \in Edges, c \in DOMAIN links' :
         links'[c].code # None => links'[c].code # edge'[e].digest
  BY PairingKept
<1>2. TypeOK
  BY DEF IInv
<1> QED BY <1>1, <1>2 DEF TypeOK

\* The queue without its head.
LEMMA Shorter ==
    ASSUME IInv, NEW e \in Edges, edge[e].outbox # <<>>
    PROVE  LET q == edge[e].outbox
               n == Len(q)
           IN  /\ Tail(q) \in Seq(Batch) /\ Len(Tail(q)) = n - 1 /\ n - 1 \in Nat
               /\ DOMAIN Tail(q) = 1..(n - 1)
               /\ \A k \in 1..(n - 1) : Tail(q)[k] = q[k + 1] /\ k + 1 \in DOMAIN q
               /\ Len(Tail(q)) <= MaxOutbox
<1> DEFINE q == edge[e].outbox
           n == Len(q)
<1>1. q \in Seq(Batch) /\ q # <<>> /\ n \in Nat /\ n >= 1 /\ n <= MaxOutbox
  BY EdgeTyped, HeadIs DEF IInv
<1> HIDE DEF q
<1>2. Tail(q) \in Seq(Batch) /\ Len(Tail(q)) = n - 1 /\ n - 1 \in Nat
  BY <1>1
<1>3. \A k \in 1..(n - 1) : Tail(q)[k] = q[k + 1] /\ k + 1 \in DOMAIN q
  BY <1>1
<1>4. DOMAIN Tail(q) = 1..(n - 1) /\ Len(Tail(q)) <= MaxOutbox
  BY <1>1, <1>2, BoundsAssumption
<1> QED BY <1>2, <1>3, <1>4 DEF q

\* What an upload does to the Edge connections.
LEMMA UploadEdges ==
    ASSUME IInv, NEW e \in Edges, Upload(e)
    PROVE  /\ edge' \in [Edges -> EdgeState]
           /\ \A x \in Edges : /\ edge'[x].life = edge[x].life /\ edge'[x].token = edge[x].token
                               /\ edge'[x].code = edge[x].code
                               /\ edge'[x].digest = edge[x].digest
                               /\ edge'[x].desired = edge[x].desired
                               /\ edge'[x].sequence = edge[x].sequence
                               /\ x # e => edge'[x].outbox = edge[x].outbox
           /\ edge'[e].outbox \in {edge[e].outbox, Tail(edge[e].outbox)}
           /\ UNCHANGED <<links, issued, captured, home>>
<1>1. /\ edge' = edge \/ edge' = [edge EXCEPT ![e].outbox = Tail(edge[e].outbox)]
      /\ UNCHANGED <<links, issued, captured, home>>
      /\ edge[e].outbox # <<>>
  BY DEF Upload
<1>2. edge \in [Edges -> EdgeState]
  BY DEF IInv, TypeOK
<1>3. Tail(edge[e].outbox) \in UNION {[1..n -> Batch] : n \in 0..MaxOutbox}
  BY <1>1, Shorter, QueueIs
<1> DEFINE v == [edge[e] EXCEPT !.outbox = Tail(edge[e].outbox)]
<1>4. /\ v \in EdgeState
      /\ v.life = edge[e].life /\ v.token = edge[e].token /\ v.code = edge[e].code
      /\ v.digest = edge[e].digest /\ v.desired = edge[e].desired
      /\ v.sequence = edge[e].sequence /\ v.outbox = Tail(edge[e].outbox)
  <2>1. edge[e] \in EdgeState
    BY <1>2
  <2> QED BY <1>3, <2>1 DEF EdgeState
<1>5. CASE edge' = edge
  BY <1>1, <1>2, <1>5
<1>6. CASE edge' = [edge EXCEPT ![e] = v]
  <2> HIDE DEF v
  <2> QED BY <1>1, <1>2, <1>4, <1>6
<1> QED BY <1>1, <1>5, <1>6

LEMMA UploadKeeps == ASSUME IInv, NEW e \in Edges, Upload(e) PROVE IInv'
<1> DEFINE c == edge[e].token.connector
           R == HeadReceipt(e)
           q == edge[e].outbox
           n == Len(q)
<1>1. /\ q # <<>> /\ edge[e].token # None
      /\ c \in Connectors /\ c \in Linked /\ links[c].source = InstanceOf(e)
      /\ q[1].route = c
      /\ receipts' \in [Connectors -> SUBSET Receipt]
      /\ \A d \in Connectors : receipts[d] \subseteq receipts'[d]
      /\ R \in receipts'[c]
      /\ \A d \in Connectors : \A r \in receipts'[d] : r \in receipts[d] \/ (d = c /\ r = R)
  BY UploadRecords
<1>2. /\ edge' \in [Edges -> EdgeState]
      /\ \A x \in Edges : /\ edge'[x].life = edge[x].life /\ edge'[x].token = edge[x].token
                          /\ edge'[x].code = edge[x].code
                          /\ edge'[x].digest = edge[x].digest
                          /\ edge'[x].desired = edge[x].desired
                          /\ edge'[x].sequence = edge[x].sequence
                          /\ x # e => edge'[x].outbox = edge[x].outbox
      /\ edge'[e].outbox \in {q, Tail(q)}
      /\ UNCHANGED <<links, issued, captured, home>>
  BY UploadEdges
<1>3. /\ R.source = InstanceOf(e) /\ InstanceOf(e)[1] = e /\ InstanceOf(e)[2] = edge[e].life
      /\ R.sequence = Acked(e) + 1 /\ Acked(e) \in Nat /\ R.sequence \in Nat
      /\ R.unit + n = captured[e] + 1 /\ R.unit = q[1].unit /\ R.unit \in Nat
      /\ n \in Nat /\ n >= 1 /\ n <= edge[e].sequence /\ edge[e].sequence <= captured[e]
      /\ edge[e].sequence \in Nat /\ captured[e] \in Nat
      /\ Acked(e) = edge[e].sequence - n
  BY <1>1, HeadIs, EdgeTyped DEF IInv, QueueCounted, Acked
<1>4. /\ Tail(q) \in Seq(Batch) /\ Len(Tail(q)) = n - 1 /\ n - 1 \in Nat
      /\ DOMAIN Tail(q) = 1..(n - 1)
      /\ \A k \in 1..(n - 1) : Tail(q)[k] = q[k + 1] /\ k + 1 \in DOMAIN q
      /\ Len(Tail(q)) <= MaxOutbox
  BY <1>1, Shorter
<1>5. q \in Seq(Batch) /\ n <= MaxOutbox /\ DOMAIN q = 1..n
  BY EdgeTyped DEF IInv
<1> HIDE DEF c, R, q, n
<1>6. SequencesOK'
  <2>1. \A x \in Edges : edge'[x].outbox \in Seq(Batch) /\ Len(edge'[x].outbox) <= MaxOutbox
    BY <1>2, <1>4, <1>5, EdgeTyped DEF IInv, n
  <2> QED BY <1>2, <2>1, LinksTyped DEF SequencesOK, IInv
<1>7. SamePairing
  BY <1>2 DEF SamePairing
<1>8. SameOwners /\ CodesOnce' /\ CodesNewest /\ \A x \in Edges : TokenMade(x)'
  BY <1>2, <1>6, <1>7, PairingKept
<1>9. TypeOK'
  <2>1. captured' \in [Edges -> 0..MaxBatches]
    BY <1>2 DEF IInv, TypeOK
  <2> QED BY <1>1, <1>2, <1>6, <1>7, <2>1, QueueTyped
<1>10. /\ Acked(e)' = edge[e].sequence - Len(edge'[e].outbox)
       /\ \/ edge'[e].outbox = q /\ Acked(e)' = Acked(e)
          \/ edge'[e].outbox = Tail(q) /\ Acked(e)' = Acked(e) + 1
  <2>1. Acked(e)' = edge[e].sequence - Len(edge'[e].outbox)
    BY <1>2 DEF Acked
  <2>2. CASE edge'[e].outbox = q
    BY <1>3, <2>1, <2>2 DEF n
  <2>3. CASE edge'[e].outbox = Tail(q)
    <3>1. Acked(e)' = edge[e].sequence - (n - 1)
      BY <1>4, <2>1, <2>3
    <3> QED BY <1>3, <2>1, <2>3, <3>1
  <2> QED BY <1>2, <2>2, <2>3
<1>11. \A x \in Edges : x # e => Acked(x)' = Acked(x)
  BY <1>2 DEF Acked
<1>12. ASSUME NEW x \in Edges PROVE QueueCounted(x)'
  <2>0. QueueCounted(x)
    BY DEF IInv
  <2>1. CASE edge'[x].outbox = edge[x].outbox
    BY <1>2, <2>0, <2>1 DEF QueueCounted, Acked
  <2>2. CASE x = e /\ edge'[e].outbox = Tail(q)
    <3>1. Acked(e)' = Acked(e) + 1
      BY <1>3, <1>4, <1>10, <2>2
    <3>2. ASSUME NEW k \in 1..(n - 1)
          PROVE  /\ Tail(q)[k].sequence = Acked(e)' + k
                 /\ Tail(q)[k].unit + (n - 1) = captured[e] + k
      <4>1. Tail(q)[k] = q[k + 1] /\ k + 1 \in DOMAIN q
        BY <1>4
      <4>2. q[k + 1].unit \in Nat
        BY <4>1, BatchTyped DEF IInv, q
      <4>3. q[k + 1].sequence = Acked(e) + (k + 1) /\ q[k + 1].unit + n = captured[e] + (k + 1)
        BY <2>0, <2>2, <4>1 DEF QueueCounted, q, n
      <4>4. q[k + 1].unit + (n - 1) = captured[e] + k
        BY <1>3, <4>2, <4>3
      <4>5. Acked(e) + (k + 1) = (Acked(e) + 1) + k
        BY <1>3
      <4> QED BY <3>1, <4>1, <4>3, <4>4, <4>5
    <3>3. Len(Tail(q)) <= edge[e].sequence
      BY <1>3, <1>4
    <3>4. /\ edge'[e].outbox = Tail(q) /\ Len(Tail(q)) = n - 1 /\ DOMAIN Tail(q) = 1..(n - 1)
          /\ captured'[e] = captured[e] /\ edge'[e].sequence = edge[e].sequence
      BY <1>2, <1>4, <2>2
    <3> QED BY <1>3, <2>2, <3>2, <3>3, <3>4 DEF QueueCounted
  <2> QED BY <1>2, <2>1, <2>2 DEF q
<1>13. Placed'
  <2> SUFFICES ASSUME NEW d \in Connectors, NEW r \in receipts'[d] PROVE ReceiptPlaced(d, r)'
    BY DEF Placed
  <2>1. CASE r \in receipts[d]
    <3>1. /\ r.source[1] \in Edges /\ r.source[2] \in Lives /\ r.sequence \in Nat
          /\ r.unit \in Nat /\ ReceiptPlaced(d, r)
      BY <2>1, ReceiptTyped DEF IInv, Placed
    <3>2. CASE edge'[r.source[1]].outbox = edge[r.source[1]].outbox
      BY <1>2, <3>1, <3>2 DEF ReceiptPlaced, Acked
    <3>3. CASE r.source[1] = e /\ edge'[e].outbox = Tail(q)
      <4>1. Acked(e)' = Acked(e) + 1
        BY <1>3, <1>4, <1>10, <3>3
      <4>2. r.source[2] = edge[e].life => r.sequence <= Acked(e) \/ r.sequence = Acked(e) + 1
        BY <3>1, <3>3 DEF ReceiptPlaced
      <4>3. r.source[2] = edge[e].life => r.sequence <= Acked(e)'
        BY <1>3, <3>1, <4>1, <4>2
      <4> QED BY <1>2, <3>1, <3>3, <4>3 DEF ReceiptPlaced
    <3> QED BY <1>2, <3>1, <3>2, <3>3 DEF q
  <2>2. CASE d = c /\ r = R
    <3>1. /\ r.source[1] = e /\ r.source[2] = edge[e].life /\ r.sequence = Acked(e) + 1
          /\ r.unit = R.unit
      BY <1>3, <2>2
    <3>2. r.unit <= captured[e] /\ r.unit + edge[e].sequence = captured[e] + r.sequence
      BY <1>3, <3>1
    <3>3. \/ r.sequence <= Acked(e)'
          \/ r.sequence = Acked(e)' + 1 /\ edge'[e].outbox # <<>> /\ edge'[e].outbox[1].route = d
      BY <1>1, <1>3, <1>10, <2>2, <3>1
    <3>4. edge[e].life <= edge[e].life /\ ~(edge[e].life < edge[e].life)
      BY EdgeTyped DEF IInv, Lives
    <3> QED BY <1>2, <3>1, <3>2, <3>3, <3>4 DEF ReceiptPlaced
  <2> QED BY <1>1, <2>1, <2>2
<1>14. RecordedOnce'
  <2>1. ASSUME NEW a \in Connectors, NEW r \in receipts[a], r.source[1] = e, r.unit = R.unit
        PROVE  a = c /\ r = R
    BY <1>1, <1>3, <2>1, HeadPlaced DEF q, R
  <2> SUFFICES ASSUME NEW a \in Connectors, NEW b \in Connectors,
                      NEW r \in receipts'[a], NEW s \in receipts'[b],
                      r.source[1] = s.source[1], r.unit = s.unit
               PROVE  a = b /\ r = s
    BY DEF RecordedOnce
  <2>2. CASE r \in receipts[a] /\ s \in receipts[b]
    BY <2>2 DEF IInv, RecordedOnce
  <2>3. CASE r \in receipts[a] /\ b = c /\ s = R
    BY <1>3, <2>1, <2>3
  <2>4. CASE a = c /\ r = R /\ s \in receipts[b]
    BY <1>3, <2>1, <2>4
  <2> QED BY <1>1, <2>2, <2>3, <2>4
<1>15. NoneForgotten'
  <2> SUFFICES ASSUME NEW x \in Edges, NEW u \in 1..captured[x]
               PROVE  \/ \E d \in Connectors : \E r \in receipts'[d] :
                            r.source[1] = x /\ r.unit = u
                      \/ \E k \in DOMAIN edge'[x].outbox : edge'[x].outbox[k].unit = u
    BY <1>2 DEF NoneForgotten
  <2>1. CASE \E d \in Connectors : \E r \in receipts[d] : r.source[1] = x /\ r.unit = u
    BY <1>1, <2>1
  <2>2. ASSUME NEW k \in DOMAIN edge[x].outbox, edge[x].outbox[k].unit = u
        PROVE  \/ \E d \in Connectors : \E r \in receipts'[d] :
                     r.source[1] = x /\ r.unit = u
               \/ \E j \in DOMAIN edge'[x].outbox : edge'[x].outbox[j].unit = u
    <3>1. CASE edge'[x].outbox = edge[x].outbox
      BY <2>2, <3>1
    <3>2. CASE x = e /\ edge'[e].outbox = Tail(q) /\ k = 1
      BY <1>1, <1>3, <2>2, <3>2 DEF q
    <3>3. CASE x = e /\ edge'[e].outbox = Tail(q) /\ k # 1
      <4>1. k \in 1..n /\ edge[x].outbox = q
        BY <1>5, <2>2, <3>3 DEF q
      <4>2. k - 1 \in 1..(n - 1) /\ (k - 1) + 1 = k
        BY <1>3, <3>3, <4>1
      <4>3. k - 1 \in DOMAIN Tail(q) /\ Tail(q)[k - 1] = q[k]
        BY <1>4, <4>2
      <4> QED BY <2>2, <3>3, <4>1, <4>3
    <3> QED BY <1>2, <3>1, <3>2, <3>3 DEF q
  <2> QED BY <2>1, <2>2 DEF IInv, NoneForgotten
<1>16. \A i \in Instance, d \in Connectors :
          i # InstanceOf(e) /\ Unknown(i, d) => Unknown(i, d)'
  BY <1>1, <1>2, <1>3 DEF Unknown, Linked
<1>17. FutureUnknown'
  <2>1. ASSUME NEW x \in Edges, NEW l \in Lives, l > edge[x].life
        PROVE  home[<<x, l>>] = None /\ \A d \in Connectors : Unknown(<<x, l>>, d)'
    <3>1. home[<<x, l>>] = None /\ \A d \in Connectors : Unknown(<<x, l>>, d)
      BY <2>1 DEF IInv, FutureUnknown
    <3>2. <<x, l>> \in Instance /\ <<x, l>> # InstanceOf(e)
      <4>1. l # edge[x].life
        BY <2>1, EdgeTyped DEF IInv, Lives
      <4> QED BY <4>1 DEF Instance, InstanceOf
    <3> QED BY <1>16, <3>1, <3>2
  <2> QED BY <1>2, <2>1 DEF FutureUnknown
<1>18. ASSUME NEW x \in Edges PROVE HomeOrGone(x)'
  <2> DEFINE h == home[InstanceOf(x)]
  <2>1. InstanceOf(x)' = InstanceOf(x) /\ InstanceOf(x) \in Instance /\ CodeLink(x)' = CodeLink(x)
    BY <1>2, EdgeTyped DEF InstanceOf, CodeLink, IInv
  <2>2. HomeOrGone(x)
    BY DEF IInv
  <2>3. CASE x # e
    <3>1. InstanceOf(x) # InstanceOf(e)
      BY <2>3 DEF InstanceOf
    <3>2. \A d \in Connectors : Unknown(InstanceOf(x), d) => Unknown(InstanceOf(x), d)'
      BY <1>16, <2>1, <3>1 DEF Unknown
    <3>3. New(x) => New(x)'
      BY <1>2, <2>3, <3>2 DEF New
    <3>4. AtHome(x, h) /\ h \in Connectors => AtHome(x, h)'
      BY <1>1, <1>2, <1>11, <2>1, <2>3, <3>2 DEF AtHome
    <3>5. Gone(x, h) => Gone(x, h)'
      BY <1>2, <2>1 DEF Gone
    <3>6. h \in Linked => h \in Connectors /\ h \in Linked'
      BY <1>2, LinksTyped DEF IInv, Linked
    <3>7. home'[InstanceOf(x)'] = h
      BY <1>2, <2>1
    <3> HIDE DEF h
    <3> QED BY <2>1, <2>2, <3>3, <3>4, <3>5, <3>6, <3>7 DEF HomeOrGone, h
  <2>4. CASE x = e
    <3>1. h # None
      BY <1>1, <2>2, <2>4 DEF HomeOrGone, New
    <3>2. /\ h \in Linked /\ h \in Connectors /\ \A d \in CodeLink(x) : h <= d
          /\ AtHome(x, h) \/ Gone(x, h)
      BY <2>2, <3>1, LinksTyped DEF HomeOrGone, IInv
    <3>3. Gone(x, h) => Gone(x, h)'
      BY <1>2, <2>1 DEF Gone
    <3>4. ASSUME AtHome(e, h) PROVE AtHome(e, h)'
      <4>1. c = h
        BY <1>1, <3>4 DEF AtHome, c
      <4>2. \A d \in Connectors : d # h => Unknown(InstanceOf(e), d)'
        BY <1>1, <1>2, <2>1, <2>4, <3>4, <4>1 DEF AtHome, Unknown, Linked
      <4>3. \A k \in DOMAIN edge'[e].outbox : edge'[e].outbox[k].route = h
        <5>1. \A k \in DOMAIN q : q[k].route = h
          BY <3>4 DEF AtHome, q
        <5>2. \A k \in DOMAIN Tail(q) : Tail(q)[k].route = h
          BY <1>4, <5>1
        <5> QED BY <1>2, <5>1, <5>2
      <4>4. Acked(e)' # 0 => \E r \in receipts'[h] : r.source = InstanceOf(e)
                                                     /\ r.sequence = Acked(e)'
        <5>1. CASE Acked(e)' = Acked(e)
          BY <1>1, <3>2, <3>4, <5>1 DEF AtHome
        <5>2. CASE Acked(e)' = Acked(e) + 1
          BY <1>1, <1>3, <4>1, <5>2
        <5> QED BY <1>10, <5>1, <5>2
      <4> QED BY <1>2, <2>1, <2>4, <3>4, <4>2, <4>3, <4>4 DEF AtHome
    <3>5. h \in Linked' /\ home'[InstanceOf(x)'] = h
      BY <1>2, <2>1, <3>2 DEF Linked
    <3> HIDE DEF h
    <3> QED BY <2>1, <2>4, <3>1, <3>2, <3>3, <3>4, <3>5 DEF HomeOrGone, h
  <2> QED BY <2>3, <2>4
<1> QED BY <1>6, <1>8, <1>9, <1>12, <1>13, <1>14, <1>15, <1>17, <1>18 DEF IInv

-----------------------------------------------------------------------------
(* The desired snapshot and the capture. *)

LEMMA PullDesiredKeeps == ASSUME IInv, NEW e \in Edges, PullDesired(e) PROVE IInv'
<1> DEFINE c == edge[e].token.connector
           v == [edge[e] EXCEPT !.desired = c]
<1>1. /\ edge' = [edge EXCEPT ![e] = v] /\ edge[e].token # None
      /\ UNCHANGED <<links, receipts, issued, captured, home>>
  BY DEF PullDesired, Paired
<1>2. c \in Connectors
  BY WorkingLinked DEF PullDesired
<1>3. edge \in [Edges -> EdgeState] /\ edge[e] \in EdgeState
  BY DEF IInv, TypeOK
<1>4. /\ v \in EdgeState
      /\ v.life = edge[e].life /\ v.token = edge[e].token /\ v.code = edge[e].code
      /\ v.digest = edge[e].digest /\ v.desired = c
      /\ v.sequence = edge[e].sequence /\ v.outbox = edge[e].outbox
  BY <1>2, <1>3 DEF EdgeState
<1> HIDE DEF v
<1>5. /\ edge' \in [Edges -> EdgeState]
      /\ \A x \in Edges : /\ edge'[x].life = edge[x].life /\ edge'[x].token = edge[x].token
                          /\ edge'[x].code = edge[x].code
                          /\ edge'[x].digest = edge[x].digest
                          /\ edge'[x].sequence = edge[x].sequence
                          /\ edge'[x].outbox = edge[x].outbox
                          /\ edge'[x].desired = IF x = e THEN c ELSE edge[x].desired
  BY <1>1, <1>3, <1>4
<1>6. SamePairing /\ SameQueues
  BY <1>1, <1>5 DEF SamePairing, SameQueues
<1>7. SequencesOK'
  BY <1>1, <1>5, EdgeTyped, LinksTyped DEF SequencesOK, IInv
<1>8. SameOwners /\ CodesOnce' /\ CodesNewest /\ \A x \in Edges : TokenMade(x)'
  BY <1>1, <1>6, <1>7, PairingKept
<1>9. TypeOK'
  <2>1. captured' \in [Edges -> 0..MaxBatches] /\ receipts' \in [Connectors -> SUBSET Receipt]
    BY <1>1 DEF IInv, TypeOK
  <2> QED BY <1>1, <1>5, <1>6, <1>7, <2>1, QueueTyped
<1>10. (\A x \in Edges : QueueCounted(x)') /\ Placed' /\ RecordedOnce' /\ NoneForgotten'
  BY <1>6, QueuesKept
<1>11. FutureUnknown'
  BY <1>1, <1>5, <1>7, <1>8, FutureKept
<1>12. ASSUME NEW x \in Edges PROVE HomeOrGone(x)'
  <2>1. CASE x # e
    BY <1>1, <1>5, <1>7, <1>8, <2>1, HomeKept
  <2>2. CASE x = e
    <3> DEFINE h == home[InstanceOf(e)]
    <3>1. InstanceOf(e)' = InstanceOf(e) /\ CodeLink(e)' = CodeLink(e)
      BY <1>1, <1>5 DEF InstanceOf, CodeLink
    <3>2. /\ h # None /\ h \in Linked /\ \A d \in CodeLink(e) : h <= d
          /\ AtHome(e, h) \/ Gone(e, h)
      BY <1>1 DEF IInv, HomeOrGone, New
    <3>3. Gone(e, h) => Gone(e, h)'
      BY <1>1, <3>1 DEF Gone
    <3>4. ASSUME AtHome(e, h) PROVE AtHome(e, h)'
      <4>1. c = h
        BY <1>1, <3>4 DEF AtHome
      <4>2. \A d \in Connectors : Unknown(InstanceOf(e), d) => Unknown(InstanceOf(e), d)'
        BY <1>1, <3>1 DEF Unknown, Linked
      <4>3. Acked(e)' = Acked(e)
        BY <1>5 DEF Acked
      <4> QED BY <1>1, <1>5, <3>1, <3>4, <4>1, <4>2, <4>3 DEF AtHome
    <3>5. h \in Linked' /\ home'[InstanceOf(e)'] = h
      BY <1>1, <3>1, <3>2 DEF Linked
    <3> HIDE DEF h
    <3> QED BY <2>2, <3>1, <3>2, <3>3, <3>4, <3>5 DEF HomeOrGone, h
  <2> QED BY <2>1, <2>2
<1> QED BY <1>7, <1>8, <1>9, <1>10, <1>11, <1>12 DEF IInv

\* The queue with one batch more.
LEMMA Longer ==
    ASSUME TypeOK, NEW e \in Edges, NEW b \in Batch, Len(edge[e].outbox) < MaxOutbox
    PROVE  LET q == edge[e].outbox
               n == Len(q)
           IN  /\ Append(q, b) \in Seq(Batch) /\ Len(Append(q, b)) = n + 1
               /\ DOMAIN Append(q, b) = 1..(n + 1) /\ Append(q, b)[n + 1] = b
               /\ \A k \in 1..n : Append(q, b)[k] = q[k]
               /\ Len(Append(q, b)) <= MaxOutbox
<1> DEFINE q == edge[e].outbox
           n == Len(q)
<1>1. q \in Seq(Batch) /\ n \in Nat /\ n < MaxOutbox
  BY EdgeTyped
<1> HIDE DEF q
<1>2. /\ Append(q, b) \in Seq(Batch) /\ Len(Append(q, b)) = n + 1
      /\ DOMAIN Append(q, b) = 1..(n + 1) /\ Append(q, b)[n + 1] = b
      /\ \A k \in 1..n : Append(q, b)[k] = q[k]
  BY <1>1
<1>3. n + 1 <= MaxOutbox
  BY <1>1, BoundsAssumption
<1> QED BY <1>2, <1>3 DEF q

\* Both sides of what is counted grow by one.
LEMMA OneMore ==
    ASSUME NEW a \in Nat, NEW s \in Nat, NEW k \in Nat, a + s <= k
    PROVE  a + (s + 1) <= k + 1
OBVIOUS

LEMMA OneAside ==
    ASSUME NEW a \in Nat, NEW s \in Nat
    PROVE  a + (s + 1) = (a + s) + 1 /\ (a + 1) + s = (a + s) + 1
OBVIOUS

LEMMA CaptureKeeps == ASSUME IInv, NEW e \in Edges, Capture(e) PROVE IInv'
<1> DEFINE q == edge[e].outbox
           n == Len(q)
           b == [sequence |-> edge[e].sequence + 1, unit |-> captured[e] + 1,
                 route |-> edge[e].desired]
           v == [edge[e] EXCEPT !.sequence = edge[e].sequence + 1, !.outbox = Append(q, b)]
<1>1. /\ edge[e].token # None /\ edge[e].desired # None
      /\ captured[e] < MaxBatches /\ n < MaxOutbox
      /\ captured' = [captured EXCEPT ![e] = captured[e] + 1]
      /\ edge' = [edge EXCEPT ![e] = v]
      /\ UNCHANGED <<links, receipts, issued, home>>
  BY DEF Capture, Paired
<1>2. /\ edge[e].sequence \in Nat /\ captured[e] \in Nat /\ n \in Nat
      /\ n <= edge[e].sequence /\ edge[e].sequence <= captured[e]
      /\ edge[e].desired \in Connectors /\ q \in Seq(Batch)
      /\ Acked(e) = edge[e].sequence - n
  BY <1>1, EdgeTyped DEF IInv, QueueCounted, Acked
<1>3. /\ edge[e].sequence + 1 \in Unit /\ captured[e] + 1 \in Unit
      /\ edge[e].sequence + 1 \in 0..MaxBatches /\ captured[e] + 1 \in 0..MaxBatches
  BY SMTT(30), <1>1, <1>2, BoundsAssumption DEF Unit
<1>4. /\ b \in Batch /\ b.sequence = edge[e].sequence + 1 /\ b.unit = captured[e] + 1
      /\ b.route = edge[e].desired
  BY <1>2, <1>3 DEF Batch
<1>5. /\ Append(q, b) \in Seq(Batch) /\ Len(Append(q, b)) = n + 1
      /\ DOMAIN Append(q, b) = 1..(n + 1) /\ Append(q, b)[n + 1] = b
      /\ \A k \in 1..n : Append(q, b)[k] = q[k]
      /\ Len(Append(q, b)) <= MaxOutbox
  <2> HIDE DEF b
  <2> QED BY <1>1, <1>4, Longer DEF IInv
<1>6. edge \in [Edges -> EdgeState] /\ edge[e] \in EdgeState
  BY DEF IInv, TypeOK
<1> HIDE DEF b
<1>7. /\ v \in EdgeState
      /\ v.life = edge[e].life /\ v.token = edge[e].token /\ v.code = edge[e].code
      /\ v.digest = edge[e].digest /\ v.desired = edge[e].desired
      /\ v.sequence = edge[e].sequence + 1 /\ v.outbox = Append(q, b)
  <2>1. Append(q, b) \in UNION {[1..k -> Batch] : k \in 0..MaxOutbox}
    BY <1>5, QueueIs
  <2> HIDE DEF q
  <2> QED BY <1>3, <1>6, <2>1 DEF EdgeState
<1> HIDE DEF v
<1>8. /\ edge' \in [Edges -> EdgeState]
      /\ \A x \in Edges : /\ edge'[x].life = edge[x].life /\ edge'[x].token = edge[x].token
                          /\ edge'[x].code = edge[x].code
                          /\ edge'[x].digest = edge[x].digest
                          /\ edge'[x].desired = edge[x].desired
      /\ \A x \in Edges : x # e => /\ edge'[x] = edge[x] /\ captured'[x] = captured[x]
      /\ edge'[e].sequence = edge[e].sequence + 1 /\ edge'[e].outbox = Append(q, b)
      /\ captured'[e] = captured[e] + 1
      /\ captured' \in [Edges -> 0..MaxBatches]
  <2>1. captured \in [Edges -> 0..MaxBatches]
    BY DEF IInv, TypeOK
  <2> HIDE DEF q
  <2> QED BY <1>1, <1>3, <1>6, <1>7, <2>1
<1>9. n = Len(q) /\ DOMAIN q = 1..n /\ q = edge[e].outbox
  BY <1>2
<1> HIDE DEF q, n
<1>10. SamePairing
  BY <1>8 DEF SamePairing
<1>11. SequencesOK'
  <2>1. \A x \in Edges : edge'[x].outbox \in Seq(Batch) /\ Len(edge'[x].outbox) <= MaxOutbox
    BY <1>5, <1>8, EdgeTyped DEF IInv
  <2> QED BY <1>1, <2>1, LinksTyped DEF SequencesOK, IInv
<1>12. SameOwners /\ CodesOnce' /\ CodesNewest /\ \A x \in Edges : TokenMade(x)'
  BY <1>1, <1>10, <1>11, PairingKept
<1>13. TypeOK'
  <2>1. receipts' \in [Connectors -> SUBSET Receipt]
    BY <1>1 DEF IInv, TypeOK
  <2> QED BY <1>1, <1>8, <1>10, <1>11, <2>1, QueueTyped
<1>14. \A x \in Edges : Acked(x)' = Acked(x)
  <2>1. Acked(e)' = (edge[e].sequence + 1) - (n + 1)
    BY <1>5, <1>8 DEF Acked
  <2>2. Acked(e)' = Acked(e)
    BY <1>2, <2>1
  <2> QED BY <1>8, <2>2 DEF Acked
<1>15. ASSUME NEW x \in Edges PROVE QueueCounted(x)'
  <2>1. QueueCounted(x)
    BY DEF IInv
  <2>2. CASE x # e
    BY <1>8, <1>14, <2>1, <2>2 DEF QueueCounted
  <2>3. CASE x = e
    <3>1. ASSUME NEW k \in 1..(n + 1)
          PROVE  /\ Append(q, b)[k].sequence = Acked(e) + k
                 /\ Append(q, b)[k].unit + (n + 1) = (captured[e] + 1) + k
      <4>1. CASE k = n + 1
        BY <1>2, <1>4, <1>5, <4>1
      <4>2. CASE k # n + 1
        <5>1. k \in 1..n /\ k \in DOMAIN edge[e].outbox
          BY <1>2, <1>9, <4>2
        <5>2. Append(q, b)[k] = edge[e].outbox[k]
          BY <1>5, <1>9, <5>1
        <5>3. edge[e].outbox[k].unit \in Nat
          BY <5>1, BatchTyped DEF IInv
        <5>4. /\ edge[e].outbox[k].sequence = Acked(e) + k
              /\ edge[e].outbox[k].unit + n = captured[e] + k
          BY <1>9, <2>1, <2>3, <5>1 DEF QueueCounted
        <5>5. edge[e].outbox[k].unit + (n + 1) = (captured[e] + 1) + k
          <6>1. edge[e].outbox[k].unit + n = captured[e] + k
            BY <5>4
          <6>2. k \in Nat
            BY <1>2, <5>1
          <6>3. n \in Nat /\ captured[e] \in Nat
            BY <1>2
          <6>4. edge[e].outbox[k].unit + (n + 1) = (edge[e].outbox[k].unit + n) + 1
            BY <5>3, <6>3, OneAside, Zenon
          <6>5. (captured[e] + 1) + k = (captured[e] + k) + 1
            BY <6>2, <6>3, OneAside, Zenon
          <6> QED BY <6>1, <6>4, <6>5, Zenon
        <5> QED BY <5>2, <5>4, <5>5
      <4> QED BY <4>1, <4>2
    <3>2. n + 1 <= edge[e].sequence + 1 /\ edge[e].sequence + 1 <= captured[e] + 1
      BY <1>2
    <3> QED BY <1>5, <1>8, <1>14, <2>3, <3>1, <3>2 DEF QueueCounted
  <2> QED BY <2>2, <2>3
<1>16. Placed'
  <2> SUFFICES ASSUME NEW d \in Connectors, NEW r \in receipts[d] PROVE ReceiptPlaced(d, r)'
    BY <1>1 DEF Placed
  <2>1. /\ r.source[1] \in Edges /\ r.source[2] \in Lives /\ r.sequence \in Nat
        /\ r.unit \in Nat /\ ReceiptPlaced(d, r)
    BY ReceiptTyped DEF IInv, Placed
  <2>2. CASE r.source[1] # e
    BY <1>8, <1>14, <2>1, <2>2 DEF ReceiptPlaced
  <2>3. CASE r.source[1] = e
    <3>1. /\ r.unit <= captured[e] /\ r.source[2] <= edge[e].life
          /\ r.source[2] < edge[e].life => r.unit + edge[e].sequence <= captured[e]
          /\ r.source[2] = edge[e].life =>
                /\ r.unit + edge[e].sequence = captured[e] + r.sequence
                /\ \/ r.sequence <= Acked(e)
                   \/ r.sequence = Acked(e) + 1 /\ q # <<>> /\ q[1].route = d
      BY <1>9, <2>1, <2>3 DEF ReceiptPlaced
    <3>2. q # <<>> => Append(q, b) # <<>> /\ Append(q, b)[1] = q[1]
      <4>1. ASSUME q # <<>> PROVE 1 \in 1..n
        BY <1>2, <1>9, <4>1
      <4>2. Len(Append(q, b)) # 0
        BY <1>2, <1>5
      <4> QED BY <1>5, <4>1, <4>2
    <3>3. /\ r.unit <= captured[e] + 1
          /\ r.unit + edge[e].sequence <= captured[e]
                => r.unit + (edge[e].sequence + 1) <= captured[e] + 1
          /\ r.unit + edge[e].sequence = captured[e] + r.sequence
                => r.unit + (edge[e].sequence + 1) = (captured[e] + 1) + r.sequence
      <4>1. r.unit <= captured[e]
        BY <3>1
      <4>2. r.unit <= captured[e] + 1
        BY <1>2, <2>1, <4>1
      <4>3. r.unit \in Nat /\ edge[e].sequence \in Nat /\ captured[e] \in Nat /\ r.sequence \in Nat
        BY <1>2, <2>1
      <4>4. ASSUME r.unit + edge[e].sequence <= captured[e]
            PROVE  r.unit + (edge[e].sequence + 1) <= captured[e] + 1
        BY <4>3, <4>4, OneMore, Zenon
      <4>5. ASSUME r.unit + edge[e].sequence = captured[e] + r.sequence
            PROVE  r.unit + (edge[e].sequence + 1) = (captured[e] + 1) + r.sequence
        <5>1. r.unit + (edge[e].sequence + 1) = (r.unit + edge[e].sequence) + 1
          BY <4>3, OneAside, Zenon
        <5>2. (captured[e] + 1) + r.sequence = (captured[e] + r.sequence) + 1
          BY <4>3, OneAside, Zenon
        <5> QED BY <4>5, <5>1, <5>2, Zenon
      <4> QED BY <4>2, <4>4, <4>5
    <3> QED BY <1>8, <1>14, <2>3, <3>1, <3>2, <3>3 DEF ReceiptPlaced
  <2> QED BY <2>2, <2>3
<1>17. RecordedOnce'
  BY <1>1 DEF IInv, RecordedOnce
<1>18. NoneForgotten'
  <2> SUFFICES ASSUME NEW x \in Edges, NEW u \in 1..captured'[x]
               PROVE  \/ \E d \in Connectors : \E r \in receipts[d] :
                            r.source[1] = x /\ r.unit = u
                      \/ \E k \in DOMAIN edge'[x].outbox : edge'[x].outbox[k].unit = u
    BY <1>1 DEF NoneForgotten
  <2>1. CASE x # e
    BY <1>8, <2>1 DEF IInv, NoneForgotten
  <2>2. CASE x = e /\ u = captured[e] + 1
    BY <1>2, <1>4, <1>5, <1>8, <2>2
  <2>3. CASE x = e /\ u # captured[e] + 1
    <3>1. u \in 1..captured[e]
      BY <1>2, <1>8, <2>3
    <3>2. \/ \E d \in Connectors : \E r \in receipts[d] : r.source[1] = e /\ r.unit = u
          \/ \E k \in DOMAIN edge[e].outbox : edge[e].outbox[k].unit = u
      BY <3>1 DEF IInv, NoneForgotten
    <3>3. \A k \in DOMAIN q : k \in DOMAIN Append(q, b) /\ Append(q, b)[k] = q[k]
      BY <1>2, <1>5, <1>9
    <3> QED BY SMTT(30), <1>8, <1>9, <2>3, <3>2, <3>3
  <2> QED BY <2>1, <2>2, <2>3
<1>19. FutureUnknown'
  BY <1>1, <1>8, <1>11, <1>12, FutureKept
<1>20. ASSUME NEW x \in Edges PROVE HomeOrGone(x)'
  <2>1. CASE x # e
    BY <1>1, <1>8, <1>11, <1>12, <2>1, HomeKept
  <2>2. CASE x = e
    <3> DEFINE h == home[InstanceOf(e)]
    <3>1. InstanceOf(e)' = InstanceOf(e) /\ CodeLink(e)' = CodeLink(e)
      BY <1>1, <1>8 DEF InstanceOf, CodeLink
    <3>2. /\ h # None /\ h \in Linked /\ \A d \in CodeLink(e) : h <= d
          /\ AtHome(e, h) \/ Gone(e, h)
      BY <1>1 DEF IInv, HomeOrGone, New
    <3>3. Gone(e, h) => Gone(e, h)'
      BY <1>1, <3>1 DEF Gone
    <3>4. ASSUME AtHome(e, h) PROVE AtHome(e, h)'
      <4>1. edge[e].desired = h
        BY <1>1, <3>4 DEF AtHome
      <4>2. \A d \in Connectors : Unknown(InstanceOf(e), d) => Unknown(InstanceOf(e), d)'
        BY <1>1, <3>1 DEF Unknown, Linked
      <4>3. \A k \in DOMAIN edge'[e].outbox : edge'[e].outbox[k].route = h
        <5>1. \A k \in 1..n : q[k].route = h
          BY <1>9, <3>4 DEF AtHome
        <5>2. \A k \in 1..(n + 1) : Append(q, b)[k].route = h
          BY <1>2, <1>4, <1>5, <4>1, <5>1
        <5> QED BY <1>5, <1>8, <5>2
      <4> QED BY <1>1, <1>8, <1>14, <3>1, <3>4, <4>1, <4>2, <4>3 DEF AtHome
    <3>5. h \in Linked' /\ home'[InstanceOf(e)'] = h
      BY <1>1, <3>1, <3>2 DEF Linked
    <3> HIDE DEF h
    <3> QED BY <2>2, <3>1, <3>2, <3>3, <3>4, <3>5 DEF HomeOrGone, h
  <2> QED BY <2>1, <2>2
<1> QED BY <1>11, <1>12, <1>13, <1>15, <1>16, <1>17, <1>18, <1>19, <1>20 DEF IInv

-----------------------------------------------------------------------------
(* Pairing. *)

\* Where a pairing ends.
LEMMA TargetIs ==
    ASSUME IInv, NEW e \in Edges, NEW c \in Linked
    PROVE  LET t == Target(c, e)
           IN  \/ t = c /\ ~PairedElsewhere(c, e)
               \/ t \in Linked /\ links[t].source = InstanceOf(e)
               \/ t = Len(links) + 1 /\ \A s \in Linked : links[s].source # InstanceOf(e)
<1> DEFINE siblings == {s \in DOMAIN links : links[s].source = InstanceOf(e)}
<1>1. siblings \in SUBSET Nat
  BY LinksTyped DEF IInv, Linked
<1>2. CASE ~PairedElsewhere(c, e)
  BY <1>2 DEF Target
<1>3. CASE PairedElsewhere(c, e) /\ siblings # {}
  <2>1. Min(siblings) \in siblings
    <3> HIDE DEF siblings
    <3> QED BY <1>1, <1>3, MinIs
  <2>2. Target(c, e) = Min(siblings)
    BY <1>3 DEF Target
  <2> QED BY <2>1, <2>2 DEF Linked
<1>4. CASE PairedElsewhere(c, e) /\ siblings = {}
  <2>1. Target(c, e) = Len(links) + 1
    BY <1>4 DEF Target
  <2> QED BY <1>4, <2>1 DEF Linked
<1> QED BY <1>2, <1>3, <1>4

\* There is a code left for the generation a pairing adds.
LEMMA CodeLeft ==
    ASSUME IInv, NEW c \in Linked, links[c].code # None
    PROVE  /\ links[c].code \in 1..issued /\ links[c].code \notin Spent
           /\ Cardinality(Spent \union {links[c].code}) = Cardinality(Spent) + 1
           /\ Cardinality(Spent) + 1 <= MaxCodes
<1> DEFINE k == links[c].code
<1>1. k \in 1..issued /\ k \notin Spent
  BY DEF IInv, CodesOnce, Spent
<1>2. issued \in Nat /\ issued <= MaxCodes /\ IsFiniteSet(Spent) /\ Cardinality(Spent) \in Nat
  BY SpentIs DEF IInv
<1>3. Cardinality(Spent \union {k}) = Cardinality(Spent) + 1
  <2> HIDE DEF k, Spent
  <2> QED BY <1>1, <1>2, FS_AddElement
<1>4. Cardinality(Spent \union {k}) <= issued
  <2>1. IsFiniteSet(1..issued) /\ Cardinality(1..issued) = issued
    BY <1>2, FS_Interval
  <2>2. Spent \union {k} \in SUBSET (1..issued)
    BY <1>1 DEF Spent
  <2> HIDE DEF k, Spent
  <2> QED BY <2>1, <2>2, FS_Subset
<1>5. Cardinality(Spent) + 1 <= MaxCodes
  <2> HIDE DEF k, Spent
  <2> QED BY <1>2, <1>3, <1>4, BoundsAssumption
<1> QED BY <1>1, <1>3, <1>5

LEMMA OneChanged ==
    ASSUME NEW s \in Seq(Link), NEW k \in DOMAIN s, NEW v \in Link
    PROVE  /\ [s EXCEPT ![k] = v] \in Seq(Link) /\ Len([s EXCEPT ![k] = v]) = Len(s)
           /\ DOMAIN [s EXCEPT ![k] = v] = DOMAIN s
           /\ [s EXCEPT ![k] = v][k] = v
           /\ \A j \in DOMAIN s : j # k => [s EXCEPT ![k] = v][j] = s[j]
OBVIOUS

\* The links before the connector a pairing ends on is given its credential.
LEMMA PresentLinks ==
    ASSUME IInv, NEW e \in Edges, NEW t \in Linked \union {Len(links) + 1}
    PROVE  LET p == IF t > Len(links) THEN Append(links, NewLink(InstanceOf(e))) ELSE links
           IN  /\ p \in Seq(Link) /\ DOMAIN p = Linked \union {t} /\ t \in DOMAIN p
               /\ Len(p) = IF t \in Linked THEN Len(links) ELSE Len(links) + 1
               /\ \A k \in Linked : p[k] = links[k]
               /\ t \notin Linked => p[t] = NewLink(InstanceOf(e))
<1> DEFINE link == NewLink(InstanceOf(e))
           p == IF t > Len(links) THEN Append(links, link) ELSE links
<1>1. links \in Seq(Link) /\ Len(links) \in Nat /\ Linked = 1..Len(links)
  BY LinksTyped DEF IInv
<1>2. link \in Link
  BY EdgeTyped, BoundsAssumption DEF NewLink, Link, IInv
<1> HIDE DEF link
<1>3. CASE t \in Linked
  <2>1. ~(t > Len(links))
    BY <1>1, <1>3
  <2>2. p = links /\ DOMAIN links = Linked \union {t}
    BY <1>3, <2>1 DEF Linked
  <2> QED BY <1>1, <1>3, <2>2
<1>4. CASE t \notin Linked
  <2>1. t = Len(links) + 1 /\ t > Len(links)
    BY <1>1, <1>4
  <2>2. /\ Append(links, link) \in Seq(Link) /\ Len(Append(links, link)) = Len(links) + 1
        /\ \A k \in 1..Len(links) : Append(links, link)[k] = links[k]
        /\ Append(links, link)[Len(links) + 1] = link
    BY <1>1, <1>2
  <2>3. DOMAIN Append(links, link) = Linked \union {t}
    BY <1>1, <2>1, <2>2
  <2> QED BY <1>1, <1>4, <2>1, <2>2, <2>3 DEF link
<1> QED BY <1>3, <1>4

\* The links after a pairing of Edge e with the code of c that ended on t.
Joined(c, t, e) ==
    /\ c \in Linked /\ links[c].code = edge[e].code /\ edge[e].code # None
    /\ links' \in Seq(Link) /\ DOMAIN links' = Linked \union {t}
    /\ Len(links') = IF t \in Linked THEN Len(links) ELSE Len(links) + 1
    /\ Len(links') <= MaxConnectors
    /\ links'[t].paired /\ links'[t].code = None /\ links'[t].node = e
    /\ links'[t].source = InstanceOf(e)
    /\ links'[t].generation = IF t \in Linked THEN links[t].generation + 1 ELSE 1
    /\ \A k \in Linked : k # t =>
          /\ links'[k].source = links[k].source /\ links'[k].node = links[k].node
          /\ links'[k].generation = links[k].generation
          /\ links'[k].paired = links[k].paired
          /\ links'[k].code = IF k = c THEN None ELSE links[k].code

LEMMA LinksPaired ==
    ASSUME IInv, NEW e \in Edges, NEW c \in CodeLink(e), NEW t \in Connectors,
           t = Target(c, e), links' = PairedLinks(c, t, e)
    PROVE  Joined(c, t, e)
<1> DEFINE p == IF t > Len(links) THEN Append(links, NewLink(InstanceOf(e))) ELSE links
           w == [p[c] EXCEPT !.code = None]
           s == [p EXCEPT ![c] = w]
           v == WithCredential(s[t], e)
<1>1. c \in Linked /\ links[c].code # None /\ links[c].code = edge[e].code
  BY DEF CodeLink, Linked
<1>2. t \in Linked \union {Len(links) + 1}
  BY <1>1, TargetIs
<1>3. /\ p \in Seq(Link) /\ DOMAIN p = Linked \union {t} /\ t \in DOMAIN p
      /\ Len(p) = IF t \in Linked THEN Len(links) ELSE Len(links) + 1
      /\ \A k \in Linked : p[k] = links[k]
      /\ t \notin Linked => p[t] = NewLink(InstanceOf(e))
  BY <1>2, PresentLinks
<1>4. links' = [s EXCEPT ![t] = v]
  BY DEF PairedLinks
<1> HIDE DEF p
<1>5. /\ links[c] \in Link /\ p[c] = links[c]
      /\ \A k \in Linked : links[k] \in Link
      /\ Len(links) \in Nat /\ Linked = 1..Len(links) /\ Len(links) <= MaxConnectors
  BY <1>1, <1>3, LinksTyped DEF IInv
<1>6. /\ w \in Link /\ w.source = links[c].source /\ w.node = links[c].node
      /\ w.generation = links[c].generation /\ w.paired = links[c].paired /\ w.code = None
  BY <1>5 DEF Link
<1> HIDE DEF w
<1>7. /\ s \in Seq(Link) /\ DOMAIN s = Linked \union {t} /\ Len(s) = Len(p)
      /\ s[c] = w /\ \A k \in DOMAIN s : k # c => s[k] = p[k]
  <2>1. c \in DOMAIN p
    BY <1>1, <1>3
  <2>2. DOMAIN s = DOMAIN p
    BY <1>3, <1>6, <2>1, OneChanged
  <2> QED BY <1>3, <1>6, <2>1, <2>2, OneChanged
<1> HIDE DEF s
<1>8. /\ s[t] \in Link
      /\ s[t].generation = IF t \in Linked THEN links[t].generation ELSE 0
  <2>1. s[t] \in Link
    BY <1>3, <1>7
  <2>2. CASE t = c
    BY <1>1, <1>6, <1>7, <2>1, <2>2
  <2>3. CASE t # c /\ t \in Linked
    BY <1>3, <1>7, <2>1, <2>3
  <2>4. CASE t \notin Linked
    BY <1>1, <1>3, <1>7, <2>1, <2>4 DEF NewLink
  <2> QED BY <2>2, <2>3, <2>4, <2>1
<1>9. s[t].generation + 1 \in 0..MaxCodes
  <2>1. Cardinality(Spent) \in Nat /\ Cardinality(Spent) + 1 <= MaxCodes /\ MaxCodes \in Nat
    BY <1>1, CodeLeft, SpentIs, BoundsAssumption DEF IInv
  <2>2. t \in Linked => links[t].generation <= Cardinality(Spent) /\ links[t].generation \in Nat
    BY LinksTyped DEF IInv, CodesOnce
  <2>3. s[t].generation \in Nat /\ s[t].generation <= Cardinality(Spent)
    <3> HIDE DEF Spent
    <3> QED BY <1>8, <2>1, <2>2
  <2> HIDE DEF Spent
  <2> QED BY <2>1, <2>3
<1>10. /\ v \in Link /\ v.paired /\ v.code = None /\ v.node = e /\ v.source = InstanceOf(e)
       /\ v.generation = s[t].generation + 1
  BY <1>8, <1>9, EdgeTyped DEF WithCredential, Link, IInv
<1> HIDE DEF v
<1>11. /\ links' \in Seq(Link) /\ DOMAIN links' = Linked \union {t} /\ Len(links') = Len(p)
       /\ links'[t] = v /\ \A k \in DOMAIN links' : k # t => links'[k] = s[k]
  <2>1. t \in DOMAIN s
    BY <1>7
  <2> QED BY <1>4, <1>7, <1>10, <2>1, OneChanged
<1>12. Len(links') <= MaxConnectors
  <2>1. t <= MaxConnectors /\ MaxConnectors \in Nat
    BY BoundsAssumption DEF Connectors
  <2>2. t \notin Linked => t = Len(links) + 1
    BY <1>2
  <2> QED BY <1>3, <1>5, <1>11, <2>1, <2>2
<1>13. links'[t].generation = IF t \in Linked THEN links[t].generation + 1 ELSE 1
  BY <1>8, <1>10, <1>11
<1>14. ASSUME NEW k \in Linked, k # t
       PROVE  /\ links'[k].source = links[k].source /\ links'[k].node = links[k].node
              /\ links'[k].generation = links[k].generation
              /\ links'[k].paired = links[k].paired
              /\ links'[k].code = IF k = c THEN None ELSE links[k].code
  <2>1. links'[k] = s[k] /\ p[k] = links[k]
    BY <1>3, <1>11, <1>14
  <2>2. CASE k = c
    BY <1>6, <1>7, <2>1, <2>2
  <2>3. CASE k # c
    BY <1>7, <2>1, <2>3
  <2> QED BY <2>2, <2>3
<1> QED BY <1>1, <1>3, <1>10, <1>11, <1>12, <1>13, <1>14 DEF Joined

\* The codes after a pairing: the one it used is spent.
LEMMA CodesPaired ==
    ASSUME IInv, NEW e \in Edges, NEW c \in CodeLink(e), NEW t \in Connectors,
           t = Target(c, e), links' = PairedLinks(c, t, e), issued' = issued,
           \A x \in Edges : /\ edge'[x].code = edge[x].code
                            /\ edge'[x].digest \in {edge[x].digest, edge[e].code}
                            /\ x # e => edge'[x].digest = edge[x].digest
    PROVE  /\ CodesOnce'
           /\ \A x \in Edges : CodeLink(x)' \subseteq CodeLink(x)
           /\ CodeLink(e)' = {}
           /\ \A x \in Edges, k \in DOMAIN links' :
                 links'[k].code # None => links'[k].code # edge'[x].digest
<1>1. /\ c \in Linked /\ links[c].code = edge[e].code /\ edge[e].code # None
      /\ DOMAIN links' = Linked \union {t} /\ links'[t].code = None
      /\ links'[t].generation = IF t \in Linked THEN links[t].generation + 1 ELSE 1
      /\ \A k \in Linked : k # t =>
            /\ links'[k].generation = links[k].generation
            /\ links'[k].code = IF k = c THEN None ELSE links[k].code
  <2>1. Joined(c, t, e)
    BY LinksPaired
  <2> QED BY <2>1 DEF Joined
<1>2. \A k \in DOMAIN links' : links'[k].code # None =>
         k \in Linked /\ k # c /\ k # t /\ links'[k].code = links[k].code
  BY <1>1
<1>3. \A j, k \in Linked : links[j].code # None /\ links[j].code = links[k].code => j = k
  BY DEF IInv, CodesOnce
<1>4. \A k \in DOMAIN links' : links'[k].code # edge[e].code
  BY <1>1, <1>2, <1>3
<1>5. \A k \in DOMAIN links' : links'[k].code # None => links'[k].code \in 1..issued
  BY <1>2 DEF IInv, CodesOnce
<1>6. \A j, k \in DOMAIN links' : links'[j].code # None /\ links'[j].code = links'[k].code => j = k
  BY <1>2, <1>3
<1>7. /\ edge[e].code \in 1..issued /\ edge[e].code \notin Spent
      /\ Cardinality(Spent \union {edge[e].code}) = Cardinality(Spent) + 1
  BY <1>1, CodeLeft
<1>8. Spent \union {edge[e].code} \subseteq Spent' /\ Spent' \subseteq 1..issued
  <2>1. edge[e].code \in Spent'
    BY <1>4, <1>7 DEF Spent, Linked
  <2>2. ASSUME NEW k \in Spent PROVE k \in Spent'
    <3>1. k # None /\ k \in 1..issued
      BY NoneAssumption, SpentIs DEF Spent, IInv
    <3>2. \A j \in DOMAIN links' : links'[j].code # k
      BY <1>2, <3>1 DEF Spent
    <3> QED BY <3>1, <3>2 DEF Spent, Linked
  <2>3. Spent' \subseteq 1..issued
    BY DEF Spent
  <2> QED BY <2>1, <2>2, <2>3
<1>9. /\ Cardinality(Spent') \in Nat /\ Cardinality(Spent) + 1 <= Cardinality(Spent')
      /\ Cardinality(Spent) \in Nat
  <2>1. IsFiniteSet(1..issued) /\ Cardinality(Spent) \in Nat
    BY SpentIs, FS_Interval DEF IInv
  <2>2. IsFiniteSet(Spent') /\ Cardinality(Spent') \in Nat
    BY <1>8, <2>1, FS_Subset, FS_CardinalityType
  <2>3. Cardinality(Spent \union {edge[e].code}) <= Cardinality(Spent')
    BY <1>8, <2>2, FS_Subset
  <2> QED BY <1>7, <2>1, <2>2, <2>3
<1>10. ASSUME NEW k \in DOMAIN links' PROVE links'[k].generation <= Cardinality(Spent')
  <2>1. k \in Linked => links[k].generation <= Cardinality(Spent) /\ links[k].generation \in Nat
    BY LinksTyped DEF IInv, CodesOnce
  <2> HIDE DEF Spent
  <2>2. CASE k = t
    BY <1>1, <1>9, <2>1, <2>2
  <2>3. CASE k # t
    BY <1>1, <1>9, <2>1, <2>3
  <2> QED BY <2>2, <2>3
<1>11. \A x \in Edges : /\ edge'[x].code # None => edge'[x].code \in 1..issued
                        /\ edge'[x].digest # None => edge'[x].digest \in 1..issued
  BY <1>7 DEF IInv, CodesOnce
<1>12. CodesOnce'
  BY <1>5, <1>6, <1>10, <1>11 DEF CodesOnce, Linked
<1>13. \A x \in Edges : CodeLink(x)' \subseteq CodeLink(x)
  BY <1>2 DEF CodeLink, Linked
<1>14. CodeLink(e)' = {}
  BY <1>4 DEF CodeLink
<1>15. ASSUME NEW x \in Edges, NEW k \in DOMAIN links', links'[k].code # None
       PROVE  links'[k].code # edge'[x].digest
  <2>1. links[k].code # edge[x].digest
    BY <1>2, <1>15 DEF IInv, TypeOK, Linked
  <2> QED BY <1>2, <1>4, <1>15, <2>1
<1> QED BY <1>12, <1>13, <1>14, <1>15

LEMMA PairKeeps == ASSUME IInv, NEW e \in Edges, Pair(e) PROVE IInv'
<1>1. PICK c \in CodeLink(e) :
         /\ Target(c, e) \in Connectors /\ ~Clash(Target(c, e), e)
         /\ links' = PairedLinks(c, Target(c, e), e)
         /\ home' = [home EXCEPT ![InstanceOf(e)] =
                        IF home[InstanceOf(e)] = None THEN Target(c, e)
                        ELSE home[InstanceOf(e)]]
         /\ \/ edge' = edge
            \/ edge' = [edge EXCEPT
                           ![e].token = [connector |-> Target(c, e),
                                         generation |-> links'[Target(c, e)].generation],
                           ![e].digest = edge[e].code]
  BY DEF Pair
<1>t. PICK t \in Connectors : t = Target(c, e)
  BY <1>1
<1> DEFINE i == InstanceOf(e)
           k == [connector |-> t, generation |-> links'[t].generation]
           v == [edge[e] EXCEPT !.token = k, !.digest = edge[e].code]
<1>2. /\ ~Clash(t, e) /\ links' = PairedLinks(c, t, e)
      /\ home' = [home EXCEPT ![i] = IF home[i] = None THEN t ELSE home[i]]
      /\ edge' = edge \/ edge' = [edge EXCEPT ![e] = v]
      /\ UNCHANGED <<receipts, issued, captured>>
  <2>1. ~Clash(t, e) /\ links' = PairedLinks(c, t, e)
    BY <1>1, <1>t
  <2>2. home' = [home EXCEPT ![i] = IF home[i] = None THEN t ELSE home[i]]
    BY <1>1, <1>t
  <2>3. CASE edge' = edge
    BY <2>1, <2>2, <2>3 DEF Pair
  <2>4. CASE edge' # edge
    <3>1. edge' = [edge EXCEPT ![e].token = k, ![e].digest = edge[e].code]
      BY <1>1, <1>t, <2>4
    <3>2. edge' = [edge EXCEPT ![e] = v]
      BY <3>1, Zenon
    <3> HIDE DEF v
    <3>3. UNCHANGED <<receipts, issued, captured>>
      BY DEF Pair
    <3> QED BY <2>1, <2>2, <3>2, <3>3
  <2> QED BY <2>3, <2>4
<1>3. /\ c \in Linked /\ links[c].code = edge[e].code /\ edge[e].code # None
      /\ links' \in Seq(Link) /\ DOMAIN links' = Linked \union {t}
      /\ Len(links') = IF t \in Linked THEN Len(links) ELSE Len(links) + 1
      /\ Len(links') <= MaxConnectors
      /\ links'[t].paired /\ links'[t].code = None /\ links'[t].node = e
      /\ links'[t].source = i
      /\ links'[t].generation = IF t \in Linked THEN links[t].generation + 1 ELSE 1
      /\ \A j \in Linked : j # t =>
            /\ links'[j].source = links[j].source /\ links'[j].node = links[j].node
            /\ links'[j].generation = links[j].generation
            /\ links'[j].paired = links[j].paired
            /\ links'[j].code = IF j = c THEN None ELSE links[j].code
  <2>1. Joined(c, t, e)
    BY <1>2, <1>t, LinksPaired
  <2> QED BY <2>1 DEF Joined
<1>4. \/ t = c /\ ~PairedElsewhere(c, e)
      \/ t \in Linked /\ links[t].source = i
      \/ t = Len(links) + 1 /\ \A s \in Linked : links[s].source # i
  BY <1>3, <1>t, TargetIs
<1>5. \A s \in Linked : s # t => links[s].source # i
  BY <1>2 DEF Clash, Linked
<1>6. /\ Len(links) \in Nat /\ Linked = 1..Len(links) /\ t \in DOMAIN links'
      /\ Len(links') \in Nat /\ Len(links) <= Len(links') /\ t <= Len(links') /\ t \in Nat
      /\ Linked \subseteq Connectors
      /\ DOMAIN links' = 1..Len(links')
  <2>1. Len(links) \in Nat /\ Linked = 1..Len(links) /\ Linked \subseteq Connectors
    BY LinksTyped DEF IInv
  <2>2. t \in DOMAIN links' /\ DOMAIN links' = 1..Len(links') /\ Len(links') \in Nat
    <3>1. t \in DOMAIN links' /\ links' \in Seq(Link)
      BY <1>3
    <3> QED BY <3>1
  <2>3. Len(links) <= Len(links')
    BY <1>3, <2>1
  <2> QED BY <2>1, <2>2, <2>3
<1>7. /\ i \in Instance /\ i # None /\ i[1] = e /\ i[2] = edge[e].life
  BY EdgeTyped, NoneAssumption DEF IInv
<1>8. links'[t].generation \in Codes /\ k \in Token
  <2>0. links'[t] \in Link
    BY <1>3, <1>6
  <2>1. links'[t].generation \in 0..MaxCodes /\ MaxCodes \in Nat
    BY <2>0, BoundsAssumption DEF Link
  <2>2. links'[t].generation >= 1
    BY <1>3, LinksTyped DEF IInv
  <2>3. links'[t].generation \in Codes
    BY <2>1, <2>2 DEF Codes
  <2> QED BY <2>3 DEF Token
<1>9. k # None /\ k.connector = t /\ k.generation = links'[t].generation
  BY <1>8, NoneAssumption
<1>10. edge \in [Edges -> EdgeState] /\ edge[e] \in EdgeState
  BY DEF IInv, TypeOK
<1> HIDE DEF k
<1>11. /\ v \in EdgeState /\ v.life = edge[e].life /\ v.token = k /\ v.code = edge[e].code
       /\ v.digest = edge[e].code /\ v.desired = edge[e].desired
       /\ v.sequence = edge[e].sequence /\ v.outbox = edge[e].outbox
  <2>1. edge[e].code \in Codes \union {None}
    BY EdgeTyped DEF IInv
  <2> QED BY <1>8, <1>10, <2>1 DEF EdgeState
<1> HIDE DEF v
<1>12. /\ edge' \in [Edges -> EdgeState]
       /\ \A x \in Edges : /\ edge'[x].life = edge[x].life /\ edge'[x].code = edge[x].code
                           /\ edge'[x].desired = edge[x].desired
                           /\ edge'[x].sequence = edge[x].sequence
                           /\ edge'[x].outbox = edge[x].outbox
                           /\ edge'[x].digest \in {edge[x].digest, edge[e].code}
                           /\ x # e => edge'[x] = edge[x]
       /\ edge'[e].token \in {edge[e].token, k}
  BY <1>2, <1>10, <1>11
<1>13. SameQueues
  BY <1>2, <1>12 DEF SameQueues
<1>14. SequencesOK'
  BY <1>3, <1>12, EdgeTyped DEF SequencesOK, IInv
<1>15. /\ CodesOnce' /\ CodeLink(e)' = {}
       /\ \A x \in Edges : CodeLink(x)' \subseteq CodeLink(x)
       /\ \A x \in Edges, j \in DOMAIN links' :
             links'[j].code # None => links'[j].code # edge'[x].digest
  BY <1>2, <1>12, <1>t, CodesPaired
<1>16. TypeOK'
  <2>1. home' \in [Instance -> Connectors \union {None}]
    BY <1>2, <1>7 DEF IInv, TypeOK
  <2>2. Range(links') \subseteq Link
    BY <1>3, RangeTyped
  <2>3. \A j \in DOMAIN links' : links'[j].paired => links'[j].source # None /\ links'[j].node # None
    <3>1. \A j \in Linked : links[j].paired => links[j].source # None /\ links[j].node # None
      BY DEF IInv, TypeOK, Linked
    <3>2. e # None
      BY NoneAssumption
    <3> QED BY <1>3, <1>7, <3>1, <3>2
  <2>4. TypeOK
    BY DEF IInv
  <2> QED BY <1>2, <1>3, <1>12, <1>15, <2>1, <2>2, <2>3, <2>4 DEF TypeOK
<1>17. (\A x \in Edges : QueueCounted(x)') /\ Placed' /\ RecordedOnce' /\ NoneForgotten'
  BY <1>13, QueuesKept
<1>18. ASSUME NEW x \in Edges PROVE TokenMade(x)'
  <2>1. CASE edge'[x].token = edge[x].token
    <3> DEFINE d == edge[x].token.connector
               g == edge[x].token.generation
    <3> SUFFICES ASSUME edge[x].token # None
                 PROVE  /\ d \in Linked' /\ g <= links'[d].generation
                        /\ g = links'[d].generation =>
                              links'[d].source = InstanceOf(x) /\ links'[d].node = x
      BY <1>12, <2>1 DEF TokenMade, InstanceOf
    <3>1. /\ d \in Linked /\ g <= links[d].generation
          /\ g = links[d].generation => links[d].source = InstanceOf(x) /\ links[d].node = x
      BY DEF IInv, TokenMade
    <3>2. g \in Nat /\ links[d].generation \in Nat
      <4>1. edge[x].token \in Token
        BY EdgeTyped DEF IInv
      <4> QED BY <3>1, <4>1, LinksTyped, BoundsAssumption DEF Token, Codes, IInv
    <3>3. CASE d = t
      <4>1. links'[d].generation = links[d].generation + 1
        BY <1>3, <3>1, <3>3
      <4> QED BY <1>3, <3>1, <3>2, <4>1 DEF Linked
    <3>4. CASE d # t
      BY <1>3, <3>1, <3>4 DEF Linked
    <3> QED BY <3>3, <3>4
  <2>2. CASE x = e /\ edge'[e].token = k
    <3>1. InstanceOf(e)' = i
      BY <1>12 DEF InstanceOf
    <3>2. links'[t].generation \in Nat
      BY <1>8, BoundsAssumption DEF Codes
    <3> QED BY <1>3, <1>6, <1>9, <2>2, <3>1, <3>2 DEF TokenMade, Linked
  <2> QED BY <1>12, <2>1, <2>2
<1>19. \A j \in Instance, d \in Connectors : j # i /\ Unknown(j, d) => Unknown(j, d)'
  BY <1>2, <1>3 DEF Unknown, Linked
<1>20. \A j \in Instance : j # i => home'[j] = home[j]
  BY <1>2 DEF IInv, TypeOK
<1>21. FutureUnknown'
  <2>1. ASSUME NEW x \in Edges, NEW l \in Lives, l > edge[x].life
        PROVE  home'[<<x, l>>] = None /\ \A d \in Connectors : Unknown(<<x, l>>, d)'
    <3>1. home[<<x, l>>] = None /\ \A d \in Connectors : Unknown(<<x, l>>, d)
      BY <2>1 DEF IInv, FutureUnknown
    <3>2. <<x, l>> \in Instance /\ <<x, l>> # i
      <4>1. l # edge[x].life
        BY <2>1, EdgeTyped DEF IInv, Lives
      <4> QED BY <4>1 DEF Instance, InstanceOf
    <3> QED BY <1>19, <1>20, <3>1, <3>2
  <2> QED BY <1>12, <2>1 DEF FutureUnknown
<1>22. \A x \in Edges : Acked(x)' = Acked(x) /\ InstanceOf(x)' = InstanceOf(x)
  BY <1>12 DEF Acked, InstanceOf
<1>23. ASSUME NEW x \in Edges, x # e PROVE HomeOrGone(x)'
  <2>h. PICK h : h = home[InstanceOf(x)]
    OBVIOUS
  <2>1. InstanceOf(x) \in Instance /\ InstanceOf(x) # i
    BY <1>23, EdgeTyped DEF InstanceOf, IInv
  <2>2. \A d \in Connectors : Unknown(InstanceOf(x), d) => Unknown(InstanceOf(x), d)'
    BY <1>19, <1>22, <2>1 DEF Unknown
  <2>3. HomeOrGone(x) /\ edge'[x] = edge[x]
    BY <1>12, <1>23 DEF IInv
  <2>4. New(x) => New(x)'
    BY <2>2, <2>3 DEF New
  <2>5. AtHome(x, h) => AtHome(x, h)'
    BY <1>2, <1>22, <2>2, <2>3 DEF AtHome
  <2>6. h \in Linked /\ Gone(x, h) => Gone(x, h)'
    <3> SUFFICES ASSUME h \in Linked, Gone(x, h) PROVE Gone(x, h)'
      OBVIOUS
    <3>1. links'[h].source # InstanceOf(x)
      BY <1>3, <2>1 DEF Gone
    <3>2. h < Len(links')
      BY <1>6 DEF Gone
    <3>3. h \notin CodeLink(x)'
      BY <1>15 DEF Gone
    <3> QED BY <1>22, <3>1, <3>2, <3>3 DEF Gone
  <2>7. home'[InstanceOf(x)'] = h /\ (h \in Linked => h \in Linked')
    BY <1>3, <1>20, <1>22, <2>1, <2>h DEF Linked
  <2> QED BY <1>15, <2>3, <2>4, <2>5, <2>6, <2>7, <2>h DEF HomeOrGone
<1>24. HomeOrGone(e)'
  <2>h. PICK h : h = home[i]
    OBVIOUS
  <2>0. HomeOrGone(e)
    BY DEF IInv
  <2>1. home'[i] = IF h = None THEN t ELSE h
    BY <1>2, <1>7, <2>h DEF IInv, TypeOK
  <2>2. \A d \in Connectors : d # t /\ Unknown(i, d) => Unknown(i, d)'
    BY <1>2, <1>3, <1>22 DEF Unknown, Linked
  <2>3. CASE h = None
    <3>1. New(e)
      BY <2>0, <2>3, <2>h DEF HomeOrGone
    <3>2. Acked(e)' = 0
      BY <1>22, <3>1 DEF New, Acked
    <3>3. \A d \in Connectors : d # t => Unknown(i, d)'
      BY <2>2, <3>1 DEF New
    <3>4. AtHome(e, t)'
      <4>1. edge'[e].token # None => edge'[e].token.connector = t
        BY <1>9, <1>12, <3>1 DEF New
      <4>2. edge'[e].desired = None /\ edge'[e].outbox = <<>>
        BY <1>12, <3>1 DEF New
      <4> QED BY <1>22, <3>2, <3>3, <4>1, <4>2 DEF AtHome
    <3>5. t # None /\ t \in Linked'
      BY <1>6, NoneAssumption DEF Linked
    <3> QED BY <1>15, <1>22, <2>1, <2>3, <3>4, <3>5 DEF HomeOrGone
  <2>4. CASE h # None
    <3>1. /\ h \in Linked /\ \A d \in CodeLink(e) : h <= d
          /\ AtHome(e, h) \/ Gone(e, h)
      BY <2>0, <2>4, <2>h DEF HomeOrGone
    <3>2. h \in Linked' /\ h \in Nat /\ h <= Len(links) /\ h <= c /\ h \in Connectors
      BY <1>3, <1>6, <3>1 DEF Linked
    <3>3. c \in 1..Len(links)
      BY <1>3, <1>6
    <3>4. ASSUME AtHome(e, h), t = h PROVE AtHome(e, h)'
      <4>1. \A d \in Connectors : d # h => Unknown(i, d)'
        BY <2>2, <3>4 DEF AtHome
      <4>2. edge'[e].token # None => edge'[e].token.connector = h
        BY <1>9, <1>12, <3>4 DEF AtHome
      <4> QED BY <1>2, <1>12, <1>22, <3>4, <4>1, <4>2 DEF AtHome
    <3>5. ASSUME t # h, t > h \/ h < Len(links) PROVE Gone(e, h)'
      <4>1. links'[h].source # i
        BY <1>3, <1>5, <3>1, <3>5
      <4>2. h < Len(links')
        BY <1>6, <3>2, <3>5
      <4> QED BY <1>15, <1>22, <4>1, <4>2 DEF Gone
    <3>6. ASSUME AtHome(e, h), t # h PROVE t > h
      <4>1. CASE t = c
        BY <3>2, <3>3, <3>6, <4>1
      <4>2. CASE t \in Linked /\ links[t].source = i
        BY <1>6, <3>6, <4>2 DEF AtHome, Unknown
      <4>3. CASE t = Len(links) + 1
        BY <1>6, <3>2, <4>3
      <4> QED BY <1>4, <4>1, <4>2, <4>3
    <3>7. ASSUME Gone(e, h) PROVE t # h /\ h < Len(links)
      <4>1. links[h].source # i /\ h < Len(links) /\ h \notin CodeLink(e)
        BY <3>7 DEF Gone
      <4>2. t # h
        BY <1>4, <1>6, <3>2, <4>1
      <4> QED BY <4>1, <4>2
    <3>8. AtHome(e, h)' \/ Gone(e, h)'
      BY <3>1, <3>4, <3>5, <3>6, <3>7
    <3>9. home'[InstanceOf(e)'] = h
      BY <1>22, <2>1, <2>4
    <3> QED BY <1>15, <2>4, <3>2, <3>8, <3>9 DEF HomeOrGone
  <2> QED BY <2>3, <2>4
<1> QED BY <1>14, <1>15, <1>16, <1>17, <1>18, <1>21, <1>23, <1>24 DEF IInv

-----------------------------------------------------------------------------
(* The invariant holds. *)

LEMMA InvInit == Init => IInv
<1> SUFFICES ASSUME Init PROVE IInv
  OBVIOUS
<1>1. /\ links = <<>> /\ Len(links) = 0 /\ Linked = {} /\ links \in Seq(Link)
      /\ receipts = [c \in Connectors |-> {}] /\ issued = 0
      /\ captured = [e \in Edges |-> 0] /\ home = [i \in Instance |-> None]
  BY DEF Init, Linked
<1> DEFINE new == [life |-> 1, token |-> None, code |-> None, digest |-> None,
                   desired |-> None, sequence |-> 0, outbox |-> <<>>]
<1>2. edge = [e \in Edges |-> new]
  BY DEF Init
<1>3. /\ new \in EdgeState
      /\ new.life = 1 /\ new.token = None /\ new.code = None /\ new.digest = None
      /\ new.desired = None /\ new.sequence = 0 /\ new.outbox = <<>>
  <2>1. <<>> \in Seq(Batch) /\ Len(<<>>) = 0 /\ 0 <= MaxOutbox
    BY BoundsAssumption
  <2>2. <<>> \in UNION {[1..n -> Batch] : n \in 0..MaxOutbox}
    BY <2>1, QueueIs
  <2>3. 1 \in Lives /\ 0 \in 0..MaxBatches
    BY BoundsAssumption DEF Lives
  <2> QED BY <2>2, <2>3 DEF EdgeState
<1> HIDE DEF new
<1>4. \A e \in Edges : /\ edge[e] \in EdgeState
                       /\ edge[e].life = 1 /\ edge[e].token = None /\ edge[e].code = None
                       /\ edge[e].digest = None /\ edge[e].desired = None
                       /\ edge[e].sequence = 0 /\ edge[e].outbox = <<>>
                       /\ captured[e] = 0
  BY <1>1, <1>2, <1>3
<1>5. TypeOK
  <2>1. edge \in [Edges -> EdgeState]
    BY <1>2, <1>3
  <2>2. Range(links) \subseteq Link /\ Len(links) <= MaxConnectors
    <3>1. MaxConnectors \in Nat
      BY BoundsAssumption
    <3>2. 0 <= MaxConnectors
      BY <3>1
    <3>3. Range(links) \subseteq Link
      BY <1>1, RangeTyped, Zenon
    <3> QED BY <1>1, <3>2, <3>3, Zenon
  <2>3. issued \in 0..MaxCodes /\ captured \in [Edges -> 0..MaxBatches]
    BY <1>1, BoundsAssumption
  <2>4. receipts \in [Connectors -> SUBSET Receipt] /\ home \in [Instance -> Connectors \union {None}]
    BY <1>1
  <2> QED BY <1>1, <2>1, <2>2, <2>3, <2>4 DEF TypeOK, Linked
<1>6. SequencesOK
  <2>1. <<>> \in Seq(Batch) /\ Len(<<>>) = 0 /\ 0 <= MaxOutbox
    BY BoundsAssumption
  <2> QED BY <1>1, <1>4, <2>1, Zenon DEF SequencesOK
<1>7. CodesOnce
  BY <1>1, <1>4 DEF CodesOnce
<1>8. Placed /\ RecordedOnce
  BY <1>1 DEF Placed, RecordedOnce
<1>9. NoneForgotten
  BY <1>4 DEF NoneForgotten
<1>10. \A i, c : c \in Connectors => Unknown(i, c)
  BY <1>1 DEF Unknown
<1>11. FutureUnknown
  BY <1>1, <1>10 DEF FutureUnknown, Instance
<1>12. ASSUME NEW e \in Edges PROVE TokenMade(e) /\ QueueCounted(e) /\ HomeOrGone(e)
  <2>1. TokenMade(e)
    BY <1>4 DEF TokenMade
  <2>2. QueueCounted(e)
    BY <1>4 DEF QueueCounted
  <2>3. home[InstanceOf(e)] = None
    BY <1>1, <1>5, EdgeTyped
  <2>4. New(e)
    BY <1>4, <1>10 DEF New
  <2> QED BY <2>1, <2>2, <2>3, <2>4 DEF HomeOrGone
<1> QED BY <1>5, <1>6, <1>7, <1>8, <1>9, <1>11, <1>12 DEF IInv

LEMMA InvStep == IInv /\ [Next]_vars => IInv'
<1> SUFFICES ASSUME IInv, [Next]_vars PROVE IInv'
  OBVIOUS
<1>1. ASSUME NEW e \in Edges, IssueCode(e) PROVE IInv'
  BY <1>1, IssueCodeKeeps
<1>2. ASSUME NEW e \in Edges, Pair(e) PROVE IInv'
  BY <1>2, PairKeeps
<1>3. ASSUME NEW e \in Edges, Reset(e) PROVE IInv'
  BY <1>3, ResetKeeps
<1>4. ASSUME NEW e \in Edges, Upload(e) PROVE IInv'
  BY <1>4, UploadKeeps
<1>5. ASSUME NEW e \in Edges, PullDesired(e) PROVE IInv'
  BY <1>5, PullDesiredKeeps
<1>6. ASSUME NEW e \in Edges, Capture(e) PROVE IInv'
  BY <1>6, CaptureKeeps
<1>7. ASSUME NEW c \in Connectors, ExpireCode(c) PROVE IInv'
  BY <1>7, ExpireCodeKeeps
<1>8. ASSUME NEW c \in Connectors, RevokeByOwner(c) PROVE IInv'
  BY <1>8, RevokeKeeps
<1>9. ASSUME UNCHANGED vars PROVE IInv'
  <2>1. UNCHANGED <<edge, links, receipts, issued, captured, home>>
    BY <1>9 DEF vars
  <2>2. SamePairing /\ SameQueues
    BY <2>1 DEF SamePairing, SameQueues
  <2>3. SequencesOK'
    BY <2>1 DEF IInv, SequencesOK
  <2>4. SameOwners /\ CodesOnce' /\ CodesNewest /\ \A x \in Edges : TokenMade(x)'
    BY <2>1, <2>2, <2>3, PairingKept
  <2>5. TypeOK'
    BY <2>1 DEF IInv, TypeOK
  <2>6. (\A x \in Edges : QueueCounted(x)') /\ Placed' /\ RecordedOnce' /\ NoneForgotten'
    BY <2>2, QueuesKept
  <2>7. FutureUnknown'
    BY <2>1, <2>3, <2>4, FutureKept
  <2>8. \A x \in Edges : HomeOrGone(x)'
    BY <2>1, <2>3, <2>4, HomeKept
  <2> QED BY <2>3, <2>4, <2>5, <2>6, <2>7, <2>8 DEF IInv
<1> QED BY <1>1, <1>2, <1>3, <1>4, <1>5, <1>6, <1>7, <1>8, <1>9 DEF Next

LEMMA Invariance == Spec => []IInv
BY InvInit, InvStep, PTL DEF Spec

-----------------------------------------------------------------------------
(* Theorems. *)

\* The values of the variables; a working link has an owner, and a code that has paired an
\* Edge pairs no other.
THEOREM TypeCorrect == Spec => []TypeOK
<1>1. IInv => TypeOK
  BY DEF IInv
<1> QED BY <1>1, Invariance, PTL

\* However Edges are paired, revoked and reset, and whichever answers are lost, a batch
\* that was captured is in the queue or recorded, and recorded once on one connector.
THEOREM EvidenceIsKept == Spec => []EvidenceKept
<1>1. IInv => EvidenceKept
  <2> SUFFICES ASSUME IInv, NEW e \in Edges, NEW u \in 1..captured[e]
               PROVE  /\ Cardinality(Records(e, u)) <= 1
                      /\ Records(e, u) = {} =>
                            \E i \in DOMAIN edge[e].outbox : edge[e].outbox[i].unit = u
    BY DEF EvidenceKept
  <2>1. ASSUME NEW p \in Records(e, u)
        PROVE  /\ p = <<p[1], p[2]>> /\ p[1] \in Connectors /\ p[2] \in receipts[p[1]]
               /\ p[2].source[1] = e /\ p[2].unit = u
    BY DEF Records
  <2>2. ASSUME NEW p \in Records(e, u), NEW s \in Records(e, u) PROVE p = s
    BY <2>1, <2>2 DEF IInv, RecordedOnce
  <2>3. CASE Records(e, u) = {}
    <3>1. \E k \in DOMAIN edge[e].outbox : edge[e].outbox[k].unit = u
      <4>1. ASSUME NEW c \in Connectors, NEW r \in receipts[c], r.source[1] = e, r.unit = u
            PROVE  FALSE
        <5>1. <<c, r>> \in Records(e, u)
          BY <4>1 DEF Records
        <5> QED BY <2>3, <5>1
      <4> QED BY <4>1 DEF IInv, NoneForgotten
    <3> QED BY <2>3, <3>1, FS_EmptySet
  <2>4. CASE Records(e, u) # {}
    <3>1. PICK p \in Records(e, u) : Records(e, u) = {p}
      BY <2>2, <2>4
    <3>2. Cardinality({p}) = 1
      BY FS_Singleton
    <3> QED BY <2>4, <3>1, <3>2
  <2> QED BY <2>3, <2>4
<1> QED BY <1>1, Invariance, PTL

\* As long as the link of an Edge stands on its first connector, the cloud accepts the
\* head of its queue or recognises it.
THEOREM HeadIsTaken == Spec => []HeadTaken
<1>1. IInv => HeadTaken
  <2> SUFFICES ASSUME IInv, NEW e \in Edges, Paired(e), Working(e), edge[e].outbox # <<>>,
                      edge[e].token.connector = home[InstanceOf(e)]
               PROVE  HeadVerdict(e) \in {"accepted", "deduplicated"}
    BY DEF HeadTaken
  <2> DEFINE h == home[InstanceOf(e)]
             b == edge[e].outbox[1]
             own == {r \in receipts[h] : r.source = InstanceOf(e)}
             same == {r \in own : r.sequence = b.sequence}
  <2>1. h \in Connectors /\ h \in Linked /\ links[h].source = InstanceOf(e)
    BY WorkingLinked
  <2>2. AtHome(e, h)
    <3>1. h # None
      BY <2>1, NoneAssumption DEF Connectors
    <3> QED BY <2>1, <3>1 DEF IInv, HomeOrGone, Gone
  <2>3. /\ Head(edge[e].outbox) = b /\ b.sequence = Acked(e) + 1 /\ Acked(e) \in Nat
        /\ 1 \in DOMAIN edge[e].outbox
    BY HeadIs
  <2>4. b.route = h
    BY <2>2, <2>3 DEF AtHome
  <2>5. HeadVerdict(e) = Verdict(h, InstanceOf(e), b)
    BY <2>3 DEF HeadVerdict
  <2>6. ASSUME NEW r \in own
        PROVE  /\ r \in receipts[h] /\ r.source[1] = e /\ r.sequence \in Nat
               /\ r.sequence <= Acked(e) \/ r.sequence = Acked(e) + 1
    <3>1. r \in receipts[h] /\ r.source = InstanceOf(e)
      OBVIOUS
    <3>2. r.source[1] = e /\ r.source[2] = edge[e].life /\ r.sequence \in Nat
      BY <2>1, <3>1, EdgeTyped, ReceiptTyped DEF IInv
    <3>3. ReceiptPlaced(h, r)
      BY <2>1, <3>1 DEF IInv, Placed
    <3> QED BY <3>1, <3>2, <3>3 DEF ReceiptPlaced
  <2>7. CASE same # {}
    <3>1. ASSUME NEW r \in same PROVE r.unit = b.unit
      <4>1. /\ r \in receipts[h] /\ r.source[1] = e /\ r.source = InstanceOf(e)
            /\ r.sequence = Acked(e) + 1
        BY <2>3, <2>6
      <4>2. r.source[2] = edge[e].life /\ r.sequence \in Nat /\ r.unit \in Nat
        BY <2>1, <4>1, EdgeTyped, ReceiptTyped DEF IInv
      <4>3. ReceiptPlaced(h, r)
        BY <2>1, <4>1 DEF IInv, Placed
      <4>4. r.unit + edge[e].sequence = captured[e] + r.sequence
        BY <4>1, <4>2, <4>3 DEF ReceiptPlaced
      <4>5. b.unit + Len(edge[e].outbox) = captured[e] + 1 /\ b.unit \in Nat
        BY HeadIs
      <4>6. edge[e].sequence \in Nat /\ Len(edge[e].outbox) \in Nat /\ captured[e] \in Nat
        BY EdgeTyped DEF IInv
      <4>7. PICK u \in Nat, v \in Nat, s \in Nat, n \in Nat, k \in Nat :
               /\ u = r.unit /\ v = b.unit /\ s = edge[e].sequence
               /\ n = Len(edge[e].outbox) /\ k = captured[e]
        BY <4>2, <4>5, <4>6
      <4>8. u + s = k + ((s - n) + 1) /\ v + n = k + 1
        BY <4>1, <4>4, <4>5, <4>7, Zenon DEF Acked
      <4>9. u = v
        BY <4>8
      <4> QED BY <4>7, <4>9
    <3>2. Verdict(h, InstanceOf(e), b) = "deduplicated"
      BY <2>1, <2>7, <3>1 DEF Verdict
    <3> QED BY <2>5, <3>2
  <2>8. CASE same = {}
    <3> DEFINE T == {r.sequence : r \in own} \union {0}
    <3>1. Acked(e) \in T
      <4>1. CASE Acked(e) = 0
        BY <4>1
      <4>2. CASE Acked(e) # 0
        <5>1. PICK r \in receipts[h] : r.source = InstanceOf(e) /\ r.sequence = Acked(e)
          BY <2>2, <4>2 DEF AtHome
        <5> QED BY <5>1
      <4> QED BY <4>1, <4>2
    <3>2. T \in SUBSET (0..Acked(e))
      <4> SUFFICES ASSUME NEW x \in T PROVE x \in 0..Acked(e)
        OBVIOUS
      <4>1. CASE x = 0
        BY <2>3, <4>1
      <4>2. ASSUME NEW r \in own, x = r.sequence PROVE x \in 0..Acked(e)
        <5>1. r.sequence # Acked(e) + 1
          BY <2>3, <2>8
        <5>2. r.sequence \in Nat /\ r.sequence <= Acked(e)
          BY <2>6, <5>1
        <5> QED BY <2>3, <4>2, <5>2
      <4> QED BY <4>1, <4>2
    <3>3. Max(T) = Acked(e)
      <4>1. Max(T) \in T /\ \A y \in T : y <= Max(T)
        <5> HIDE DEF T
        <5> QED BY <2>3, <3>1, <3>2, Greatest
      <4>2. Max(T) \in 0..Acked(e) /\ Acked(e) <= Max(T)
        <5> HIDE DEF T
        <5> QED BY <3>1, <3>2, <4>1
      <4> HIDE DEF T
      <4> QED BY <2>3, <4>2
    <3>4. b.sequence = Max(T) + 1
      BY <2>3, <3>3
    <3>5. Verdict(h, InstanceOf(e), b) = "accepted"
      BY <2>1, <2>4, <2>8, <3>4 DEF Verdict
    <3> QED BY <2>5, <3>5
  <2> QED BY <2>7, <2>8
<1> QED BY <1>1, Invariance, PTL

\* Whatever code an Edge is paired with, no other Edge with a working link loses it: the
\* pairing ends on a connector that is its own, that no one uses, or that is new.
THEOREM NobodyEvicted == Spec => PairingEvictsNobody
<1> DEFINE Keeps(e) ==
              Working(e) =>
                 LET c == edge[e].token.connector
                 IN  links'[c].generation # links[c].generation
                         => links'[c].source = InstanceOf(e)
<1>1. IInv /\ [Next]_vars => \A e \in Edges : Keeps(e)
  <2> SUFFICES ASSUME IInv, [Next]_vars, NEW e \in Edges, Working(e)
               PROVE  LET c == edge[e].token.connector
                      IN  links'[c].generation # links[c].generation
                              => links'[c].source = InstanceOf(e)
    OBVIOUS
  <2> DEFINE d == edge[e].token.connector
  <2>1. d \in Linked /\ links[d].paired /\ links[d].source = InstanceOf(e) /\ links[d].node = e
    BY WorkingLinked
  <2>2. /\ links \in Seq(Link) /\ Linked = 1..Len(links) /\ links[d] \in Link
        /\ InstanceOf(e) # None
    BY <2>1, LinksTyped, EdgeTyped, NoneAssumption DEF IInv
  <2>3. ASSUME NEW x \in Edges, Pair(x)
        PROVE  links'[d].generation # links[d].generation => links'[d].source = InstanceOf(e)
    <3>1. PICK c \in CodeLink(x) :
             Target(c, x) \in Connectors /\ links' = PairedLinks(c, Target(c, x), x)
      BY <2>3 DEF Pair
    <3>2. PICK t \in Connectors : t = Target(c, x)
      BY <3>1
    <3>3. Joined(c, t, x)
      BY <3>1, <3>2, LinksPaired
    <3>4. CASE d # t
      BY <2>1, <3>3, <3>4 DEF Joined
    <3>5. CASE d = t /\ x = e
      BY <3>3, <3>5 DEF Joined
    <3>6. CASE d = t /\ x # e
      <4>1. InstanceOf(x) # InstanceOf(e)
        BY <3>6 DEF InstanceOf
      <4>2. c \in Linked
        BY <3>3 DEF Joined
      <4>3. \/ t = c /\ ~PairedElsewhere(c, x)
            \/ t \in Linked /\ links[t].source = InstanceOf(x)
            \/ t = Len(links) + 1
        BY <3>2, <4>2, TargetIs
      <4>4. ~(t = Len(links) + 1)
        <5>1. Len(links) \in Nat /\ t \in 1..Len(links)
          BY <2>1, <2>2, <3>6
        <5> QED BY <5>1
      <4> QED BY <2>1, <2>2, <3>6, <4>1, <4>3, <4>4 DEF PairedElsewhere
    <3> QED BY <3>4, <3>5, <3>6
  <2>4. ASSUME NEW c \in Linked, links' = [links EXCEPT ![c] = Revoked(links[c])]
        PROVE  links'[d].generation = links[d].generation
    BY <2>1, <2>2, <2>4 DEF Revoked, Link
  <2>5. ASSUME NEW x \in Edges, IssueCode(x) PROVE links'[d].generation = links[d].generation
    <3>1. Len(links) \in Nat /\ links # <<>>
      BY <2>1, <2>2
    <3>2. links' = [links EXCEPT ![Len(links)].code = issued + 1]
      BY <2>5, <3>1 DEF IssueCode
    <3> QED BY <2>1, <2>2, <3>1, <3>2 DEF Link
  <2>6. ASSUME NEW x \in Edges, Reset(x) PROVE links'[d].generation = links[d].generation
    <3>1. CASE Working(x)
      <4>1. edge[x].token.connector \in Linked
        BY <3>1, WorkingLinked
      <4>2. links' = [links EXCEPT ![edge[x].token.connector] =
                         Revoked(links[edge[x].token.connector])]
        BY <2>6, <3>1 DEF Reset
      <4> QED BY <2>4, <4>1, <4>2
    <3>2. CASE ~Working(x)
      BY <2>6, <3>2 DEF Reset
    <3> QED BY <3>1, <3>2
  <2>7. ASSUME NEW c \in Connectors, ExpireCode(c)
        PROVE  links'[d].generation = links[d].generation
    BY <2>1, <2>2, <2>7 DEF ExpireCode, Link
  <2>8. ASSUME NEW c \in Connectors, RevokeByOwner(c)
        PROVE  links'[d].generation = links[d].generation
    <3>1. c \in Linked /\ links' = [links EXCEPT ![c] = Revoked(links[c])]
      BY <2>8 DEF RevokeByOwner, Linked
    <3> QED BY <2>4, <3>1
  <2>9. ASSUME NEW x \in Edges, Upload(x) \/ PullDesired(x) \/ Capture(x)
        PROVE  links' = links
    BY <2>9 DEF Upload, PullDesired, Capture
  <2>10. ASSUME UNCHANGED vars PROVE links' = links
    BY <2>10 DEF vars
  <2> QED BY <2>3, <2>5, <2>6, <2>7, <2>8, <2>9, <2>10 DEF Next
<1>2. Spec => [][\A e \in Edges : Keeps(e)]_vars
  BY <1>1, Invariance, PTL DEF Spec
<1> QED BY <1>2 DEF PairingEvictsNobody
=============================================================================
