----------------------------- MODULE CaseEvents -----------------------------
(***************************************************************************)
(* The outbox of one case: transactions that insert events, the publishers *)
(* that push committed events to Redis pub/sub, and clients of the event   *)
(* stream, which replay from the table and then subscribe.                 *)
(*                                                                         *)
(* seq is drawn when a row is inserted, so rows can be committed in another *)
(* order.  A publisher holds row locks from its SELECT to its commit, and  *)
(* another publisher skips locked rows.  The live messages that handlers   *)
(* publish beside the outbox carry no seq and are left out: they only add  *)
(* deliveries.                                                             *)
(***************************************************************************)
EXTENDS Integers, Sequences, FiniteSets, SequencesExt

CONSTANTS
    Event,          \* outbox_events rows of the case
    Publisher,      \* OutboxPublisher loops, one in each offer worker
    Client,         \* browsers on /cases/{id}/activity/stream
    BatchSize,      \* _BATCH_SIZE
    ReplayLimit,    \* _REPLAY_LIMIT
    MaxSlips        \* bound: failed publications, deaths of publishers, broken streams

ASSUME CaseEventsConstants == BatchSize \in Nat \ {0} /\ ReplayLimit \in Nat \ {0}

VARIABLES
    row,            \* event -> "none", "open" (not committed), "stored", "published"
    seqOf,          \* event -> outbox_events.seq, 0 before the insert
    batch,          \* publisher -> the locked rows not yet tried, in order
    pushed,         \* publisher -> the locked rows it has published
    stream,         \* client -> "away", "replayed" or "live"
    last,           \* client -> Last-Event-ID, 0 before the first frame
    got,            \* client -> events received
    slips,          \* slips so far
    copies,         \* history: event -> how often it was published
    excused         \* history: client -> events the protocol does not promise it

eventVars == <<row, seqOf, batch, pushed, stream, last, got, slips, copies, excused>>

EventsInit ==
    /\ row = [e \in Event |-> "none"]
    /\ seqOf = [e \in Event |-> 0]
    /\ batch = [p \in Publisher |-> <<>>]
    /\ pushed = [p \in Publisher |-> {}]
    /\ stream = [c \in Client |-> "away"]
    /\ last = [c \in Client |-> 0]
    /\ got = [c \in Client |-> {}]
    /\ slips = 0
    /\ copies = [e \in Event |-> 0]
    /\ excused = [c \in Client |-> {}]

Committed == {e \in Event : row[e] \in {"stored", "published"}}
Slip == slips < MaxSlips /\ slips' = slips + 1

-----------------------------------------------------------------------------
\* Transactions.

Insert(e) ==
    /\ row[e] = "none"
    /\ row' = [row EXCEPT ![e] = "open"]
    /\ seqOf' = [seqOf EXCEPT ![e] = Cardinality({f \in Event : seqOf[f] > 0}) + 1]
    /\ UNCHANGED <<batch, pushed, stream, last, got, slips, copies, excused>>

CommitRow(e) ==
    /\ row[e] = "open"
    /\ row' = [row EXCEPT ![e] = "stored"]
    /\ UNCHANGED <<seqOf, batch, pushed, stream, last, got, slips, copies, excused>>

-----------------------------------------------------------------------------
\* _publish_batch.

\* ORDER BY seq: the one sequence of the rows in which seq goes up.
InSeqOrder(rows) ==
    {s \in [1..Cardinality(rows) -> rows] : \A i, j \in DOMAIN s : i < j => seqOf[s[i]] < seqOf[s[j]]}
First(n, s) == SubSeq(s, 1, IF Len(s) < n THEN Len(s) ELSE n)
Resting(p) == batch[p] = <<>> /\ pushed[p] = {}
Locked == UNION {ToSet(batch[p]) \cup pushed[p] : p \in Publisher}

\* Slip: the publisher reads on from the highest seq it has published.
UnlockedAfterCursor ==
    {e \in Event : row[e] = "stored" /\ \A f \in Event : row[f] = "published" => seqOf[f] < seqOf[e]} \ Locked

\* Unpublished rows no other publisher has locked.
Available == {e \in Event : row[e] = "stored"} \ Locked

Fetch(p) ==
    /\ Resting(p)
    /\ Available # {}
    /\ \E rows \in InSeqOrder(Available) : batch' = [batch EXCEPT ![p] = First(BatchSize, rows)]
    /\ UNCHANGED <<row, seqOf, pushed, stream, last, got, slips, copies, excused>>

Live == {c \in Client : stream[c] = "live"}

\* Every subscriber gets a frame with the event's seq; one that has replayed
\* and not subscribed yet gets nothing.
Deliver(e) ==
    /\ copies' = [copies EXCEPT ![e] = @ + 1]
    /\ got' = [c \in Client |-> IF c \in Live THEN got[c] \cup {e} ELSE got[c]]
    /\ last' = [c \in Client |-> IF c \in Live THEN seqOf[e] ELSE last[c]]
    /\ excused' = [c \in Client |-> IF stream[c] = "replayed" THEN excused[c] \cup {e} ELSE excused[c]]

Publish(p) ==
    /\ batch[p] # <<>>
    /\ Deliver(Head(batch[p]))
    /\ batch' = [batch EXCEPT ![p] = Tail(@)]
    /\ pushed' = [pushed EXCEPT ![p] = @ \cup {Head(batch[p])}]
    /\ UNCHANGED <<row, seqOf, stream, slips>>

\* Slip: a row whose publication failed is marked with the others.
PublishFailsMarked(p) ==
    /\ batch[p] # <<>>
    /\ Slip
    /\ batch' = [batch EXCEPT ![p] = Tail(@)]
    /\ pushed' = [pushed EXCEPT ![p] = @ \cup {Head(batch[p])}]
    /\ UNCHANGED <<row, seqOf, stream, last, got, copies, excused>>

\* A failed publication is logged and its row left for another batch.
PublishFails(p) ==
    /\ batch[p] # <<>>
    /\ Slip
    /\ batch' = [batch EXCEPT ![p] = Tail(@)]
    /\ UNCHANGED <<row, seqOf, pushed, stream, last, got, copies, excused>>

\* The rows that were published are marked, and the locks end with the commit.
Mark(p) ==
    /\ batch[p] = <<>>
    /\ pushed[p] # {}
    /\ row' = [e \in Event |-> IF e \in pushed[p] THEN "published" ELSE row[e]]
    /\ pushed' = [pushed EXCEPT ![p] = {}]
    /\ UNCHANGED <<seqOf, batch, stream, last, got, slips, copies, excused>>

\* The publisher dies, or its UPDATE fails: the rows stay unpublished.
Die(p) ==
    /\ ~Resting(p)
    /\ Slip
    /\ batch' = [batch EXCEPT ![p] = <<>>]
    /\ pushed' = [pushed EXCEPT ![p] = {}]
    /\ UNCHANGED <<row, seqOf, stream, last, got, copies, excused>>

PublisherStep(p) == Fetch(p) \/ Publish(p) \/ Mark(p)

-----------------------------------------------------------------------------
\* stream_case_activity.

\* Phase 1: rows after Last-Event-ID are replayed, if the client sends one.
\* The first connection sends none; what is behind the id, and what the limit
\* cuts off, is passed over.
Replay(c) ==
    LET behind == {e \in Committed : last[c] > 0 /\ seqOf[e] > last[c]} IN
    /\ stream[c] = "away"
    /\ stream' = [stream EXCEPT ![c] = "replayed"]
    /\ \E rows \in InSeqOrder(behind) :
        LET missed == First(ReplayLimit, rows) IN
        /\ got' = [got EXCEPT ![c] = @ \cup ToSet(missed)]
        /\ last' = [last EXCEPT ![c] = IF missed = <<>> THEN @ ELSE seqOf[Last(missed)]]
        /\ excused' = [excused EXCEPT ![c] = @ \cup ({e \in Event : copies[e] > 0} \ ToSet(missed))]
    /\ UNCHANGED <<row, seqOf, batch, pushed, slips, copies>>

\* Phase 2: the subscription.
Subscribe(c) ==
    /\ stream[c] = "replayed"
    /\ stream' = [stream EXCEPT ![c] = "live"]
    /\ UNCHANGED <<row, seqOf, batch, pushed, last, got, slips, copies, excused>>

Disconnect(c) ==
    /\ stream[c] # "away"
    /\ Slip
    /\ stream' = [stream EXCEPT ![c] = "away"]
    /\ UNCHANGED <<row, seqOf, batch, pushed, last, got, copies, excused>>

EventsNext ==
    \/ \E e \in Event : Insert(e) \/ CommitRow(e)
    \/ \E p \in Publisher : PublisherStep(p) \/ PublishFails(p) \/ Die(p)
    \/ \E c \in Client : Replay(c) \/ Subscribe(c) \/ Disconnect(c)

\* The loop of a publisher goes on.
EventsFairness == \A p \in Publisher : WF_eventVars(PublisherStep(p))

EventsSpec == EventsInit /\ [][EventsNext]_eventVars /\ EventsFairness

-----------------------------------------------------------------------------
(* Properties. *)

EventsTypeOK ==
    /\ \A e \in Event : row[e] = "none" <=> seqOf[e] = 0
    /\ \A p \in Publisher : ToSet(batch[p]) \cup pushed[p] \subseteq Committed
    /\ \A c \in Client : got[c] \subseteq Committed
    /\ \A c \in Client : last[c] \in {0} \cup {seqOf[e] : e \in Event}

\* What a subscribed client can miss ("Replay-safe delivery guarantee" in
\* case_events.py, "at-least-once delivery" in outbox.py): only events
\* published between its replay and its subscription, or, when it connected,
\* already published and not after its Last-Event-ID or past the replay limit.  In particular a failed
\* publication, a publisher's death and rows committed out of order lose nothing.
MissesOnlyTheGap ==
    \A c \in Live : \A e \in Event : row[e] = "published" => e \in got[c] \cup excused[c]

\* Committed events are published in the end, in whatever order they were
\* committed and whichever publication fails on the way.
OutboxDrains == (\E e \in Event : row[e] = "stored") ~> (\A e \in Event : row[e] # "stored")
=============================================================================
