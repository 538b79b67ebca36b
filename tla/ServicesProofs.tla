--------------------------- MODULE ServicesProofs ---------------------------
(***************************************************************************)
(* Theorems about the services beside the two job lanes, each for every    *)
(* value of its constants.                                                 *)
(*                                                                         *)
(* The event stream: what a subscribed client can miss. An event is marked *)
(* only by a publisher that has published it, and from its replay on a     *)
(* client has received each published event, or is excused.                *)
(*                                                                         *)
(* The cached settings: a read that took its tag after a change was        *)
(* invalidated is never served what was there before the change. Within    *)
(* one value of the tag, `covered` does not change, and whoever stores     *)
(* under a tag has loaded after taking that tag; so the value is at least  *)
(* what was covered when any sure reader took the same tag.                *)
(*                                                                         *)
(* A work item: an operator's value survives merging, and the status is    *)
(* the one the values have. Every row is manual if and only if it has a    *)
(* word, merging keeps the word of each row the request has no manual      *)
(* value for, and building gives every value its row.                      *)
(*                                                                         *)
(* The audit of the storage, for all times that fit AuditAssumption: the   *)
(* cleanup spares what is referred to. What came to be referred to since   *)
(* the rows were read was written at most MaxGap before that, hence is too *)
(* young when the objects are listed at most MaxScan after; from then on   *)
(* only late writes can make an object on the list a referred one.         *)
(*                                                                         *)
(* The settings of a company: with no save between its first commit and    *)
(* its invalidation, a reader with the current tag has read only what is   *)
(* still stored, so what it serves under that tag is what is stored.       *)
(*                                                                         *)
(* Sessions: an open session has a pair whose refresh token nobody has     *)
(* revoked (TokensRevoked), and pairs are numbered apart (PairsNumbered);  *)
(* a token of an ended session is refused because the row of the session   *)
(* says so; and while no change of the password is lost in another, a pair *)
(* with the current version was opened with the current password           *)
(* (VersionsTell).                                                         *)
(*                                                                         *)
(* The quote: whatever the catalogue, the lines of a quote from items sum  *)
(* to its costs and to the minimum prices of these items at least          *)
(* (PricedLinesFit), and those of one from an analysis are off by the      *)
(* rounding of each line (FallbackAddsUp).                                 *)
(*                                                                         *)
(* The type invariants of the parts, with the ranges each needs.           *)
(*                                                                         *)
(* Exports and photos: a row reads done only while its file is stored. A   *)
(* run that is alone with its item has its result in the storage from its  *)
(* writing on (RunsAlone), and runs that are not alone are on record       *)
(* (MixedIfTwo).                                                           *)
(***************************************************************************)
EXTENDS Services, CaseWorkflowProofs, FiniteSetTheorems, WellFoundedInduction, TLAPS

\* The event stream.

StreamTypes ==
    /\ row \in [Event -> {"none", "open", "stored", "published"}]
    /\ copies \in [Event -> Nat]
    /\ pushed = [p \in Publisher |-> pushed[p]]
    /\ stream \in [Client -> {"away", "replayed", "live"}]
    /\ got = [c \in Client |-> got[c]]
    /\ excused = [c \in Client |-> excused[c]]

\* No event is marked, or about to be, that was not published.
MarkedWasPublished ==
    \A e \in Event :
        row[e] = "published" \/ (\E p \in Publisher : e \in pushed[p]) => copies[e] > 0

\* A client that has replayed has what was published, or is excused.
CaughtUp == \A c \in Client : \A e \in Event :
    stream[c] # "away" /\ copies[e] > 0 => e \in got[c] \cup excused[c]

StreamInv == StreamTypes /\ MarkedWasPublished /\ CaughtUp

-----------------------------------------------------------------------------

LEMMA StreamInit == EventsInit => StreamInv
  BY DEF EventsInit, StreamInv, StreamTypes, MarkedWasPublished, CaughtUp

\* Transactions publish nothing.
LEMMA EventCommitStep ==
  ASSUME StreamInv, NEW e \in Event, Insert(e) \/ CommitRow(e)
  PROVE  StreamInv'
  <1>1. UNCHANGED <<pushed, stream, got, copies, excused>>
    BY DEF Insert, CommitRow
  <1>2. StreamTypes'
    BY <1>1 DEF StreamInv, StreamTypes, Insert, CommitRow
  <1>3. \A f \in Event : row'[f] = "published" => row[f] = "published"
    BY DEF StreamInv, StreamTypes, Insert, CommitRow
  <1> QED
    BY <1>1, <1>2, <1>3 DEF StreamInv, MarkedWasPublished, CaughtUp

\* _publish_one: a subscriber receives the event, and who has only replayed is excused.
LEMMA PublishStep == ASSUME StreamInv, NEW p \in Publisher, Publish(p) PROVE StreamInv'
  <1> DEFINE h == Head(batch[p])
  <1>1. /\ UNCHANGED <<row, stream>>
        /\ copies' = [copies EXCEPT ![h] = @ + 1]
        /\ pushed' = [pushed EXCEPT ![p] = @ \cup {h}]
        /\ got' = [c \in Client |-> IF c \in Live THEN got[c] \cup {h} ELSE got[c]]
        /\ excused' = [c \in Client |-> IF stream[c] = "replayed" THEN excused[c] \cup {h} ELSE excused[c]]
    BY DEF Publish, Deliver
  <1> HIDE DEF h
  <1>2. \A e \in Event : copies'[e] = IF e = h THEN copies[e] + 1 ELSE copies[e]
    BY <1>1 DEF StreamInv, StreamTypes
  <1>3. \A q \in Publisher : pushed'[q] = IF q = p THEN pushed[q] \cup {h} ELSE pushed[q]
    BY <1>1, Zenon DEF StreamInv, StreamTypes
  <1>4. StreamTypes'
    <2>1. copies' \in [Event -> Nat]
      <3>1. copies' = [e \in Event |-> IF e = h THEN copies[e] + 1 ELSE copies[e]]
        BY <1>1 DEF StreamInv, StreamTypes
      <3> QED
        BY <3>1 DEF StreamInv, StreamTypes
    <2>2. pushed' = [q \in Publisher |-> pushed'[q]]
      BY <1>1, Zenon DEF StreamInv, StreamTypes
    <2>3. got' = [c \in Client |-> got'[c]] /\ excused' = [c \in Client |-> excused'[c]]
      BY <1>1, Zenon
    <2> QED
      BY <1>1, <2>1, <2>2, <2>3 DEF StreamInv, StreamTypes
  <1>5. \A e \in Event : copies[e] \in Nat
    BY DEF StreamInv, StreamTypes
  <1>6. MarkedWasPublished'
    BY <1>1, <1>2, <1>3, <1>5 DEF StreamInv, MarkedWasPublished
  <1>7. CaughtUp'
    <2> SUFFICES ASSUME NEW c \in Client, NEW e \in Event, stream[c] # "away", copies'[e] > 0
                 PROVE  e \in got'[c] \cup excused'[c]
      BY <1>1 DEF CaughtUp
    <2>1. CASE e = h
      <3>1. stream[c] = "live" \/ stream[c] = "replayed"
        BY DEF StreamInv, StreamTypes
      <3> QED
        BY <1>1, <2>1, <3>1 DEF Live
    <2>2. CASE e # h
      <3>1. e \in got[c] \cup excused[c]
        BY <1>2, <2>2 DEF StreamInv, CaughtUp
      <3> QED
        BY <1>1, <3>1
    <2> QED
      BY <2>1, <2>2
  <1> QED
    BY <1>4, <1>6, <1>7 DEF StreamInv

\* The UPDATE marks the rows that were published.
LEMMA MarkStep == ASSUME StreamInv, NEW p \in Publisher, Mark(p) PROVE StreamInv'
  <1>1. /\ UNCHANGED <<stream, got, copies, excused>>
        /\ row' = [e \in Event |-> IF e \in pushed[p] THEN "published" ELSE row[e]]
        /\ pushed' = [pushed EXCEPT ![p] = {}]
    BY DEF Mark
  <1>2. row' \in [Event -> {"none", "open", "stored", "published"}]
    BY <1>1 DEF StreamInv, StreamTypes
  <1>3. pushed' = [q \in Publisher |-> pushed'[q]]
    BY <1>1, Zenon DEF StreamInv, StreamTypes
  <1>4. \A q \in Publisher : pushed'[q] = IF q = p THEN {} ELSE pushed[q]
    BY <1>1, Zenon DEF StreamInv, StreamTypes
  <1>5. MarkedWasPublished'
    BY <1>1, <1>4 DEF StreamInv, MarkedWasPublished
  <1> QED
    BY <1>1, <1>2, <1>3, <1>5 DEF StreamInv, StreamTypes, CaughtUp

\* Death, a failed publication and a fetch mark and publish nothing.
LEMMA StreamQuietStep ==
  ASSUME StreamInv, NEW p \in Publisher, Fetch(p) \/ PublishFails(p) \/ Die(p)
  PROVE  StreamInv'
  <1>1. UNCHANGED <<row, stream, got, copies, excused>>
    BY DEF Fetch, PublishFails, Die
  <1>2. pushed' = pushed \/ pushed' = [pushed EXCEPT ![p] = {}]
    BY DEF Fetch, PublishFails, Die
  <1>3. pushed' = [q \in Publisher |-> pushed'[q]]
    BY <1>2, Zenon DEF StreamInv, StreamTypes
  <1>4. \A q \in Publisher : pushed'[q] = pushed[q] \/ pushed'[q] = {}
    BY <1>2, Zenon DEF StreamInv, StreamTypes
  <1>5. MarkedWasPublished'
    BY <1>1, <1>4 DEF StreamInv, MarkedWasPublished
  <1> QED
    BY <1>1, <1>3, <1>5 DEF StreamInv, StreamTypes, CaughtUp

\* stream_case_activity replays what it finds and passes the rest over.
LEMMA ReplayStep == ASSUME StreamInv, NEW c \in Client, Replay(c) PROVE StreamInv'
  <1>1. PICK missed :
        /\ stream' = [stream EXCEPT ![c] = "replayed"]
        /\ got' = [got EXCEPT ![c] = @ \cup ToSet(missed)]
        /\ excused' = [excused EXCEPT ![c] = @ \cup ({e \in Event : copies[e] > 0} \ ToSet(missed))]
        /\ UNCHANGED <<row, pushed, copies>>
    BY Zenon DEF Replay
  <1>2. got' = [d \in Client |-> got'[d]] /\ excused' = [d \in Client |-> excused'[d]]
    BY <1>1, Zenon DEF StreamInv, StreamTypes
  <1>3. StreamTypes' /\ MarkedWasPublished'
    BY <1>1, <1>2 DEF StreamInv, StreamTypes, MarkedWasPublished
  <1>4. /\ got'[c] = got[c] \cup ToSet(missed)
        /\ excused'[c] = excused[c] \cup ({e \in Event : copies[e] > 0} \ ToSet(missed))
    BY <1>1, Zenon DEF StreamInv, StreamTypes
  <1>5. \A d \in Client : d # c => got'[d] = got[d] /\ excused'[d] = excused[d] /\ stream'[d] = stream[d]
    BY <1>1, Zenon DEF StreamInv, StreamTypes
  <1>6. CaughtUp'
    <2> SUFFICES ASSUME NEW d \in Client, NEW e \in Event, stream'[d] # "away", copies[e] > 0
                 PROVE  e \in got'[d] \cup excused'[d]
      BY <1>1 DEF CaughtUp
    <2> QED
      BY <1>4, <1>5, Zenon DEF StreamInv, CaughtUp
  <1> QED
    BY <1>3, <1>6 DEF StreamInv

LEMMA ConnectionStep ==
  ASSUME StreamInv, NEW c \in Client, Subscribe(c) \/ Disconnect(c)
  PROVE  StreamInv'
  <1>1. UNCHANGED <<row, pushed, got, copies, excused>>
    BY DEF Subscribe, Disconnect
  <1>2. StreamTypes'
    BY <1>1 DEF StreamInv, StreamTypes, Subscribe, Disconnect
  <1>3. \A d \in Client : stream'[d] # "away" => stream[d] # "away"
    BY DEF StreamInv, StreamTypes, Subscribe, Disconnect
  <1> QED
    BY <1>1, <1>2, <1>3 DEF StreamInv, MarkedWasPublished, CaughtUp

LEMMA StreamStep == StreamInv /\ [EventsNext]_eventVars => StreamInv'
  <1> SUFFICES ASSUME StreamInv, [EventsNext]_eventVars PROVE StreamInv'
    OBVIOUS
  <1>1. CASE UNCHANGED eventVars
    BY <1>1 DEF eventVars, StreamInv, StreamTypes, MarkedWasPublished, CaughtUp
  <1>2. ASSUME NEW e \in Event, Insert(e) \/ CommitRow(e) PROVE StreamInv'
    BY <1>2, EventCommitStep
  <1>3. ASSUME NEW p \in Publisher, PublisherStep(p) \/ PublishFails(p) \/ Die(p) PROVE StreamInv'
    BY <1>3, PublishStep, MarkStep, StreamQuietStep DEF PublisherStep
  <1>4. ASSUME NEW c \in Client, Replay(c) \/ Subscribe(c) \/ Disconnect(c) PROVE StreamInv'
    BY <1>4, ReplayStep, ConnectionStep
  <1> QED
    BY <1>1, <1>2, <1>3, <1>4 DEF EventsNext

\* A subscribed client has received every event marked as published, except
\* those the protocol of stream_case_activity passes over: for any number of
\* events, publishers, clients, failures and reconnections.
THEOREM StreamMissesOnlyTheGap == EventsSpec => []MissesOnlyTheGap
  <1>1. StreamInv => MissesOnlyTheGap
    BY DEF StreamInv, MarkedWasPublished, CaughtUp, MissesOnlyTheGap, Live
  <1> QED
    BY <1>1, StreamInit, StreamStep, PTL DEF EventsSpec

\* The types of the stream: the rows inserted are finitely many, so seq stays a
\* number and the rows a statement selects have their order.
Inserted == {e \in Event : seqOf[e] > 0}

Deliveries ==
    /\ seqOf \in [Event -> Nat]
    /\ IsFiniteSet(Inserted)
    /\ batch \in [Publisher -> Seq(Event)]
    /\ last = [c \in Client |-> last[c]]
    /\ EventsTypeOK

DeliveryInv == StreamInv /\ Deliveries

LEMMA DeliveryInit == EventsInit => DeliveryInv
  <1> SUFFICES ASSUME EventsInit PROVE Deliveries
    BY StreamInit DEF DeliveryInv
  <1>1. Inserted = {}
    BY DEF EventsInit, Inserted
  <1>2. last = [c \in Client |-> last[c]] /\ batch \in [Publisher -> Seq(Event)]
    BY DEF EventsInit
  <1>3. EventsTypeOK
    BY DEF EventsInit, EventsTypeOK, ToSet
  <1> QED
    BY <1>1, <1>2, <1>3, FS_EmptySet DEF EventsInit, Deliveries

\* The first rows of an ORDER BY are rows that were selected.
LEMMA FirstRows ==
  ASSUME DeliveryInv, NEW rows \in SUBSET Committed, NEW s \in InSeqOrder(rows), NEW n \in Nat
  PROVE  First(n, s) \in Seq(rows) /\ ToSet(First(n, s)) \subseteq rows
  <1>1. rows \subseteq Inserted
    BY DEF DeliveryInv, Deliveries, EventsTypeOK, Inserted, Committed
  <1>2. Cardinality(rows) \in Nat
    BY <1>1, FS_Subset, FS_CardinalityType DEF DeliveryInv, Deliveries
  <1>3. s \in Seq(rows)
    BY <1>2 DEF InSeqOrder
  <1>4. First(n, s) \in Seq(rows)
    BY <1>3 DEF First
  <1> QED
    BY <1>4 DEF ToSet

LEMMA InsertTypes ==
  ASSUME DeliveryInv, NEW e \in Event, Insert(e)
  PROVE  Deliveries'
  <1>1. Cardinality(Inserted) \in Nat
    BY FS_CardinalityType DEF DeliveryInv, Deliveries
  <1> DEFINE n == Cardinality(Inserted) + 1
  <1>2. n \in Nat /\ n > 0
    BY <1>1
  <1>3. seqOf' = [seqOf EXCEPT ![e] = n] /\ row' = [row EXCEPT ![e] = "open"] /\ row[e] = "none"
    BY DEF Insert, Inserted
  <1>4. UNCHANGED <<batch, pushed, stream, last, got>>
    BY DEF Insert
  <1> HIDE DEF n
  <1>5. seqOf' \in [Event -> Nat] /\ Inserted' = Inserted \cup {e}
    BY <1>2, <1>3 DEF DeliveryInv, Deliveries, Inserted
  <1>6. IsFiniteSet(Inserted')
    BY <1>5, FS_AddElement DEF DeliveryInv, Deliveries
  <1>7. EventsTypeOK'
    <2>1. \A f \in Event : row'[f] = "none" <=> seqOf'[f] = 0
      BY <1>2, <1>3 DEF DeliveryInv, Deliveries, EventsTypeOK, StreamInv, StreamTypes
    <2>2. Committed' = Committed
      BY <1>3 DEF Committed, DeliveryInv, StreamInv, StreamTypes
    <2>3. ASSUME NEW c \in Client PROVE last'[c] \in {0} \cup {seqOf'[f] : f \in Event}
      <3>1. CASE last[c] = 0
        BY <1>4, <3>1
      <3>2. ASSUME NEW f \in Event, last[c] = seqOf[f], last[c] # 0
            PROVE  last'[c] \in {0} \cup {seqOf'[g] : g \in Event}
        <4>1. seqOf'[f] = seqOf[f]
          BY <1>3, <3>2 DEF DeliveryInv, Deliveries, EventsTypeOK
        <4> QED
          BY <1>4, <3>2, <4>1
      <3> QED
        BY <3>1, <3>2 DEF DeliveryInv, Deliveries, EventsTypeOK
    <2> QED
      BY <1>4, <2>1, <2>2, <2>3 DEF DeliveryInv, Deliveries, EventsTypeOK
  <1> QED
    BY <1>4, <1>5, <1>6, <1>7 DEF DeliveryInv, Deliveries

\* Rows are committed or marked: all that was committed stays so.
LEMMA RowTypes ==
  ASSUME DeliveryInv, (\E e \in Event : CommitRow(e)) \/ (\E p \in Publisher : Mark(p))
  PROVE  Deliveries'
  <1>1. UNCHANGED <<seqOf, batch, last, got>>
    BY DEF CommitRow, Mark
  <1>2. /\ \A e \in Event : row'[e] = "none" <=> row[e] = "none"
        /\ Committed \subseteq Committed'
    <2>1. CASE \E e \in Event : CommitRow(e)
      BY <2>1 DEF CommitRow, Committed, DeliveryInv, StreamInv, StreamTypes
    <2>2. ASSUME NEW p \in Publisher, Mark(p)
          PROVE  /\ \A e \in Event : row'[e] = "none" <=> row[e] = "none"
                 /\ Committed \subseteq Committed'
      <3>1. pushed[p] \subseteq Committed /\ row' = [e \in Event |-> IF e \in pushed[p] THEN "published" ELSE row[e]]
        BY <2>2 DEF Mark, DeliveryInv, Deliveries, EventsTypeOK
      <3> QED
        BY <3>1 DEF Committed
    <2> QED
      BY <2>1, <2>2
  <1>3. \A p \in Publisher : pushed'[p] \subseteq pushed[p]
    <2>1. pushed = [p \in Publisher |-> pushed[p]]
      BY DEF DeliveryInv, StreamInv, StreamTypes
    <2> QED
      BY <2>1, Zenon DEF CommitRow, Mark
  <1>4. EventsTypeOK'
    BY <1>1, <1>2, <1>3 DEF DeliveryInv, Deliveries, EventsTypeOK
  <1>5. Inserted' = Inserted
    BY <1>1 DEF Inserted
  <1> QED
    BY <1>1, <1>4, <1>5 DEF DeliveryInv, Deliveries

\* A publisher takes rows up, passes the first on, or lets them go.
LEMMA BatchTypes ==
  ASSUME DeliveryInv, NEW p \in Publisher, NEW b \in Seq(Event), NEW done,
         ToSet(b) \cup done \subseteq Committed,
         batch' = [batch EXCEPT ![p] = b], pushed' = [pushed EXCEPT ![p] = done], UNCHANGED <<row, seqOf>>,
         \A c \in Client : got'[c] \subseteq Committed,
         \A c \in Client : last'[c] \in {0} \cup {seqOf[e] : e \in Event},
         last' = [c \in Client |-> last'[c]]
  PROVE  Deliveries'
  <1>1. \A q \in Publisher : pushed'[q] = IF q = p THEN done ELSE pushed[q]
    BY Zenon DEF DeliveryInv, StreamInv, StreamTypes
  <1>2. \A q \in Publisher : batch'[q] = IF q = p THEN b ELSE batch[q]
    BY DEF DeliveryInv, Deliveries
  <1>3. batch' \in [Publisher -> Seq(Event)]
    BY DEF DeliveryInv, Deliveries
  <1>4. Committed' = Committed /\ Inserted' = Inserted
    BY DEF Committed, Inserted
  <1>5. EventsTypeOK'
    BY <1>1, <1>2, <1>4 DEF DeliveryInv, Deliveries, EventsTypeOK
  <1> QED
    BY <1>3, <1>4, <1>5 DEF DeliveryInv, Deliveries

LEMMA PublisherTypes ==
  ASSUME DeliveryInv, NEW p \in Publisher, Fetch(p) \/ Publish(p) \/ PublishFails(p) \/ Die(p)
  PROVE  Deliveries'
  <1>1. /\ batch[p] \in Seq(Event) /\ ToSet(batch[p]) \cup pushed[p] \subseteq Committed
        /\ pushed = [q \in Publisher |-> pushed[q]] /\ last = [c \in Client |-> last[c]]
        /\ \A c \in Client : got[c] \subseteq Committed
        /\ \A c \in Client : last[c] \in {0} \cup {seqOf[e] : e \in Event}
    BY DEF DeliveryInv, Deliveries, EventsTypeOK, StreamInv, StreamTypes
  <1>2. pushed = [pushed EXCEPT ![p] = pushed[p]]
    BY <1>1, Zenon
  <1>3. CASE Fetch(p)
    <2>1. PICK s \in InSeqOrder(Available) : batch' = [batch EXCEPT ![p] = First(BatchSize, s)]
      BY <1>3 DEF Fetch
    <2>2. Available \subseteq Committed /\ Available \subseteq Event
      BY DEF Available, Committed
    <2>3. First(BatchSize, s) \in Seq(Available) /\ ToSet(First(BatchSize, s)) \subseteq Available
      BY <2>2, CaseEventsConstants, FirstRows
    <2> DEFINE b == First(BatchSize, s)
    <2>4. b \in Seq(Event) /\ ToSet(b) \cup pushed[p] \subseteq Committed
      BY <1>1, <2>2, <2>3
    <2>5. batch' = [batch EXCEPT ![p] = b] /\ UNCHANGED <<row, seqOf, pushed, got, last>>
      BY <1>3, <2>1 DEF Fetch
    <2> HIDE DEF b
    <2> QED
      BY <1>1, <1>2, <2>4, <2>5, BatchTypes
  <1>4. CASE Die(p)
    <2>1. <<>> \in Seq(Event) /\ ToSet(<<>>) = {}
      BY DEF ToSet
    <2>2. /\ batch' = [batch EXCEPT ![p] = <<>>] /\ pushed' = [pushed EXCEPT ![p] = {}]
          /\ UNCHANGED <<row, seqOf, got, last>>
      BY <1>4 DEF Die
    <2> QED
      BY <1>1, <2>1, <2>2, BatchTypes
  <1>5. CASE Publish(p) \/ PublishFails(p)
    <2> DEFINE h == Head(batch[p])
               b == Tail(batch[p])
    <2>1. batch[p] # <<>>
      BY <1>5 DEF Publish, PublishFails
    <2>2. b \in Seq(Event) /\ ToSet(b) \subseteq ToSet(batch[p]) /\ h \in ToSet(batch[p])
      BY <1>1, <2>1 DEF ToSet
    <2>3. h \in Committed /\ h \in Event
      BY <1>1, <2>2 DEF Committed
    <2>4. batch' = [batch EXCEPT ![p] = b] /\ UNCHANGED <<row, seqOf>>
      BY <1>5 DEF Publish, PublishFails
    <2>5. CASE Publish(p)
      <3>1. /\ pushed' = [pushed EXCEPT ![p] = @ \cup {h}]
            /\ got' = [c \in Client |-> IF c \in Live THEN got[c] \cup {h} ELSE got[c]]
            /\ last' = [c \in Client |-> IF c \in Live THEN seqOf[h] ELSE last[c]]
        BY <2>5 DEF Publish, Deliver
      <3> HIDE DEF h, b
      <3>2. pushed' = [pushed EXCEPT ![p] = pushed[p] \cup {h}]
        BY <3>1
      <3>3. ToSet(b) \cup (pushed[p] \cup {h}) \subseteq Committed
        BY <1>1, <2>2, <2>3
      <3>4. \A c \in Client : got'[c] \subseteq Committed
        BY <1>1, <2>3, <3>1
      <3>5. \A c \in Client : last'[c] \in {0} \cup {seqOf[e] : e \in Event}
        BY <1>1, <2>3, <3>1
      <3>6. last' = [c \in Client |-> last'[c]]
        BY <3>1, Zenon
      <3> QED
        BY <2>2, <2>4, <3>2, <3>3, <3>4, <3>5, <3>6, BatchTypes
    <2>6. CASE PublishFails(p)
      <3>1. UNCHANGED <<pushed, got, last>>
        BY <2>6 DEF PublishFails
      <3> HIDE DEF h, b
      <3>2. ToSet(b) \cup pushed[p] \subseteq Committed
        BY <1>1, <2>2
      <3> QED
        BY <1>1, <1>2, <2>2, <2>4, <3>1, <3>2, BatchTypes
    <2> QED
      BY <1>5, <2>5, <2>6
  <1> QED
    BY <1>3, <1>4, <1>5

\* What is replayed was committed, and the last id a client holds is an event's.
LEMMA ReplayTypes ==
  ASSUME DeliveryInv, NEW c \in Client, Replay(c)
  PROVE  Deliveries'
  <1> DEFINE behind == {e \in Committed : last[c] > 0 /\ seqOf[e] > last[c]}
  <1>1. PICK s \in InSeqOrder(behind) :
          /\ got' = [got EXCEPT ![c] = @ \cup ToSet(First(ReplayLimit, s))]
          /\ last' = [last EXCEPT ![c] =
                IF First(ReplayLimit, s) = <<>> THEN @ ELSE seqOf[Last(First(ReplayLimit, s))]]
    BY DEF Replay
  <1> DEFINE missed == First(ReplayLimit, s)
  <1>2. UNCHANGED <<row, seqOf, batch, pushed>>
    BY DEF Replay
  <1>3. missed \in Seq(behind) /\ ToSet(missed) \subseteq behind
    BY CaseEventsConstants, FirstRows
  <1>4. behind \subseteq Committed /\ behind \subseteq Event
    BY DEF Committed
  <1>5. /\ got' = [got EXCEPT ![c] = @ \cup ToSet(missed)]
        /\ last' = [last EXCEPT ![c] = IF missed = <<>> THEN @ ELSE seqOf[Last(missed)]]
    BY <1>1
  <1> HIDE DEF missed, behind
  <1>6. \A d \in Client : got'[d] = IF d = c THEN got[c] \cup ToSet(missed) ELSE got[d]
    BY <1>5, Zenon DEF DeliveryInv, StreamInv, StreamTypes
  <1>7. missed # <<>> => Last(missed) \in Event
    BY <1>3, <1>4 DEF Last
  <1>8. last' = [d \in Client |-> last'[d]]
    BY <1>5, Zenon DEF DeliveryInv, Deliveries
  <1>9. \A d \in Client : last'[d] \in {0} \cup {seqOf[e] : e \in Event}
    <2>1. \A d \in Client : last'[d] = IF d = c /\ missed # <<>> THEN seqOf[Last(missed)] ELSE last[d]
      BY <1>5, Zenon DEF DeliveryInv, Deliveries
    <2> QED
      BY <1>7, <2>1 DEF DeliveryInv, Deliveries, EventsTypeOK
  <1>10. EventsTypeOK'
    <2>1. Committed' = Committed
      BY <1>2 DEF Committed
    <2>2. \A d \in Client : got'[d] \subseteq Committed
      BY <1>3, <1>4, <1>6 DEF DeliveryInv, Deliveries, EventsTypeOK
    <2> QED
      BY <1>2, <1>9, <2>1, <2>2 DEF DeliveryInv, Deliveries, EventsTypeOK
  <1>11. Inserted' = Inserted
    BY <1>2 DEF Inserted
  <1> QED
    BY <1>2, <1>8, <1>10, <1>11 DEF DeliveryInv, Deliveries

LEMMA DeliveryStep == DeliveryInv /\ [EventsNext]_eventVars => DeliveryInv'
  <1> SUFFICES ASSUME DeliveryInv, [EventsNext]_eventVars PROVE Deliveries'
    BY StreamStep DEF DeliveryInv
  <1>1. CASE UNCHANGED eventVars
    BY <1>1 DEF eventVars, DeliveryInv, Deliveries, Inserted, EventsTypeOK, Committed
  <1>2. ASSUME NEW c \in Client, Subscribe(c) \/ Disconnect(c) PROVE Deliveries'
    <2>1. UNCHANGED <<row, seqOf, batch, pushed, last, got>>
      BY <1>2 DEF Subscribe, Disconnect
    <2>2. EventsTypeOK'
      BY <2>1 DEF DeliveryInv, Deliveries, EventsTypeOK, Committed
    <2> QED
      BY <2>1, <2>2 DEF DeliveryInv, Deliveries, Inserted
  <1> QED
    BY <1>1, <1>2, InsertTypes, RowTypes, PublisherTypes, ReplayTypes DEF EventsNext, PublisherStep

\* What publishers hold and clients have received was committed, and an id a
\* client resumes from is an event's (stream_case_activity, _publish_batch).
THEOREM EventTypes == EventsSpec => []EventsTypeOK
  <1>1. DeliveryInv => EventsTypeOK
    BY DEF DeliveryInv, Deliveries
  <1> QED
    BY <1>1, DeliveryInit, DeliveryStep, PTL DEF EventsSpec

-----------------------------------------------------------------------------
\* The cached settings.

ReaderStates ==
    {Start}
    \cup [pc : {"tagged", "missed"}, tag : Nat, sure : BOOLEAN, due : Nat]
    \cup [pc : {"loaded"}, tag : Nat, value : Nat, sure : BOOLEAN, due : Nat]
    \cup [pc : {"served"}, value : Nat, sure : BOOLEAN, due : Nat]

Asking(r) == reader[r].pc \in {"tagged", "missed", "loaded"}
Loaded(r) == reader[r].pc = "loaded"
Held == entry # Nothing

SettingsTypes ==
    /\ db \in Nat /\ tag \in Nat /\ covered \in Nat
    /\ entry \in [tag : Nat, value : Nat]
    /\ reader \in [Reader -> ReaderStates]

\* Tags and versions taken are not from the future.
SettingsBounds ==
    /\ covered =< db
    /\ entry.tag =< tag
    /\ \A r \in Reader : Asking(r) => reader[r].tag =< tag /\ reader[r].due =< covered

\* What is held, or about to be, under the current tag is covered.
Current ==
    /\ Held /\ entry.tag = tag => entry.value >= covered
    /\ \A q \in Reader : Loaded(q) /\ reader[q].tag = tag => reader[q].value >= covered

\* What is held, or about to be, under a sure reader's tag is due to it.
SureGetTheirDue ==
    \A r \in Reader : Asking(r) /\ reader[r].sure =>
        /\ Held /\ entry.tag = reader[r].tag => entry.value >= reader[r].due
        /\ \A q \in Reader :
            Loaded(q) /\ reader[q].tag = reader[r].tag => reader[q].value >= reader[r].due

SettingsInv == SettingsTypes /\ SettingsBounds /\ Current /\ SureGetTheirDue /\ InvalidatedIsNotServed

-----------------------------------------------------------------------------

\* The cache starts empty and nobody reads.
LEMMA SettingsInit == CacheInit => SettingsInv
  <1> SUFFICES ASSUME CacheInit PROVE SettingsInv
    OBVIOUS
  <1>1. SettingsTypes
    BY DEF CacheInit, SettingsTypes, ReaderStates, Start, Nothing
  <1>2. \A r \in Reader : reader[r].pc = "idle"
    BY DEF CacheInit, Start
  <1> QED
    BY <1>1, <1>2 DEF CacheInit, SettingsInv, SettingsBounds, Current, SureGetTheirDue, InvalidatedIsNotServed,
        Asking, Loaded, Held, Nothing

\* get_cache_tag: what is due to a sure reader is what is covered under the
\* current tag.
LEMMA TakeTagStep == ASSUME SettingsInv, NEW r \in Reader, TakeTag(r) PROVE SettingsInv'
  <1> USE DEF SettingsInv
  <1>1. PICK t \in Nat, s \in BOOLEAN :
            /\ reader' = [reader EXCEPT ![r] = [pc |-> "tagged", tag |-> t, sure |-> s, due |-> covered]]
            /\ t =< tag
            /\ s => t = tag
    <2>1. tag \in Nat /\ 0 \in Nat /\ 0 =< tag /\ tag =< tag
      BY DEF SettingsTypes
    <2>2. CASE ReaderAt(r, [pc |-> "tagged", tag |-> tag, sure |-> TRUE, due |-> covered])
      BY <2>1, <2>2, Zenon DEF ReaderAt
    <2>3. CASE ReaderAt(r, [pc |-> "tagged", tag |-> 0, sure |-> FALSE, due |-> covered])
      BY <2>1, <2>3, Zenon DEF ReaderAt
    <2> QED
      BY <2>2, <2>3 DEF TakeTag
  <1>2. UNCHANGED <<db, tag, entry, covered>>
    BY DEF TakeTag
  <1>3. \A q \in Reader : q # r => reader'[q] = reader[q]
    BY <1>1 DEF SettingsTypes
  <1>4. reader'[r] = [pc |-> "tagged", tag |-> t, sure |-> s, due |-> covered]
    BY <1>1 DEF SettingsTypes
  <1>5. SettingsTypes'
    BY <1>1, <1>2 DEF SettingsTypes, ReaderStates
  <1>6. SettingsBounds'
    BY <1>1, <1>2, <1>3, <1>4 DEF SettingsBounds, Asking, SettingsTypes
  <1>7. Current'
    BY <1>2, <1>3, <1>4 DEF Current, Loaded, Held
  <1>8. SureGetTheirDue'
    BY <1>1, <1>2, <1>3, <1>4 DEF SureGetTheirDue, Current, Asking, Loaded, Held
  <1>9. InvalidatedIsNotServed'
    BY <1>3, <1>4 DEF InvalidatedIsNotServed
  <1> QED
    BY <1>5, <1>6, <1>7, <1>8, <1>9

\* get_cached: a hit has the reader's own tag.
LEMMA LookUpStep == ASSUME SettingsInv, NEW r \in Reader, LookUp(r) PROVE SettingsInv'
  <1> USE DEF SettingsInv
  <1>1. UNCHANGED <<db, tag, covered>> /\ reader[r].pc = "tagged"
    BY DEF LookUp
  <1>2. entry' = entry \/ entry' = Nothing
    BY DEF LookUp
  <1>3. reader[r] \in [pc : {"tagged", "missed"}, tag : Nat, sure : BOOLEAN, due : Nat]
    BY <1>1 DEF SettingsTypes, ReaderStates, Start
  <1>4. \A q \in Reader : q # r => reader'[q] = reader[q]
    BY DEF LookUp, ReaderAt, SettingsTypes
  <1>5. \/ /\ reader'[r] = [reader[r] EXCEPT !.pc = "missed"]
           /\ reader' = [reader EXCEPT ![r] = reader'[r]]
        \/ /\ reader'[r] = [pc |-> "served", value |-> entry.value, sure |-> reader[r].sure, due |-> reader[r].due]
           /\ reader' = [reader EXCEPT ![r] = reader'[r]]
           /\ Held /\ entry.tag = reader[r].tag
    BY DEF LookUp, ReaderAt, SettingsTypes, Held
  <1>6. SettingsTypes'
    <2>1. entry' \in [tag : Nat, value : Nat]
      BY <1>2 DEF SettingsTypes, Nothing
    <2>2. reader'[r] \in ReaderStates
      BY <1>3, <1>5 DEF SettingsTypes, ReaderStates
    <2> QED
      BY <1>1, <1>5, <2>1, <2>2 DEF SettingsTypes
  <1>7. ~Loaded(r)' /\ (Asking(r)' => reader'[r].tag = reader[r].tag /\ reader'[r].due = reader[r].due
                                       /\ reader'[r].sure = reader[r].sure)
    BY <1>3, <1>5 DEF Loaded, Asking
  <1>8. SettingsBounds'
    <2>1. (entry.tag)' =< tag
      BY <1>2 DEF SettingsBounds, SettingsTypes, Nothing
    <2> QED
      BY <1>1, <1>4, <1>7, <2>1 DEF SettingsBounds, Asking, SettingsTypes
  <1>9. Current'
    BY <1>1, <1>2, <1>4, <1>7 DEF Current, Loaded, Held
  <1>10. SureGetTheirDue'
    BY <1>1, <1>2, <1>4, <1>7 DEF SureGetTheirDue, Asking, Loaded, Held
  <1>11. InvalidatedIsNotServed'
    BY <1>1, <1>3, <1>4, <1>5 DEF InvalidatedIsNotServed, SureGetTheirDue, Asking
  <1> QED
    BY <1>6, <1>8, <1>9, <1>10, <1>11

\* The database has every version that was ever covered.
LEMMA LoadStep == ASSUME SettingsInv, NEW r \in Reader, Load(r) PROVE SettingsInv'
  <1> USE DEF SettingsInv
  <1>1. UNCHANGED <<db, tag, entry, covered>> /\ reader[r].pc = "missed"
    BY DEF Load
  <1>2. reader[r] \in [pc : {"tagged", "missed"}, tag : Nat, sure : BOOLEAN, due : Nat]
    BY <1>1 DEF SettingsTypes, ReaderStates, Start
  <1>3. \A q \in Reader : q # r => reader'[q] = reader[q]
    BY DEF Load, ReaderAt, SettingsTypes
  <1>4. reader'[r] = [pc |-> "loaded", tag |-> reader[r].tag, value |-> db,
                      sure |-> reader[r].sure, due |-> reader[r].due]
    BY DEF Load, ReaderAt, SettingsTypes
  <1>5. SettingsTypes'
    <2>1. reader'[r] \in ReaderStates
      BY <1>2, <1>4 DEF SettingsTypes, ReaderStates
    <2>2. reader' = [reader EXCEPT ![r] = reader'[r]]
      BY DEF Load, ReaderAt, SettingsTypes
    <2> QED
      BY <1>1, <2>1, <2>2 DEF SettingsTypes
  <1>6. SettingsBounds'
    BY <1>1, <1>3, <1>4 DEF SettingsBounds, Asking
  <1>7. Current'
    BY <1>1, <1>3, <1>4 DEF Current, SettingsBounds, Loaded, Held
  <1>8. \A q \in Reader : Asking(q)' => Asking(q) /\ reader'[q].tag = reader[q].tag
                                      /\ reader'[q].due = reader[q].due /\ reader'[q].sure = reader[q].sure
    BY <1>1, <1>3, <1>4 DEF Asking
  <1>9. \A q \in Reader : Asking(q) => reader[q].due \in Nat /\ reader[q].due =< db
    BY DEF SettingsTypes, ReaderStates, Start, SettingsBounds, Asking
  <1>10. \A q \in Reader : Loaded(q)' => (q = r /\ reader'[q].value = db)
                                        \/ (q # r /\ Loaded(q) /\ reader'[q] = reader[q])
    BY <1>3, <1>4 DEF Loaded
  <1>11. SureGetTheirDue'
    BY <1>1, <1>8, <1>9, <1>10 DEF SureGetTheirDue, Held
  <1>12. InvalidatedIsNotServed'
    BY <1>3, <1>4 DEF InvalidatedIsNotServed
  <1> QED
    BY <1>5, <1>6, <1>7, <1>11, <1>12

\* set_cached: the entry takes the tag and the value of a reader that loaded.
LEMMA StoreStep == ASSUME SettingsInv, NEW r \in Reader, Store(r) PROVE SettingsInv'
  <1> USE DEF SettingsInv
  <1>1. UNCHANGED <<db, tag, covered>> /\ Loaded(r)
    BY DEF Store, Loaded
  <1>2. entry' = entry \/ entry' = [tag |-> reader[r].tag, value |-> reader[r].value]
    BY DEF Store
  <1>3. reader[r] \in [pc : {"loaded"}, tag : Nat, value : Nat, sure : BOOLEAN, due : Nat]
    BY <1>1 DEF SettingsTypes, ReaderStates, Start, Loaded
  <1>4. \A q \in Reader : q # r => reader'[q] = reader[q]
    BY DEF Store, ReaderAt, SettingsTypes
  <1>5. reader'[r] = [pc |-> "served", value |-> reader[r].value, sure |-> reader[r].sure, due |-> reader[r].due]
    BY DEF Store, ReaderAt, SettingsTypes
  <1>6. SettingsTypes'
    <2>1. reader'[r] \in ReaderStates
      BY <1>3, <1>5 DEF ReaderStates
    <2>2. reader' = [reader EXCEPT ![r] = reader'[r]]
      BY DEF Store, ReaderAt, SettingsTypes
    <2> QED
      BY <1>1, <1>2, <1>3, <2>1, <2>2 DEF SettingsTypes
  <1>7. ~Asking(r)' /\ ~Loaded(r)'
    BY <1>5 DEF Asking, Loaded
  <1>8. SettingsBounds'
    <2>1. (entry.tag)' =< tag
      BY <1>1, <1>2 DEF SettingsBounds, Asking, Loaded
    <2> QED
      BY <1>1, <1>4, <1>7, <2>1 DEF SettingsBounds, Asking
  <1>9. Current'
    BY <1>1, <1>2, <1>4, <1>7 DEF Current, Loaded, Held
  <1>10. SureGetTheirDue'
    BY <1>1, <1>2, <1>4, <1>7 DEF SureGetTheirDue, Asking, Loaded, Held
  <1>11. InvalidatedIsNotServed'
    BY <1>1, <1>4, <1>5 DEF InvalidatedIsNotServed, SureGetTheirDue, Asking, Loaded
  <1> QED
    BY <1>6, <1>8, <1>9, <1>10, <1>11

\* A new tag has no entry and no reader yet.
LEMMA RaiseTagStep == ASSUME SettingsInv, NEW e \in Editor, RaiseTag(e) PROVE SettingsInv'
  <1> USE DEF SettingsInv
  <1>1. UNCHANGED <<db, entry, reader>>
    BY DEF RaiseTag
  <1>2. CASE tag' = tag + 1 /\ covered' = db
    <2>1. SettingsTypes' /\ SureGetTheirDue' /\ InvalidatedIsNotServed'
      BY <1>1, <1>2 DEF SettingsTypes, SureGetTheirDue, InvalidatedIsNotServed, Asking, Loaded, Held
    <2>2. \A r \in Reader : Asking(r) => reader[r].tag \in Nat /\ reader[r].due \in Nat
      BY DEF SettingsTypes, ReaderStates, Start, Asking
    <2>3. SettingsBounds'
      BY <1>1, <1>2, <2>2 DEF SettingsTypes, SettingsBounds, Asking
    <2>4. Current'
      BY <1>1, <1>2, <2>2 DEF SettingsTypes, Current, SettingsBounds, Asking, Loaded, Held
    <2> QED
      BY <2>1, <2>3, <2>4
  <1>3. CASE UNCHANGED <<tag, covered>>
    BY <1>1, <1>3 DEF SettingsTypes, SettingsBounds, Current, SureGetTheirDue, InvalidatedIsNotServed, Asking, Loaded, Held
  <1> QED
    BY <1>2, <1>3 DEF RaiseTag

\* A finished read leaves nothing behind.
LEMMA DoneStep == ASSUME SettingsInv, NEW r \in Reader, Done(r) PROVE SettingsInv'
  <1> USE DEF SettingsInv
  <1>1. \A q \in Reader : reader'[q] = reader[q] \/ reader'[q] = Start
    BY DEF Done, ReaderAt, SettingsTypes
  <1>2. UNCHANGED <<db, tag, entry, covered>>
    BY DEF Done
  <1>3. SettingsTypes'
    BY <1>2 DEF SettingsTypes, ReaderStates, Done, ReaderAt
  <1> QED
    BY <1>1, <1>2, <1>3 DEF SettingsBounds, Current, SureGetTheirDue, InvalidatedIsNotServed, Asking, Loaded, Held, Start

\* The entry goes, or stays as it was.
LEMMA EntryGoes ==
  ASSUME SettingsInv, UNCHANGED <<db, tag, reader, covered>>, entry' = entry \/ entry' = Nothing
  PROVE  SettingsInv'
  BY DEF SettingsInv, SettingsTypes, SettingsBounds, Current, SureGetTheirDue, InvalidatedIsNotServed, Asking, Loaded, Held, Nothing

LEMMA ExpireStep == SettingsInv /\ Expire => SettingsInv'
  BY EntryGoes DEF Expire

LEMMA DeleteStep == ASSUME SettingsInv, NEW e \in Editor, DeleteEntry(e) PROVE SettingsInv'
  BY EntryGoes DEF DeleteEntry

\* A change alone makes nothing due.
LEMMA ChangeStep == ASSUME SettingsInv, NEW e \in Editor, Change(e) PROVE SettingsInv'
  <1>1. UNCHANGED <<tag, entry, reader, covered>> /\ db' = db + 1
    BY DEF Change
  <1> QED
    BY <1>1 DEF SettingsInv, SettingsTypes, SettingsBounds, Current, SureGetTheirDue, InvalidatedIsNotServed, Asking, Loaded, Held

LEMMA SettingsStep == SettingsInv /\ [CacheNext]_cacheVars => SettingsInv'
  <1> SUFFICES ASSUME SettingsInv, [CacheNext]_cacheVars PROVE SettingsInv'
    OBVIOUS
  <1>1. CASE UNCHANGED cacheVars
    BY <1>1 DEF cacheVars, SettingsInv, SettingsTypes, SettingsBounds, Current, SureGetTheirDue, InvalidatedIsNotServed, Asking, Loaded, Held
  <1>2. ASSUME NEW r \in Reader, TakeTag(r) \/ LookUp(r) \/ Load(r) \/ Store(r) PROVE SettingsInv'
    BY <1>2, TakeTagStep, LookUpStep, LoadStep, StoreStep
  <1>3. ASSUME NEW r \in Reader, Done(r) PROVE SettingsInv'
    BY <1>3, DoneStep
  <1>4. CASE Expire
    BY <1>4, ExpireStep
  <1>5. ASSUME NEW e \in Editor, RaiseTag(e) PROVE SettingsInv'
    BY <1>5, RaiseTagStep
  <1>6. ASSUME NEW e \in Editor, Change(e) \/ DeleteEntry(e) PROVE SettingsInv'
    BY <1>6, ChangeStep, DeleteStep
  <1> QED
    BY <1>1, <1>2, <1>3, <1>4, <1>5, <1>6 DEF CacheNext

\* A read that took its tag after a change was invalidated is served that
\* change or a later one (get_cached, set_cached and invalidate_cache_tag),
\* for any number of readers, editors, changes and Redis errors.
THEOREM ServesWhatIsDue == CacheSpec => []InvalidatedIsNotServed
  <1>1. SettingsInv => InvalidatedIsNotServed
    BY DEF SettingsInv
  <1> QED
    BY <1>1, SettingsInit, SettingsStep, PTL DEF CacheSpec

\* A value in the cache or with a reader is a version the database has had.
HasValue(r) == reader[r].pc \in {"loaded", "served"}

Versions ==
    /\ db \in 1..MaxVersion /\ covered >= 1
    /\ entry = Nothing \/ entry.value \in 1..db
    /\ \A r \in Reader : HasValue(r) => reader[r].value \in 1..db

LEMMA VersionsInit == CacheInit => Versions
  BY ConfigCacheConstants DEF CacheInit, Versions, HasValue, Start

LEMMA VersionsStep == SettingsInv /\ Versions /\ [CacheNext]_cacheVars => Versions'
  <1> SUFFICES ASSUME SettingsInv, Versions, [CacheNext]_cacheVars PROVE Versions'
    OBVIOUS
  <1>1. db \in Nat /\ MaxVersion \in Nat /\ reader \in [Reader -> ReaderStates]
    BY ConfigCacheConstants DEF SettingsInv, SettingsTypes
  <1>2. CASE UNCHANGED cacheVars
    BY <1>2 DEF cacheVars, Versions, HasValue
  <1>3. ASSUME NEW r \in Reader, TakeTag(r) \/ LookUp(r) \/ Load(r) \/ Store(r) \/ Done(r) PROVE Versions'
    <2>1. UNCHANGED <<db, covered>> /\ \A q \in Reader : q # r => reader'[q] = reader[q]
      BY <1>1, <1>3 DEF TakeTag, LookUp, Load, Store, Done, ReaderAt
    <2>2. HasValue(r)' => reader'[r].value \in 1..db
      <3>1. CASE TakeTag(r) \/ Done(r)
        BY <1>1, <3>1 DEF TakeTag, Done, ReaderAt, Start, HasValue
      <3>2. CASE LookUp(r)
        <4>1. CASE entry # Nothing /\ reader'[r].value = entry.value
          BY <4>1 DEF Versions
        <4>2. CASE reader'[r] = [reader[r] EXCEPT !.pc = "missed"]
          <5>1. reader[r] \in [pc : {"tagged", "missed"}, tag : Nat, sure : BOOLEAN, due : Nat]
            BY <1>1, <3>2 DEF LookUp, ReaderStates, Start
          <5> QED
            BY <4>2, <5>1 DEF HasValue
        <4> QED
          BY <1>1, <3>2, <4>1, <4>2 DEF LookUp, ReaderAt
      <3>3. CASE Load(r)
        BY <1>1, <3>3 DEF Load, ReaderAt, Versions
      <3>4. CASE Store(r)
        BY <1>1, <3>4 DEF Store, ReaderAt, Versions, HasValue
      <3> QED
        BY <1>3, <3>1, <3>2, <3>3, <3>4
    <2>3. entry' = Nothing \/ (entry.value)' \in 1..db
      BY <1>3 DEF TakeTag, LookUp, Load, Store, Done, Versions, HasValue
    <2> QED
      BY <2>1, <2>2, <2>3 DEF Versions, HasValue
  <1>4. CASE Expire
    BY <1>4 DEF Expire, Versions, HasValue
  <1>5. ASSUME NEW e \in Editor, Change(e) PROVE Versions'
    BY <1>1, <1>5 DEF Change, Versions, HasValue
  <1>6. ASSUME NEW e \in Editor, RaiseTag(e) \/ DeleteEntry(e) PROVE Versions'
    BY <1>1, <1>6 DEF RaiseTag, DeleteEntry, Versions, HasValue
  <1> QED
    BY <1>2, <1>3, <1>4, <1>5, <1>6 DEF CacheNext

\* Nothing in the cache or with a reader is from the future, neither a version of
\* the settings nor a tag (set_cached, invalidate_cache_tag).
THEOREM CacheTypes == CacheSpec => []CacheTypeOK
  <1>1. SettingsInv /\ Versions => CacheTypeOK
    <2> SUFFICES ASSUME SettingsInv, Versions PROVE CacheTypeOK
      OBVIOUS
    <2>1. ASSUME NEW r \in Reader
          PROVE  /\ "value" \in DOMAIN reader[r] => HasValue(r)
                 /\ "tag" \in DOMAIN reader[r] => Asking(r)
      <3>1. reader[r] \in ReaderStates
        BY DEF SettingsInv, SettingsTypes
      <3> QED
        BY <3>1 DEF ReaderStates, Start, HasValue, Asking
    <2> QED
      BY <2>1 DEF SettingsInv, SettingsTypes, SettingsBounds, Versions, CacheTypeOK
  <1> QED
    BY <1>1, SettingsInit, SettingsStep, VersionsInit, VersionsStep, PTL DEF CacheSpec

-----------------------------------------------------------------------------
\* The work item.

ValueRows == [Parameter -> [id : Nat, src : Source \cup {"none"},
                       st : {"none", "pending", "confirmed", "corrected", "defaulted"},
                       conf : Int, word : Nat]]

\* A row that is there was made by a save, and has a word if and only if it is manual.
RowsSound(rows) ==
    /\ rows \in ValueRows
    /\ \A p \in Parameter : rows[p] # NoRow => rows[p].id # 0 /\ rows[p].src \in Source
    /\ \A p \in Parameter : rows[p].word # 0 <=> rows[p].src = "manual"

\* Values that rows can be built of.
ValuesSound(vals) ==
    /\ DOMAIN vals \subseteq Parameter
    /\ \A p \in DOMAIN vals :
        /\ vals[p].src \in Source /\ vals[p].conf \in Int /\ vals[p].word \in Nat
        /\ vals[p].word # 0 <=> vals[p].src = "manual"

ItemShape ==
    /\ saves \in Nat
    /\ RowsSound(valueRow)
    /\ entered \in [Parameter -> Nat]
    /\ DOMAIN desk = Clerk
    /\ \A c \in Clerk : desk[c].pc = "loaded" => RowsSound(desk[c].rows)

ItemInv == ItemShape /\ OperatorsWordStands

-----------------------------------------------------------------------------
\* What the pure part makes of sound rows.

\* A value that may stand in a request.
LEMMA InputShape ==
    ASSUME NEW in \in Inputs
    PROVE  /\ DOMAIN in \subseteq Parameter
           /\ \A p \in DOMAIN in : in[p].src \in Source /\ in[p].conf \in {0, 1}
BY DEF Inputs, ValueInput, Source

\* A request's own values are sound once they carry the number of their save.
LEMMA WordedSound ==
    ASSUME NEW in \in Inputs, NEW n \in Nat \ {0}
    PROVE  ValuesSound([p \in DOMAIN in |-> Worded(in[p], n)])
BY InputShape DEF ValuesSound, Worded

\* Merging keeps the word of every manual row the request has no manual value for.
LEMMA MergeKeepsWord ==
    ASSUME NEW rows, RowsSound(rows), NEW in \in Inputs, NEW n \in Nat \ {0}
    PROVE  LET vals == MergeValues(rows, in, n) IN
           /\ ValuesSound(vals)
           /\ \A p \in ByPerson(in) : p \in DOMAIN vals /\ vals[p].word = n
           /\ \A p \in Parameter \ ByPerson(in) :
                rows[p].word # 0 => p \in DOMAIN vals /\ vals[p].word = rows[p].word
<1> DEFINE vals == MergeValues(rows, in, n)
<1>1. /\ DOMAIN in \subseteq Parameter
      /\ \A p \in DOMAIN in : in[p].src \in Source /\ in[p].conf \in {0, 1}
  BY InputShape
<1>2. DOMAIN vals = Present(rows) \cup DOMAIN in
  BY DEF MergeValues
<1>3. ASSUME NEW p \in DOMAIN vals
      PROVE  \/ p \in DOMAIN in /\ (rows[p] = NoRow \/ Wins(in[p], rows[p])) /\ vals[p] = Worded(in[p], n)
             \/ ~(p \in DOMAIN in /\ (rows[p] = NoRow \/ Wins(in[p], rows[p]))) /\ vals[p] = AsInput(rows[p])
  BY <1>2 DEF MergeValues
<1>4. ASSUME NEW p \in Parameter
      PROVE  /\ rows[p].conf \in Int /\ rows[p].word \in Nat
             /\ rows[p].word # 0 <=> rows[p].src = "manual"
             /\ rows[p] # NoRow => rows[p].src \in Source
             /\ rows[p].word # 0 => rows[p] # NoRow
  BY DEF RowsSound, ValueRows, NoRow
<1>5. ValuesSound(vals)
  <2>1. DOMAIN vals \subseteq Parameter
    BY <1>1, <1>2 DEF Present
  <2>2. ASSUME NEW p \in DOMAIN vals
        PROVE  /\ vals[p].src \in Source /\ vals[p].conf \in Int /\ vals[p].word \in Nat
               /\ vals[p].word # 0 <=> vals[p].src = "manual"
    <3>1. p \in Parameter
      BY <2>1
    <3>2. CASE p \in DOMAIN in /\ vals[p] = Worded(in[p], n)
      BY <3>2, <1>1 DEF Worded
    <3>3. CASE rows[p] # NoRow /\ vals[p] = AsInput(rows[p])
      BY <3>1, <3>3, <1>4 DEF AsInput
    <3> QED BY <3>2, <3>3, <1>2, <1>3 DEF Present
  <2> QED BY <2>1, <2>2 DEF ValuesSound
<1>6. ASSUME NEW p \in ByPerson(in) PROVE p \in DOMAIN vals /\ vals[p].word = n
  <2>1. p \in DOMAIN in /\ in[p].src = "manual" /\ p \in DOMAIN vals
    BY <1>2 DEF ByPerson
  <2>2. Wins(in[p], rows[p])
    BY <2>1 DEF Wins
  <2>3. vals[p] = Worded(in[p], n)
    BY <1>3, <2>1, <2>2
  <2> QED BY <2>1, <2>3 DEF Worded
<1>7. ASSUME NEW p \in Parameter \ ByPerson(in), rows[p].word # 0
      PROVE  p \in DOMAIN vals /\ vals[p].word = rows[p].word
  <2>1. rows[p] # NoRow /\ rows[p].src = "manual"
    BY <1>4, <1>7
  <2>2. p \in DOMAIN vals
    BY <1>2, <2>1 DEF Present
  <2>3. ~(p \in DOMAIN in /\ Wins(in[p], rows[p]))
    BY <2>1 DEF Wins, ByPerson
  <2> QED BY <1>3, <2>1, <2>2, <2>3 DEF AsInput
<1> QED BY <1>5, <1>6, <1>7

\* A row from its columns.
LEMMA RowFromColumns ==
    ASSUME NEW made, NEW n \in Nat, NEW src \in Source, NEW conf \in Int, NEW word \in Nat,
           NEW st \in {"none", "pending", "confirmed", "corrected", "defaulted"},
           made = [id |-> n, src |-> src, st |-> st, conf |-> conf, word |-> word]
    PROVE  /\ made \in [id : Nat, src : Source \cup {"none"},
                   st : {"none", "pending", "confirmed", "corrected", "defaulted"}, conf : Int, word : Nat]
           /\ made.id = n /\ made.src = src /\ made.st = st /\ made.conf = conf /\ made.word = word
OBVIOUS

\* Sound values give sound rows, each with the word of its value.
LEMMA BuiltRows ==
    ASSUME NEW vals, ValuesSound(vals), NEW n \in Nat \ {0}
    PROVE  LET rows == BuildRows(vals, n) IN
           /\ RowsSound(rows)
           /\ \A p \in DOMAIN vals : rows[p].word = vals[p].word /\ rows[p] # NoRow /\ rows[p].id = n
<1> DEFINE rows == BuildRows(vals, n)
<1>1. /\ rows = [p \in Parameter |-> rows[p]]
      /\ \A p \in DOMAIN vals : p \in Parameter
  BY DEF BuildRows, ValuesSound
<1>2. ASSUME NEW p \in Parameter, p \in DOMAIN vals
      PROVE  rows[p] = [id |-> n, src |-> vals[p].src, st |-> InitialStatus(vals[p].src),
                        conf |-> vals[p].conf, word |-> vals[p].word]
  BY <1>2 DEF BuildRows
<1>3. ASSUME NEW p \in Parameter, p \notin DOMAIN vals
      PROVE  \/ rows[p] = [id |-> n, src |-> "default", st |-> "defaulted", conf |-> 0, word |-> 0]
             \/ rows[p] = NoRow
  BY <1>3 DEF BuildRows
<1> HIDE DEF rows
<1>4. ASSUME NEW p \in Parameter
      PROVE  /\ rows[p] \in [id : Nat, src : Source \cup {"none"},
                 st : {"none", "pending", "confirmed", "corrected", "defaulted"}, conf : Int, word : Nat]
             /\ rows[p] # NoRow => rows[p].id # 0 /\ rows[p].src \in Source
             /\ rows[p].word # 0 <=> rows[p].src = "manual"
  <2>1. CASE p \in DOMAIN vals
    <3>1. /\ vals[p].src \in Source /\ vals[p].conf \in Int /\ vals[p].word \in Nat
          /\ vals[p].word # 0 <=> vals[p].src = "manual"
      BY <2>1 DEF ValuesSound
    <3>2. InitialStatus(vals[p].src) \in {"pending", "confirmed", "defaulted"}
      BY DEF InitialStatus
    <3>3. /\ rows[p] \in [id : Nat, src : Source \cup {"none"},
               st : {"none", "pending", "confirmed", "corrected", "defaulted"}, conf : Int, word : Nat]
          /\ rows[p].id = n /\ rows[p].src = vals[p].src /\ rows[p].word = vals[p].word
      <4> DEFINE s == vals[p].src
                 t == InitialStatus(s)
                 f == vals[p].conf
                 w == vals[p].word
      <4>1. rows[p] = [id |-> n, src |-> s, st |-> t, conf |-> f, word |-> w]
        BY <1>2, <2>1
      <4>2. /\ n \in Nat /\ s \in Source /\ f \in Int /\ w \in Nat
            /\ t \in {"none", "pending", "confirmed", "corrected", "defaulted"}
        BY <3>1, <3>2
      <4> HIDE DEF s, t, f, w
      <4>3. /\ rows[p] \in [id : Nat, src : Source \cup {"none"},
                 st : {"none", "pending", "confirmed", "corrected", "defaulted"}, conf : Int, word : Nat]
            /\ rows[p].id = n /\ rows[p].src = s /\ rows[p].word = w
        BY <4>1, <4>2, RowFromColumns
      <4> QED BY <4>3 DEF s, w
    <3> QED BY <3>1, <3>3
  <2>2. CASE p \notin DOMAIN vals
    BY <1>3, <2>2 DEF Source, NoRow
  <2> QED BY <2>1, <2>2
<1>5. RowsSound(rows)
  BY <1>1, <1>4 DEF RowsSound, ValueRows
<1>6. ASSUME NEW p \in DOMAIN vals PROVE rows[p].word = vals[p].word /\ rows[p] # NoRow /\ rows[p].id = n
  <2>1. /\ rows[p].word = vals[p].word
        /\ rows[p].id = n
    BY <1>1, <1>2
  <2> QED BY <2>1 DEF NoRow
<1> QED BY <1>5, <1>6 DEF rows

-----------------------------------------------------------------------------
\* The requests.

LEMMA ItemInitInv == WorkItemInit => ItemInv
BY DEF WorkItemInit, ItemInv, ItemShape, OperatorsWordStands, RowsSound, ValueRows, NoRow, NotLoaded

LEMMA CreateStep ==
    ASSUME ItemInv, NEW in \in Inputs, CreateItem(in) PROVE ItemInv'
<1> DEFINE n == saves + 1
           vals == [p \in DOMAIN in |-> Worded(in[p], n)]
<1>1. n \in Nat \ {0}
  BY DEF ItemInv, ItemShape
<1>2. ValuesSound(vals)
  BY <1>1, WordedSound
<1>3. valueRow' = BuildRows(vals, n)
  BY DEF CreateItem
<1>4. RowsSound(valueRow')
  BY <1>1, <1>2, <1>3, BuiltRows
<1>5. ItemShape'
  BY <1>4 DEF ItemInv, ItemShape, CreateItem, RowsSound, ValueRows
<1> QED BY <1>5 DEF ItemInv, CreateItem, OperatorsWordStands

\* What a save leaves behind, given the rows it leaves.
LEMMA SaveShape ==
    ASSUME ItemInv, NEW c \in Clerk, NEW st, Saving(c), SaveStatus(c, st),
           RowsSound(valueRow'), entered' \in [Parameter -> Nat]
    PROVE  ItemShape'
<1>1. saves' \in Nat
  BY DEF SaveStatus, ItemInv, ItemShape
<1>2. /\ DOMAIN desk' = Clerk
      /\ \A d \in Clerk : desk'[d].pc = "loaded" => d # c /\ desk'[d] = desk[d]
  BY DEF SaveStatus, ItemInv, ItemShape, NotLoaded
<1>3. \A d \in Clerk : desk'[d].pc = "loaded" => RowsSound(desk'[d].rows)
  BY <1>2 DEF ItemInv, ItemShape
<1> QED BY <1>1, <1>2, <1>3 DEF ItemShape

\* A row stays only if the request had not loaded it; so swapping sound rows in
\* leaves sound rows, and where nothing has changed since the load the new ones.
LEMMA SwapSound ==
    ASSUME ItemInv, NEW c \in Clerk, NEW rows, RowsSound(rows), SwapRows(c, rows)
    PROVE  /\ RowsSound(valueRow')
           /\ \A p \in Parameter : rows[p] # NoRow => valueRow'[p] = rows[p]
           /\ \A p \in Parameter \ Foreign(c) : valueRow'[p] = rows[p]
<1> DEFINE stay == {p \in Present(valueRow) : valueRow[p].id # desk[c].rows[p].id}
<1>1. /\ stay \cap Present(rows) = {}
      /\ valueRow' = [p \in Parameter |-> IF p \in stay THEN valueRow[p] ELSE rows[p]]
  BY DEF SwapRows
<1>2. RowsSound(valueRow)
  BY DEF ItemInv, ItemShape
<1>3. ASSUME NEW p \in Parameter \ Foreign(c) PROVE p \notin stay
  BY <1>3 DEF Foreign
<1>4. ASSUME NEW p \in Parameter, rows[p] # NoRow PROVE p \notin stay
  BY <1>1, <1>4 DEF Present
<1>5. \A p \in Parameter : valueRow'[p] = valueRow[p] \/ valueRow'[p] = rows[p]
  BY <1>1
<1> HIDE DEF stay
<1>6. valueRow' \in ValueRows
  BY <1>1, <1>2 DEF RowsSound, ValueRows
<1>7. RowsSound(valueRow')
  BY <1>2, <1>5, <1>6 DEF RowsSound
<1> QED BY <1>1, <1>3, <1>4, <1>7

LEMMA UpdateStep ==
    ASSUME ItemInv, NEW c \in Clerk, NEW in \in Inputs, UpdateValues(c, in)
    PROVE  ItemInv'
<1> DEFINE n == saves + 1
           mine == desk[c].rows
           vals == MergeValues(mine, in, n)
           rows == BuildRows(vals, n)
<1>1. n \in Nat \ {0} /\ RowsSound(mine)
  BY DEF ItemInv, ItemShape, UpdateValues, Saving
<1>2. /\ ValuesSound(vals)
      /\ \A p \in ByPerson(in) : p \in DOMAIN vals /\ vals[p].word = n
      /\ \A p \in Parameter \ ByPerson(in) :
            mine[p].word # 0 => p \in DOMAIN vals /\ vals[p].word = mine[p].word
  BY <1>1, MergeKeepsWord
<1>3. /\ RowsSound(rows)
      /\ \A p \in DOMAIN vals : rows[p].word = vals[p].word /\ rows[p] # NoRow /\ rows[p].id = n
  BY <1>1, <1>2, BuiltRows
<1>4. /\ SwapRows(c, rows) /\ Saving(c) /\ SaveStatus(c, DeriveStatus(rows))
      /\ Enter(ByPerson(in), Foreign(c))
  BY DEF UpdateValues
<1> HIDE DEF rows, vals
<1>5. /\ RowsSound(valueRow')
      /\ \A p \in Parameter : rows[p] # NoRow => valueRow'[p] = rows[p]
      /\ \A p \in Parameter \ Foreign(c) : valueRow'[p] = rows[p]
  BY <1>3, <1>4, SwapSound
<1>6. /\ entered' = [p \in Parameter |-> IF p \in ByPerson(in) THEN n ELSE entered[p]]
      /\ losses' = (losses \cup Foreign(c)) \ ByPerson(in)
      /\ entered' \in [Parameter -> Nat]
  BY <1>1, <1>4 DEF Enter, ItemInv, ItemShape
<1>7. ItemShape'
  BY <1>4, <1>5, <1>6, SaveShape
<1>8. ASSUME NEW p \in Parameter, entered'[p] # 0, p \notin losses'
      PROVE  valueRow'[p].word = entered'[p]
  <2>1. CASE p \in ByPerson(in)
    BY <1>2, <1>3, <1>5, <1>6, <2>1
  <2>2. CASE p \notin ByPerson(in)
    <3>1. p \notin Foreign(c) /\ p \notin losses /\ entered'[p] = entered[p]
      BY <1>6, <1>8, <2>2
    <3>2. mine[p] = valueRow[p] /\ valueRow[p].word = entered[p]
      BY <3>1, <1>8 DEF Foreign, ItemInv, OperatorsWordStands
    <3>3. p \in DOMAIN vals /\ vals[p].word = entered[p]
      BY <1>2, <1>8, <2>2, <3>1, <3>2
    <3> QED BY <1>3, <1>5, <3>1, <3>3
  <2> QED BY <2>1, <2>2
<1> QED BY <1>7, <1>8 DEF ItemInv, OperatorsWordStands

LEMMA ReplaceValuesStep ==
    ASSUME ItemInv, NEW c \in Clerk, NEW in \in Inputs, ReplaceValues(c, in)
    PROVE  ItemInv'
<1> DEFINE n == saves + 1
           vals == [p \in DOMAIN in |-> Worded(in[p], n)]
           rows == BuildRows(vals, n)
<1>1. n \in Nat \ {0}
  BY DEF ItemInv, ItemShape
<1>2. ValuesSound(vals)
  BY <1>1, WordedSound
<1>3. RowsSound(rows)
  BY <1>1, <1>2, BuiltRows
<1>4. /\ SwapRows(c, rows) /\ Saving(c) /\ SaveStatus(c, DeriveStatus(rows))
      /\ entered' = [p \in Parameter |-> rows[p].word]
  BY DEF ReplaceValues
<1> HIDE DEF rows, vals
<1>5. /\ RowsSound(valueRow')
      /\ \A p \in Parameter : rows[p] # NoRow => valueRow'[p] = rows[p]
  BY <1>3, <1>4, SwapSound
<1>6. entered' \in [Parameter -> Nat]
  BY <1>3, <1>4 DEF RowsSound, ValueRows
<1>7. ItemShape'
  BY <1>4, <1>5, <1>6, SaveShape
<1>8. ASSUME NEW p \in Parameter, entered'[p] # 0
      PROVE  valueRow'[p].word = entered'[p]
  <2>1. rows[p].word # 0
    BY <1>4, <1>8
  <2>2. rows[p] # NoRow
    BY <2>1 DEF NoRow
  <2> QED BY <1>4, <1>5, <2>2
<1> QED BY <1>7, <1>8 DEF ItemInv, OperatorsWordStands

LEMMA ConfirmStep ==
    ASSUME ItemInv, NEW c \in Clerk, NEW p \in Parameter, NEW correct \in BOOLEAN,
           ConfirmValue(c, p, correct)
    PROVE  ItemInv'
<1> DEFINE mine == desk[c].rows
           want == IF correct THEN "corrected" ELSE "confirmed"
           st == IF mine[p].st = want THEN valueRow[p].st ELSE want
           made == IF correct THEN [id |-> valueRow[p].id, src |-> "manual", st |-> st, conf |-> 0, word |-> saves + 1]
                  ELSE [valueRow[p] EXCEPT !.st = st]
<1>1. /\ Saving(c) /\ SaveStatus(c, DeriveStatus([mine EXCEPT ![p].st = want]))
      /\ p \in Present(mine) /\ valueRow[p].id = mine[p].id
      /\ valueRow' = [valueRow EXCEPT ![p] = made]
      /\ Enter(IF correct THEN {p} ELSE {}, {})
  BY DEF ConfirmValue
<1>2. saves \in Nat /\ RowsSound(mine) /\ RowsSound(valueRow)
  BY <1>1 DEF ItemInv, ItemShape, Saving
<1>3. valueRow[p] # NoRow
  BY <1>1, <1>2 DEF Present, RowsSound, NoRow
<1>4. /\ made.id = valueRow[p].id /\ made.conf \in Int /\ made.st = st
      /\ correct => made.src = "manual" /\ made.word = saves + 1
      /\ ~correct => made.src = valueRow[p].src /\ made.word = valueRow[p].word
  BY <1>2 DEF RowsSound, ValueRows
<1>5. st \in {"none", "pending", "confirmed", "corrected", "defaulted"}
  BY <1>2 DEF RowsSound, ValueRows
<1>6. made \in [id : Nat, src : Source \cup {"none"},
             st : {"none", "pending", "confirmed", "corrected", "defaulted"}, conf : Int, word : Nat]
  <2>1. valueRow[p] \in [id : Nat, src : Source \cup {"none"},
             st : {"none", "pending", "confirmed", "corrected", "defaulted"}, conf : Int, word : Nat]
    BY <1>2 DEF RowsSound, ValueRows
  <2> HIDE DEF st
  <2>2. CASE correct
    BY <1>2, <1>5, <2>1, <2>2 DEF Source
  <2>3. CASE ~correct
    BY <1>5, <2>1, <2>3
  <2> QED BY <2>2, <2>3
<1> HIDE DEF made, st
<1>7. /\ made.id # 0 /\ made.src \in Source /\ (made.word # 0 <=> made.src = "manual")
  BY <1>2, <1>3, <1>4 DEF RowsSound, Source
<1>8. RowsSound(valueRow')
  <2>1. valueRow' \in ValueRows
    BY <1>1, <1>2, <1>6 DEF RowsSound, ValueRows
  <2>2. \A q \in Parameter : valueRow'[q] = IF q = p THEN made ELSE valueRow[q]
    BY <1>1, <1>2 DEF RowsSound, ValueRows
  <2> QED BY <1>2, <1>7, <2>1, <2>2 DEF RowsSound
<1>9. /\ entered' = [q \in Parameter |-> IF correct /\ q = p THEN saves + 1 ELSE entered[q]]
      /\ losses' = IF correct THEN losses \ {p} ELSE losses
  BY <1>1 DEF Enter
<1>10. entered' \in [Parameter -> Nat]
  BY <1>2, <1>9 DEF ItemInv, ItemShape
<1>11. ItemShape'
  BY <1>1, <1>8, <1>10, SaveShape
<1>12. ASSUME NEW q \in Parameter, entered'[q] # 0, q \notin losses'
       PROVE  valueRow'[q].word = entered'[q]
  <2>1. CASE q = p /\ correct
    BY <1>1, <1>2, <1>4, <1>9, <2>1 DEF RowsSound, ValueRows
  <2>2. CASE ~(q = p /\ correct)
    <3>1. entered'[q] = entered[q] /\ q \notin losses
      BY <1>9, <1>12, <2>2
    <3>2. valueRow'[q].word = valueRow[q].word
      BY <1>1, <1>2, <1>4, <2>2 DEF RowsSound, ValueRows
    <3> QED BY <1>12, <3>1, <3>2 DEF ItemInv, OperatorsWordStands
  <2> QED BY <2>1, <2>2
<1> QED BY <1>11, <1>12 DEF ItemInv, OperatorsWordStands

LEMMA ItemStep == ItemInv /\ [WorkItemNext]_itemVars => ItemInv'
<1> SUFFICES ASSUME ItemInv, [WorkItemNext]_itemVars PROVE ItemInv'
  OBVIOUS
<1>1. ASSUME NEW in \in Inputs, CreateItem(in) PROVE ItemInv'
  BY <1>1, CreateStep
<1>2. ASSUME NEW c \in Clerk, LoadItem(c) PROVE ItemInv'
  <2>1. ItemShape'
    BY <1>2 DEF ItemInv, ItemShape, LoadItem
  <2> QED BY <1>2, <2>1 DEF ItemInv, OperatorsWordStands, LoadItem
<1>3. ASSUME NEW c \in Clerk, GiveUp(c) PROVE ItemInv'
  <2>1. ItemShape'
    BY <1>3 DEF ItemInv, ItemShape, GiveUp, NotLoaded
  <2> QED BY <1>3, <2>1 DEF ItemInv, OperatorsWordStands, GiveUp
<1>4. ASSUME NEW c \in Clerk, NEW in \in Inputs, UpdateValues(c, in) PROVE ItemInv'
  BY <1>4, UpdateStep
<1>5. ASSUME NEW c \in Clerk, NEW in \in Inputs, ReplaceValues(c, in) PROVE ItemInv'
  BY <1>5, ReplaceValuesStep
<1>6. ASSUME NEW c \in Clerk, NEW p \in Parameter, NEW correct \in BOOLEAN, ConfirmValue(c, p, correct)
      PROVE  ItemInv'
  BY <1>6, ConfirmStep
<1>7. ASSUME NEW p \in Parameter, DisableParameter(p) PROVE ItemInv'
  BY <1>7 DEF ItemInv, ItemShape, OperatorsWordStands, DisableParameter
<1>8. CASE CloseCase
  BY <1>8 DEF ItemInv, ItemShape, OperatorsWordStands, CloseCase
<1>9. CASE UNCHANGED itemVars
  BY <1>9 DEF ItemInv, ItemShape, OperatorsWordStands, itemVars
<1> QED BY <1>1, <1>2, <1>3, <1>4, <1>5, <1>6, <1>7, <1>8, <1>9 DEF WorkItemNext

\* Merging what vision, imports and defaults bring never takes an operator's
\* value away, for any parameters and requests, unless a save comes over rows it
\* had not loaded (WorkCatalogService.update_project_work_item_values).
THEOREM OperatorsWordTheorem == WorkItemSpec => []OperatorsWordStands
<1>1. WorkItemInit => ItemInv
  BY ItemInitInv
<1>2. ItemInv /\ [WorkItemNext]_itemVars => ItemInv'
  BY ItemStep
<1>3. ItemInv => OperatorsWordStands
  BY DEF ItemInv
<1> QED BY <1>1, <1>2, <1>3, PTL DEF WorkItemSpec

-----------------------------------------------------------------------------
\* The status of the item.

\* The derived status depends on nothing but which rows there are and their status.
LEMMA DerivedAlike ==
    ASSUME NEW rows, NEW others,
           \A p \in Parameter : (rows[p] # NoRow <=> others[p] # NoRow) /\ rows[p].st = others[p].st
    PROVE  DeriveStatus(rows) = DeriveStatus(others)
<1>1. Present(rows) = Present(others)
  BY DEF Present
<1>2. {rows[p].st : p \in Present(rows)} = {others[p].st : p \in Present(others)}
  BY <1>1 DEF Present
<1> QED BY <1>2 DEF DeriveStatus

\* A save that came over nothing it had not loaded leaves the status it derived.
LEMMA FreshSave ==
    ASSUME ItemInv, NEW c \in Clerk, NEW st, SaveStatus(c, st), ~overlaid', Saving(c)
    PROVE  Foreign(c) = {} /\ valueRow = desk[c].rows /\ itemStatus' = st
<1>1. Foreign(c) = {} /\ itemStatus = desk[c].st
  BY DEF SaveStatus
<1>2. \A p \in Parameter : valueRow[p] = desk[c].rows[p]
  BY <1>1 DEF Foreign
<1>3. valueRow \in ValueRows /\ desk[c].rows \in ValueRows
  BY DEF ItemInv, ItemShape, RowsSound, Saving
<1>4. valueRow = desk[c].rows
  BY <1>2, <1>3 DEF ValueRows
<1>5. itemStatus' = st
  BY <1>1 DEF SaveStatus
<1> QED BY <1>1, <1>4, <1>5

\* A save that swaps the rows and derives the status from the new ones.
LEMMA FreshSwap ==
    ASSUME ItemInv, NEW c \in Clerk, NEW rows, RowsSound(rows), Saving(c),
           SwapRows(c, rows), SaveStatus(c, DeriveStatus(rows))
    PROVE  StatusFollowsValues'
<1> SUFFICES ASSUME ~overlaid' PROVE itemStatus' = DeriveStatus(valueRow')
  BY DEF StatusFollowsValues
<1>1. Foreign(c) = {} /\ itemStatus' = DeriveStatus(rows)
  BY FreshSave
<1>2. \A p \in Parameter : valueRow'[p] = rows[p]
  BY <1>1, SwapSound
<1>3. DeriveStatus(valueRow') = DeriveStatus(rows)
  BY <1>2, DerivedAlike
<1> QED BY <1>1, <1>3

LEMMA FreshConfirm ==
    ASSUME ItemInv, NEW c \in Clerk, NEW p \in Parameter, NEW correct \in BOOLEAN,
           ConfirmValue(c, p, correct)
    PROVE  StatusFollowsValues'
<1> SUFFICES ASSUME ~overlaid' PROVE itemStatus' = DeriveStatus(valueRow')
  BY DEF StatusFollowsValues
<1> DEFINE mine == desk[c].rows
           want == IF correct THEN "corrected" ELSE "confirmed"
           mended == [mine EXCEPT ![p].st = want]
<1>1. /\ Saving(c) /\ SaveStatus(c, DeriveStatus(mended)) /\ p \in Present(mine)
  BY DEF ConfirmValue
<1>2. valueRow = mine /\ itemStatus' = DeriveStatus(mended)
  BY <1>1, FreshSave
<1>3. RowsSound(mine)
  BY <1>1 DEF ItemInv, ItemShape, Saving
<1> HIDE DEF want
<1>4. ASSUME NEW q \in Parameter
      PROVE  (valueRow'[q] # NoRow <=> mended[q] # NoRow) /\ valueRow'[q].st = mended[q].st
  <2>1. mine \in ValueRows /\ mine[p] # NoRow /\ mine[p].id # 0
    BY <1>1, <1>3 DEF Present, RowsSound
  <2>2. CASE q # p
    BY <1>2, <2>1, <2>2 DEF ConfirmValue, ValueRows
  <2>3. CASE q = p
    <3>1. mended[p] = [mine[p] EXCEPT !.st = want]
      BY <2>1 DEF ValueRows
    <3>2. mended[p].st = want /\ mended[p].id = mine[p].id
      BY <2>1, <3>1 DEF ValueRows
    <3>3. valueRow'[p].st = want /\ valueRow'[p].id = mine[p].id
      BY <1>2, <2>1 DEF ConfirmValue, ValueRows, want
    <3> QED BY <2>1, <2>3, <3>2, <3>3 DEF NoRow
  <2> QED BY <2>2, <2>3
<1>5. DeriveStatus(valueRow') = DeriveStatus(mended)
  BY <1>4, DerivedAlike
<1> QED BY <1>2, <1>5

LEMMA StatusStep == ItemInv /\ StatusFollowsValues /\ [WorkItemNext]_itemVars => StatusFollowsValues'
<1> SUFFICES ASSUME ItemInv, StatusFollowsValues, [WorkItemNext]_itemVars PROVE StatusFollowsValues'
  OBVIOUS
<1>1. ASSUME NEW in \in Inputs, CreateItem(in) PROVE StatusFollowsValues'
  BY <1>1 DEF CreateItem, StatusFollowsValues
<1>2. ASSUME NEW c \in Clerk, LoadItem(c) \/ GiveUp(c) PROVE StatusFollowsValues'
  BY <1>2 DEF LoadItem, GiveUp, StatusFollowsValues
<1>3. ASSUME NEW c \in Clerk, NEW in \in Inputs, UpdateValues(c, in) PROVE StatusFollowsValues'
  <2> DEFINE vals == MergeValues(desk[c].rows, in, saves + 1)
             rows == BuildRows(vals, saves + 1)
  <2>1. saves + 1 \in Nat \ {0} /\ RowsSound(desk[c].rows)
    BY <1>3 DEF ItemInv, ItemShape, UpdateValues, Saving
  <2>2. RowsSound(rows)
    BY <2>1, MergeKeepsWord, BuiltRows
  <2>3. Saving(c) /\ SwapRows(c, rows) /\ SaveStatus(c, DeriveStatus(rows))
    BY <1>3 DEF UpdateValues
  <2> HIDE DEF rows
  <2> QED BY <2>2, <2>3, FreshSwap
<1>4. ASSUME NEW c \in Clerk, NEW in \in Inputs, ReplaceValues(c, in) PROVE StatusFollowsValues'
  <2> DEFINE vals == [p \in DOMAIN in |-> Worded(in[p], saves + 1)]
             rows == BuildRows(vals, saves + 1)
  <2>1. saves + 1 \in Nat \ {0}
    BY DEF ItemInv, ItemShape
  <2>2. RowsSound(rows)
    BY <2>1, WordedSound, BuiltRows
  <2>3. Saving(c) /\ SwapRows(c, rows) /\ SaveStatus(c, DeriveStatus(rows))
    BY <1>4 DEF ReplaceValues
  <2> HIDE DEF rows
  <2> QED BY <2>2, <2>3, FreshSwap
<1>5. ASSUME NEW c \in Clerk, NEW p \in Parameter, NEW correct \in BOOLEAN, ConfirmValue(c, p, correct)
      PROVE  StatusFollowsValues'
  BY <1>5, FreshConfirm
<1>6. ASSUME NEW p \in Parameter, DisableParameter(p) PROVE StatusFollowsValues'
  BY <1>6 DEF DisableParameter, StatusFollowsValues
<1>7. CASE CloseCase \/ UNCHANGED itemVars
  BY <1>7 DEF CloseCase, itemVars, StatusFollowsValues
<1> QED BY <1>1, <1>2, <1>3, <1>4, <1>5, <1>6, <1>7 DEF WorkItemNext

\* After a save that came over nothing it had not loaded, the item's status is
\* the one its values have, whatever was saved before
\* (_derive_work_item_confirmation_status in update, replace and confirm).
THEOREM StatusTheorem == WorkItemSpec => []StatusFollowsValues
<1>1. WorkItemInit => ItemInv /\ StatusFollowsValues
  BY ItemInitInv DEF WorkItemInit, StatusFollowsValues
<1>2. ItemInv /\ StatusFollowsValues /\ [WorkItemNext]_itemVars => (ItemInv /\ StatusFollowsValues)'
  BY ItemStep, StatusStep
<1> QED BY <1>1, <1>2, PTL DEF WorkItemSpec

-----------------------------------------------------------------------------
\* The types of the item.

\* What a row may be after n saves.
RowTyped(r, n) ==
    r # NoRow =>
        /\ r.id \in 1..n /\ r.conf \in {0, 1} /\ r.word \in 0..n
        /\ r.st \in {"pending", "confirmed", "corrected", "defaulted"}
        /\ r.st = "corrected" => r.src = "manual"

RowsTyped(rows, n) == \A p \in Parameter : RowTyped(rows[p], n)

ItemTypes ==
    /\ itemStatus \in {"none", "pending", "mixed", "confirmed"}
    /\ RowsTyped(valueRow, saves)
    /\ \A c \in Clerk : desk[c].pc = "loaded" => RowsTyped(desk[c].rows, saves)

LEMMA ItemTypesInitially == WorkItemInit => ItemTypes
BY DEF WorkItemInit, ItemTypes, RowsTyped, RowTyped, NotLoaded

LEMMA DerivedIsStatus == ASSUME NEW rows PROVE DeriveStatus(rows) \in {"pending", "mixed", "confirmed"}
BY DEF DeriveStatus

\* One save more is no harm.
LEMMA TypedLater ==
    ASSUME NEW rows, NEW n \in Nat, RowsTyped(rows, n) PROVE RowsTyped(rows, n + 1)
<1> SUFFICES ASSUME NEW p \in Parameter, rows[p] # NoRow PROVE RowTyped(rows[p], n + 1)
  BY DEF RowsTyped, RowTyped
<1>1. rows[p].id \in 1..n /\ rows[p].word \in 0..n
  BY DEF RowsTyped, RowTyped
<1>2. rows[p].id \in 1..(n + 1) /\ rows[p].word \in 0..(n + 1)
  BY <1>1
<1> QED BY <1>2 DEF RowsTyped, RowTyped

\* Values that typed rows can be built of.
ValuesTyped(vals, n) ==
    \A p \in DOMAIN vals : vals[p].conf \in {0, 1} /\ vals[p].word \in 0..n

LEMMA WordedTyped ==
    ASSUME NEW in \in Inputs, NEW n \in Nat
    PROVE  ValuesTyped([p \in DOMAIN in |-> Worded(in[p], n)], n)
BY InputShape DEF ValuesTyped, Worded

LEMMA MergedTyped ==
    ASSUME NEW n \in Nat, NEW rows, RowsTyped(rows, n), NEW in \in Inputs
    PROVE  ValuesTyped(MergeValues(rows, in, n), n)
<1> DEFINE vals == MergeValues(rows, in, n)
<1>1. DOMAIN vals = Present(rows) \cup DOMAIN in
  BY DEF MergeValues
<1>2. ASSUME NEW p \in DOMAIN vals PROVE vals[p].conf \in {0, 1} /\ vals[p].word \in 0..n
  <2>1. CASE p \in DOMAIN in /\ vals[p] = Worded(in[p], n)
    BY <2>1, InputShape DEF Worded
  <2>2. CASE rows[p] # NoRow /\ vals[p] = AsInput(rows[p])
    <3>1. p \in Parameter
      BY <1>1, InputShape DEF Present
    <3> QED BY <2>2, <3>1 DEF AsInput, RowsTyped, RowTyped
  <2>3. \/ p \in DOMAIN in /\ vals[p] = Worded(in[p], n)
        \/ rows[p] # NoRow /\ vals[p] = AsInput(rows[p])
    BY <1>1 DEF MergeValues, Present
  <2> QED BY <2>1, <2>2, <2>3
<1> QED BY <1>2 DEF ValuesTyped

LEMMA BuiltTyped ==
    ASSUME NEW n \in Nat \ {0}, NEW vals, ValuesTyped(vals, n) PROVE RowsTyped(BuildRows(vals, n), n)
<1> DEFINE rows == BuildRows(vals, n)
<1> SUFFICES ASSUME NEW p \in Parameter, rows[p] # NoRow PROVE RowTyped(rows[p], n)
  BY DEF RowsTyped, RowTyped
<1>1. CASE p \in DOMAIN vals
  <2> DEFINE src == vals[p].src
             st == InitialStatus(src)
             conf == vals[p].conf
             word == vals[p].word
  <2>1. rows[p] = [id |-> n, src |-> src, st |-> st, conf |-> conf, word |-> word]
    BY <1>1 DEF BuildRows
  <2>2. conf \in {0, 1} /\ word \in 0..n /\ st \in {"pending", "confirmed", "defaulted"}
    BY <1>1 DEF ValuesTyped, InitialStatus
  <2> HIDE DEF rows, src, st, conf, word
  <2> QED BY <2>1, <2>2 DEF RowTyped
<1>2. CASE p \notin DOMAIN vals
  <2>1. rows[p] = [id |-> n, src |-> "default", st |-> "defaulted", conf |-> 0, word |-> 0]
    BY <1>2 DEF BuildRows
  <2> HIDE DEF rows
  <2> QED BY <2>1 DEF RowTyped
<1> QED BY <1>1, <1>2

\* A save leaves typed rows in every request that is still loaded.
LEMMA SaveTypes ==
    ASSUME ItemInv, ItemTypes, NEW c \in Clerk, NEW rows, SaveStatus(c, DeriveStatus(rows)),
           RowsTyped(valueRow', saves + 1)
    PROVE  ItemTypes'
<1>1. saves' = saves + 1 /\ saves \in Nat
  BY DEF SaveStatus, ItemInv, ItemShape
<1>2. itemStatus' \in {"none", "pending", "mixed", "confirmed"}
  BY DerivedIsStatus DEF SaveStatus, ItemTypes
<1>3. ASSUME NEW d \in Clerk, desk'[d].pc = "loaded" PROVE RowsTyped(desk'[d].rows, saves + 1)
  <2>1. desk'[d] = desk[d]
    BY <1>3 DEF SaveStatus, ItemInv, ItemShape, NotLoaded
  <2> QED BY <1>1, <1>3, <2>1, TypedLater DEF ItemTypes
<1>4. RowsTyped(valueRow', saves')
  BY <1>1
<1>5. \A d \in Clerk : desk'[d].pc = "loaded" => RowsTyped(desk'[d].rows, saves')
  BY <1>1, <1>3
<1> QED BY <1>2, <1>4, <1>5 DEF ItemTypes, RowsTyped

LEMMA SwapTypes ==
    ASSUME ItemInv, ItemTypes, NEW c \in Clerk, NEW rows, RowsTyped(rows, saves + 1), SwapRows(c, rows)
    PROVE  RowsTyped(valueRow', saves + 1)
<1>1. RowsTyped(valueRow, saves + 1)
  BY TypedLater DEF ItemInv, ItemShape, ItemTypes
<1>2. \A p \in Parameter : valueRow'[p] = valueRow[p] \/ valueRow'[p] = rows[p]
  BY DEF SwapRows
<1> QED BY <1>1, <1>2 DEF RowsTyped

LEMMA ConfirmTypes ==
    ASSUME ItemInv, ItemTypes, NEW c \in Clerk, NEW p \in Parameter, NEW correct \in BOOLEAN,
           ConfirmValue(c, p, correct)
    PROVE  ItemTypes'
<1> DEFINE mine == desk[c].rows
           want == IF correct THEN "corrected" ELSE "confirmed"
           st == IF mine[p].st = want THEN valueRow[p].st ELSE want
           made == IF correct THEN [id |-> valueRow[p].id, src |-> "manual", st |-> st, conf |-> 0, word |-> saves + 1]
                  ELSE [valueRow[p] EXCEPT !.st = st]
           mended == [mine EXCEPT ![p].st = want]
<1>1. /\ Saving(c) /\ SaveStatus(c, DeriveStatus(mended))
      /\ p \in Present(mine) /\ valueRow[p].id = mine[p].id
      /\ valueRow' = [valueRow EXCEPT ![p] = made]
  BY DEF ConfirmValue
<1>2. saves \in Nat /\ RowsSound(mine) /\ RowsSound(valueRow)
  BY <1>1 DEF ItemInv, ItemShape, Saving
<1>3. valueRow[p] # NoRow
  BY <1>1, <1>2 DEF Present, RowsSound, NoRow
<1>4. RowTyped(valueRow[p], saves) /\ RowsTyped(valueRow, saves + 1)
  BY <1>2, TypedLater DEF ItemTypes, RowsTyped
<1>5. /\ st \in {"pending", "confirmed", "corrected", "defaulted"}
      /\ st = "corrected" /\ ~ correct => valueRow[p].src = "manual"
  BY <1>3, <1>4 DEF RowTyped
<1>6. valueRow[p].id \in 1..(saves + 1) /\ valueRow[p].word \in 0..(saves + 1) /\ valueRow[p].conf \in {0, 1}
  BY <1>2, <1>3, <1>4 DEF RowTyped
<1>7. valueRow[p] \in [id : Nat, src : Source \cup {"none"},
             st : {"none", "pending", "confirmed", "corrected", "defaulted"}, conf : Int, word : Nat]
  BY <1>2 DEF RowsSound, ValueRows
<1>8. RowTyped(made, saves + 1)
  <2> HIDE DEF st
  <2>1. CASE correct
    <3>1. made = [id |-> valueRow[p].id, src |-> "manual", st |-> st, conf |-> 0, word |-> saves + 1]
      BY <2>1
    <3> HIDE DEF made
    <3> QED BY <1>2, <1>5, <1>6, <3>1 DEF RowTyped
  <2>2. CASE ~correct
    <3>1. /\ made.id = valueRow[p].id /\ made.src = valueRow[p].src /\ made.st = st
          /\ made.conf = valueRow[p].conf /\ made.word = valueRow[p].word
      BY <1>7, <2>2
    <3> HIDE DEF made
    <3> QED BY <1>5, <1>6, <2>2, <3>1 DEF RowTyped
  <2> QED BY <2>1, <2>2
<1> HIDE DEF made
<1>9. RowsTyped(valueRow', saves + 1)
  <2>1. \A q \in Parameter : valueRow'[q] = IF q = p THEN made ELSE valueRow[q]
    BY <1>1, <1>2 DEF RowsSound, ValueRows
  <2> QED BY <1>4, <1>8, <2>1 DEF RowsTyped
<1> HIDE DEF mended
<1> QED BY <1>1, <1>9, SaveTypes

LEMMA ItemTypesStep == ASSUME ItemInv, ItemTypes, [WorkItemNext]_itemVars PROVE ItemTypes'
<1>0. saves \in Nat /\ saves + 1 \in Nat \ {0}
  BY DEF ItemInv, ItemShape
<1>1. ASSUME NEW in \in Inputs, CreateItem(in) PROVE ItemTypes'
  <2> DEFINE vals == [p \in DOMAIN in |-> Worded(in[p], saves + 1)]
  <2>1. RowsTyped(BuildRows(vals, saves + 1), saves + 1)
    BY <1>0, WordedTyped, BuiltTyped
  <2>2. /\ valueRow' = BuildRows(vals, saves + 1) /\ saves' = saves + 1
        /\ itemStatus' = DeriveStatus(valueRow') /\ desk' = desk
    BY <1>1 DEF CreateItem
  <2> HIDE DEF vals
  <2>3. \A c \in Clerk : desk[c].pc = "loaded" => RowsTyped(desk[c].rows, saves + 1)
    BY <1>0, TypedLater DEF ItemTypes
  <2>4. itemStatus' \in {"none", "pending", "mixed", "confirmed"}
    BY <2>2, DerivedIsStatus
  <2> QED BY <2>1, <2>2, <2>3, <2>4 DEF ItemTypes, RowsTyped
<1>2. ASSUME NEW c \in Clerk, LoadItem(c) PROVE ItemTypes'
  <2>1. \A d \in Clerk : desk'[d] = desk[d] \/ desk'[d].rows = valueRow
    BY <1>2 DEF LoadItem, ItemInv, ItemShape
  <2> QED BY <1>2, <2>1 DEF LoadItem, ItemTypes, RowsTyped
<1>3. ASSUME NEW c \in Clerk, GiveUp(c) PROVE ItemTypes'
  <2>1. \A d \in Clerk : desk'[d] = desk[d] \/ desk'[d].pc = "free"
    BY <1>3 DEF GiveUp, ItemInv, ItemShape, NotLoaded
  <2> QED BY <1>3, <2>1 DEF GiveUp, ItemTypes, RowsTyped
<1>4. ASSUME NEW c \in Clerk, NEW in \in Inputs, UpdateValues(c, in) PROVE ItemTypes'
  <2> DEFINE vals == MergeValues(desk[c].rows, in, saves + 1)
             rows == BuildRows(vals, saves + 1)
  <2>1. Saving(c) /\ SwapRows(c, rows) /\ SaveStatus(c, DeriveStatus(rows))
    BY <1>4 DEF UpdateValues
  <2>2. RowsTyped(desk[c].rows, saves + 1)
    BY <1>0, <2>1, TypedLater DEF ItemTypes, Saving
  <2>3. RowsTyped(rows, saves + 1)
    BY <1>0, <2>2, MergedTyped, BuiltTyped
  <2> HIDE DEF rows
  <2> QED BY <2>1, <2>3, SwapTypes, SaveTypes
<1>5. ASSUME NEW c \in Clerk, NEW in \in Inputs, ReplaceValues(c, in) PROVE ItemTypes'
  <2> DEFINE vals == [p \in DOMAIN in |-> Worded(in[p], saves + 1)]
             rows == BuildRows(vals, saves + 1)
  <2>1. Saving(c) /\ SwapRows(c, rows) /\ SaveStatus(c, DeriveStatus(rows))
    BY <1>5 DEF ReplaceValues
  <2>2. RowsTyped(rows, saves + 1)
    BY <1>0, WordedTyped, BuiltTyped
  <2> HIDE DEF rows
  <2> QED BY <2>1, <2>2, SwapTypes, SaveTypes
<1>6. ASSUME NEW c \in Clerk, NEW p \in Parameter, NEW correct \in BOOLEAN, ConfirmValue(c, p, correct)
      PROVE  ItemTypes'
  BY <1>6, ConfirmTypes
<1>7. ASSUME NEW p \in Parameter, DisableParameter(p) PROVE ItemTypes'
  BY <1>7 DEF DisableParameter, ItemTypes, RowsTyped
<1>8. CASE CloseCase \/ UNCHANGED itemVars
  BY <1>8 DEF CloseCase, itemVars, ItemTypes, RowsTyped
<1> QED BY <1>1, <1>2, <1>3, <1>4, <1>5, <1>6, <1>7, <1>8 DEF WorkItemNext

\* Whatever saves of whatever age meet, a stored value has the word of the person
\* who entered it if and only if it is manual, and one that counts as corrected
\* is manual (_build_value_rows, confirm_project_work_item_value).
THEOREM ItemTypesTheorem == WorkItemSpec => []WorkItemTypeOK
<1>1. ItemInv /\ ItemTypes => WorkItemTypeOK
  BY DEF ItemInv, ItemShape, ItemTypes, RowsSound, RowsTyped, RowTyped, Present, WorkItemTypeOK
<1>2. ItemInv /\ ItemTypes /\ [WorkItemNext]_itemVars => (ItemInv /\ ItemTypes)'
  BY ItemStep, ItemTypesStep
<1> QED BY <1>1, <1>2, ItemInitInv, ItemTypesInitially, PTL DEF WorkItemSpec

-----------------------------------------------------------------------------
\* The audit of the storage.

\* Times and types, as far as the argument needs them.
AuditShape ==
    /\ clock \in Nat
    /\ stored \subseteq Key /\ refers \subseteq Key /\ writing \subseteq Key
    /\ mtime \in [Key -> Int] /\ since \in [Key -> Int]
    /\ \/ audit = NoAudit
       \/ /\ audit.pc = "read"
          /\ audit = [pc |-> "read", mode |-> audit.mode, refs |-> audit.refs, began |-> audit.began]
          /\ audit.began \in Nat /\ audit.began =< clock /\ clock =< audit.began + MaxScan
       \/ /\ audit.pc = "deleting"
          /\ audit = [pc |-> "deleting", todo |-> audit.todo]
          /\ audit.todo \subseteq Key

\* A write under way is recent and its object is there; unless the object is a
\* copy it shows the time of the write.
WritesAreYoung ==
    \A k \in writing :
        /\ k \in stored \cup spoiled
        /\ clock =< since[k] + MaxGap
        /\ k \notin aged => mtime[k] = since[k]

\* An object that came to be referred to since the scan began was written no
\* longer ago than writing takes.
NewReferencesAreYoung ==
    audit.pc = "read" =>
        \A k \in refers \ audit.refs : k \in aged \/ audit.began =< mtime[k] + MaxGap

\* Nothing referred to, or about to be, is on the list of the cleanup.
ListIsSafe ==
    audit.pc = "deleting" => audit.todo \cap (refers \cup writing) \subseteq late \cup aged

AuditInv == AuditShape /\ WritesAreYoung /\ NewReferencesAreYoung /\ ListIsSafe /\ ReferredIsKept

LEMMA AuditInitInv == AuditInit => AuditInv
BY AuditAssumption DEF AuditInit, AuditInv, AuditShape, WritesAreYoung, NewReferencesAreYoung,
    ListIsSafe, ReferredIsKept, NoAudit

\* A write makes its object present and young, or marks it as an aged copy, and
\* late for a cleanup under way.
LEMMA PutStep ==
    ASSUME AuditInv, NEW k \in Key, PutObject(k) \/ \E t \in 0..MaxClock : CopyObject(k, t)
    PROVE  AuditInv'
<1> USE AuditAssumption DEF AuditInv
<1>1. PICK t \in Int : Put(k, t) /\ ((t = clock /\ aged' = aged \ {k}) \/ aged' = aged \cup {k})
  BY DEF PutObject, CopyObject, AuditShape
<1>2. AuditShape'
  BY <1>1 DEF Put, AuditShape, NoAudit
<1>3. WritesAreYoung'
  BY <1>1 DEF Put, AuditShape, WritesAreYoung
<1>4. NewReferencesAreYoung'
  BY <1>1 DEF Put, AuditShape, NewReferencesAreYoung, NoAudit
<1>5. ListIsSafe'
  BY <1>1 DEF Put, AuditShape, ListIsSafe
<1>6. ReferredIsKept'
  BY <1>1 DEF Put, ReferredIsKept
<1> QED BY <1>2, <1>3, <1>4, <1>5, <1>6

LEMMA ReferStep == ASSUME AuditInv, NEW k \in Key, ReferTo(k) PROVE AuditInv'
<1> USE AuditAssumption DEF AuditInv, ReferTo
<1>1. AuditShape'
  BY DEF AuditShape, NoAudit
<1>2. WritesAreYoung'
  BY DEF WritesAreYoung
<1>3. NewReferencesAreYoung'
  <2> SUFFICES ASSUME audit.pc = "read", k \notin aged PROVE audit.began =< mtime[k] + MaxGap
    BY DEF NewReferencesAreYoung
  <2> QED BY DEF WritesAreYoung, AuditShape, NoAudit
<1>4. ListIsSafe'
  BY DEF ListIsSafe
<1>5. ReferredIsKept'
  BY DEF ReferredIsKept, WritesAreYoung
<1> QED BY <1>1, <1>2, <1>3, <1>4, <1>5

LEMMA EndOfUseStep == ASSUME AuditInv, NEW k \in Key, DropWrite(k) \/ Retire(k) PROVE AuditInv'
<1> USE DEF AuditInv, DropWrite, Retire
<1>1. AuditShape'
  BY DEF AuditShape, NoAudit
<1>2. WritesAreYoung'
  BY DEF WritesAreYoung
<1>3. NewReferencesAreYoung' /\ ListIsSafe'
  BY DEF NewReferencesAreYoung, ListIsSafe
<1>4. ReferredIsKept'
  BY DEF ReferredIsKept
<1> QED BY <1>1, <1>2, <1>3, <1>4

\* The heart of it: what is old enough to be deleted and is referred to now was
\* referred to when the rows were read.
LEMMA ListStep == ASSUME AuditInv, ListForCleanup PROVE AuditInv'
<1> USE AuditAssumption DEF AuditInv, ListForCleanup, storeVars
<1>1. AuditShape'
  BY DEF AuditShape, NoAudit, Orphans
<1>2. WritesAreYoung' /\ NewReferencesAreYoung' /\ ReferredIsKept'
  BY DEF WritesAreYoung, NewReferencesAreYoung, ReferredIsKept
<1>3. ASSUME NEW k \in Orphans, Eligible(k), k \in refers \cup writing PROVE k \in aged
  <2>0. SUFFICES ASSUME k \notin aged PROVE FALSE
    OBVIOUS
  <2>1. k \in Key /\ mtime[k] \in Int /\ clock \in Nat /\ audit.began \in Nat
         /\ clock =< audit.began + MaxScan
    BY DEF AuditShape, Orphans, NoAudit
  <2>2. clock - mtime[k] >= MinAge
    BY <1>3 DEF Eligible
  <2>3. CASE k \in writing
    BY <2>0, <2>1, <2>2, <2>3 DEF WritesAreYoung, AuditShape
  <2>4. CASE k \in refers
    BY <2>0, <2>1, <2>2, <2>4 DEF NewReferencesAreYoung, Orphans
  <2> QED BY <1>3, <2>3, <2>4
<1>4. ListIsSafe'
  BY <1>3 DEF ListIsSafe
<1> QED BY <1>1, <1>2, <1>4

LEMMA OrphanStep == ASSUME AuditInv, NEW k \in Key, DeleteOrphan(k) PROVE AuditInv'
<1> USE DEF AuditInv, DeleteOrphan
<1>1. AuditShape'
  BY DEF AuditShape, NoAudit
<1>2. WritesAreYoung'
  BY DEF WritesAreYoung, ListIsSafe
<1>3. NewReferencesAreYoung' /\ ListIsSafe'
  BY DEF NewReferencesAreYoung, ListIsSafe, AuditShape, NoAudit
<1>4. ReferredIsKept'
  BY DEF ReferredIsKept, ListIsSafe
<1> QED BY <1>1, <1>2, <1>3, <1>4

LEMMA ScanStep ==
    ASSUME AuditInv, (\E mode \in {"report", "cleanup"} : ReadRefs(mode)) \/ ListForReport \/ AuditEnds
    PROVE  AuditInv'
<1> USE AuditAssumption DEF AuditInv, storeVars, ReadRefs, ListForReport, AuditEnds
<1>1. AuditShape'
  BY DEF AuditShape, NoAudit
<1>2. WritesAreYoung' /\ ReferredIsKept'
  BY DEF WritesAreYoung, ReferredIsKept
<1>3. NewReferencesAreYoung' /\ ListIsSafe'
  BY DEF NewReferencesAreYoung, ListIsSafe, NoAudit
<1> QED BY <1>1, <1>2, <1>3

LEMMA PassStep == ASSUME AuditInv, Pass PROVE AuditInv'
<1> USE AuditAssumption DEF AuditInv, Pass, storeVars
<1>1. AuditShape'
  BY DEF AuditShape, NoAudit
<1>2. WritesAreYoung'
  BY DEF WritesAreYoung, AuditShape
<1>3. NewReferencesAreYoung' /\ ListIsSafe' /\ ReferredIsKept'
  BY DEF NewReferencesAreYoung, ListIsSafe, ReferredIsKept
<1> QED BY <1>1, <1>2, <1>3

LEMMA AuditNextInv == AuditInv /\ [AuditNext]_auditVars => AuditInv'
<1> SUFFICES ASSUME AuditInv, [AuditNext]_auditVars PROVE AuditInv'
  OBVIOUS
<1>1. CASE UNCHANGED auditVars
  BY <1>1 DEF AuditInv, AuditShape, WritesAreYoung, NewReferencesAreYoung, ListIsSafe, ReferredIsKept,
      auditVars, storeVars
<1>2. CASE AuditNext
  BY <1>2, PutStep, ReferStep, EndOfUseStep, ListStep, OrphanStep, ScanStep, PassStep DEF AuditNext
<1> QED BY <1>1, <1>2

\* The cleanup deletes no object that a row refers to (ReferredIsKept), for any
\* number of objects and any times within which the minimum age is larger than a
\* write and a scan take together.
THEOREM CleanupSparesReferred == AuditSpec => []ReferredIsKept
<1>1. AuditInv => ReferredIsKept
  BY DEF AuditInv
<1> QED BY <1>1, AuditInitInv, AuditNextInv, PTL DEF AuditSpec

\* Times are read off the clock, which Pass stops at its bound.
LEMMA AuditTypesStep ==
    ASSUME AuditInv, AuditTypeOK, [AuditNext]_auditVars PROVE AuditTypeOK'
<1> USE AuditAssumption DEF AuditTypeOK
<1>0. clock \in Nat /\ clock =< MaxClock
  OBVIOUS
<1>1. ASSUME NEW k \in Key, NEW t \in Nat, t =< clock, Put(k, t), aged' \subseteq aged \cup {k}
      PROVE  AuditTypeOK'
  <2>1. /\ stored' \subseteq Key /\ refers' \subseteq Key /\ writing' \subseteq Key
        /\ late' \subseteq Key /\ aged' \subseteq Key /\ spoiled' \subseteq Key
    BY <1>1 DEF Put
  <2>2. /\ mtime' \in [Key -> Int] /\ since' \in [Key -> Int]
        /\ \A j \in Key : mtime'[j] =< clock /\ since'[j] =< clock
    BY <1>0, <1>1 DEF Put
  <2> QED BY <1>1, <2>1, <2>2 DEF Put
<1>2. ASSUME NEW k \in Key, PutObject(k) PROVE AuditTypeOK'
  BY <1>0, <1>1, <1>2 DEF PutObject
<1>3. ASSUME NEW k \in Key, NEW t \in 0..MaxClock, CopyObject(k, t) PROVE AuditTypeOK'
  BY <1>1, <1>3 DEF CopyObject
<1>4. ASSUME NEW k \in Key, ReferTo(k) \/ DropWrite(k) \/ Retire(k) PROVE AuditTypeOK'
  BY <1>4 DEF ReferTo, DropWrite, Retire
<1>5. ASSUME NEW k \in Key, DeleteOrphan(k) PROVE AuditTypeOK'
  <2>1. audit'.pc = "deleting"
    BY <1>5 DEF DeleteOrphan, AuditInv, AuditShape, NoAudit
  <2> QED BY <1>5, <2>1 DEF DeleteOrphan
<1>6. ASSUME NEW mode \in {"report", "cleanup"}, ReadRefs(mode) PROVE AuditTypeOK'
  <2>1. /\ audit' = [pc |-> "read", mode |-> mode, refs |-> refers, began |-> clock] /\ sound' = FALSE
        /\ UNCHANGED <<clock, stored, mtime, refers, writing, since, aged, approved, late, spoiled>>
    BY <1>6 DEF ReadRefs, storeVars
  <2>2. audit'.pc = "read" /\ audit'.began \in 0..clock /\ audit'.refs \subseteq Key
    BY <1>0, <2>1
  <2> QED BY <2>1, <2>2
<1>7. CASE ListForReport
  BY <1>7 DEF ListForReport, storeVars, Orphans, NoAudit
<1>8. CASE ListForCleanup
  BY <1>8 DEF ListForCleanup, storeVars
<1>9. CASE AuditEnds
  BY <1>9 DEF AuditEnds, storeVars, NoAudit
<1>10. CASE Pass
  <2>1. clock' \in 0..MaxClock /\ clock =< clock'
    BY <1>0, <1>10 DEF Pass
  <2>2. \A k \in Key : mtime'[k] =< clock' /\ since'[k] =< clock'
    BY <1>0, <1>10, <2>1 DEF Pass, storeVars
  <2> QED BY <1>10, <2>1, <2>2 DEF Pass, storeVars
<1>11. CASE UNCHANGED auditVars
  BY <1>11 DEF auditVars, storeVars
<1> QED BY <1>2, <1>3, <1>4, <1>5, <1>6, <1>7, <1>8, <1>9, <1>10, <1>11 DEF AuditNext

\* No time the audit or a writer notes is ahead of the clock, and what the report,
\* the rows and the listing name are keys of the storage (AuditTypeOK).
THEOREM AuditTypes == AuditSpec => []AuditTypeOK
<1>1. AuditInit => AuditTypeOK
  <2> SUFFICES ASSUME AuditInit PROVE AuditTypeOK
    OBVIOUS
  <2>1. audit.pc = "idle"
    BY DEF AuditInit, NoAudit
  <2>2. clock \in 0..MaxClock
    BY AuditAssumption DEF AuditInit
  <2>3. /\ mtime \in [Key -> Int] /\ since \in [Key -> Int]
        /\ \A k \in Key : mtime[k] =< clock /\ since[k] =< clock
    BY DEF AuditInit
  <2> QED BY <2>1, <2>2, <2>3 DEF AuditInit, AuditTypeOK
<1>2. AuditInv /\ AuditTypeOK /\ [AuditNext]_auditVars => (AuditInv /\ AuditTypeOK)'
  BY AuditNextInv, AuditTypesStep
<1> QED BY <1>1, <1>2, AuditInitInv, PTL DEF AuditSpec

-----------------------------------------------------------------------------
\* The settings of a company for a work type.

AtRest == ~ Unfinished /\ ~ torn

TenantShape ==
    /\ saving = [a \in Admin |-> saving[a]]
    /\ \A a \in Admin : "pc" \in DOMAIN saving[a]
    /\ viewing = [v \in Viewer |-> viewing[v]]
    /\ torn \in BOOLEAN
    /\ scope \in Nat
    /\ served.tag \in Int /\ served.tag =< scope
    /\ \A v \in Viewer : viewing[v] # Away => viewing[v].tag \in Nat /\ viewing[v].tag =< scope

\* What a reader holds so far is what is stored.
UpToDate(view) ==
    /\ view.pc \in {"setting", "overrides"} => view.setting = setting
    /\ view.pc = "overrides" => view.overrides = overrides
    /\ view.pc = "composed" => view.value = Compose(setting, overrides, extras)

\* With no save between its first commit and its invalidation, a reader that
\* holds the current tag has read only what is still stored.
ReadsAreCurrent ==
    AtRest => \A v \in Viewer : viewing[v] # Away /\ viewing[v].tag = scope => UpToDate(viewing[v])

TenantInv == TenantShape /\ ReadsAreCurrent /\ ServedIsStored

LEMMA TenantInitInv == TenantInit => TenantInv
  <1> SUFFICES ASSUME TenantInit PROVE TenantInv
    OBVIOUS
  <1>1. /\ scope = 0 /\ served = Uncached /\ torn = FALSE
        /\ saving = [a \in Admin |-> Away] /\ viewing = [v \in Viewer |-> Away]
    BY DEF TenantInit
  <1>2. served.tag = -1 /\ "pc" \in DOMAIN Away
    BY <1>1 DEF Uncached, Away
  <1>3. -1 \in Int /\ -1 =< 0 /\ -1 # 0
    OBVIOUS
  <1>4. TenantShape
    BY <1>1, <1>2, <1>3 DEF TenantShape
  <1> QED BY <1>1, <1>2, <1>3, <1>4 DEF TenantInv, ReadsAreCurrent, ServedIsStored

\* A save that does not touch the stored parts, or leaves them unsettled.
LEMMA SaveMoves ==
    ASSUME TenantInv, NEW a \in Admin, NEW where, SaveAt(a, where), "pc" \in DOMAIN where,
           UNCHANGED <<scope, served, viewing>>, torn' \in BOOLEAN,
           \/ AtRest' => AtRest /\ UNCHANGED <<setting, overrides, extras>>
           \/ torn'
           \/ where.pc \in {"setting", "overrides", "overridden", "extras", "stored"}
    PROVE  TenantInv'
  <1>1. TenantShape'
    BY DEF TenantInv, TenantShape, SaveAt
  <1>2. AtRest' => AtRest /\ UNCHANGED <<setting, overrides, extras>>
    BY DEF TenantInv, TenantShape, SaveAt, AtRest, Unfinished
  <1>3. CASE AtRest'
    <2>1. ReadsAreCurrent'
      BY <1>2, <1>3 DEF TenantInv, ReadsAreCurrent, UpToDate, Compose, GlobalParameter, ExtraParameter
    <2>2. ServedIsStored'
      BY <1>2, <1>3 DEF TenantInv, ServedIsStored, AtRest, Compose, GlobalParameter, ExtraParameter
    <2> QED BY <1>1, <2>1, <2>2 DEF TenantInv
  <1>4. CASE ~ AtRest'
    BY <1>1, <1>4 DEF TenantInv, ReadsAreCurrent, ServedIsStored, AtRest
  <1> QED BY <1>3, <1>4

LEMMA BeginPutStep ==
    ASSUME TenantInv, NEW a \in Admin, NEW name \in DOMAIN Save, BeginPut(a, name)
    PROVE  TenantInv'
  <1>1. saving[a].pc = "away" /\ torn \in BOOLEAN
    BY DEF BeginPut, Away, TenantInv, TenantShape
  <1> DEFINE where == [pc |-> "checked", number |-> puts + 1, body |-> name, loaded |-> setting]
  <1>2. SaveAt(a, where) /\ "pc" \in DOMAIN where /\ UNCHANGED <<setting, overrides, extras, scope, served, viewing, torn>>
    BY DEF BeginPut
  <1>3. AtRest' => AtRest
    BY <1>1, <1>2 DEF SaveAt, AtRest, Unfinished, TenantInv, TenantShape
  <1> QED BY <1>1, <1>2, <1>3, SaveMoves

\* A save that ends or goes on after its first commit.
LEMMA AbandonStep ==
    ASSUME TenantInv, NEW a \in Admin, Abandon(a), UNCHANGED <<scope, served, viewing>>
    PROVE  TenantInv'
  BY SaveMoves DEF Abandon, Away

LEMMA ReachStep ==
    ASSUME TenantInv, NEW a \in Admin, NEW pc \in {"setting", "overridden", "stored"}, Reach(a, pc),
           UNCHANGED <<scope, served, viewing, torn>>
    PROVE  TenantInv'
  <1> DEFINE where == [saving[a] EXCEPT !.pc = pc, !.loaded = NoSetting]
  <1>1. SaveAt(a, where) /\ "pc" \in DOMAIN where /\ where.pc = pc /\ torn \in BOOLEAN
    BY DEF Reach, TenantInv, TenantShape
  <1> HIDE DEF where
  <1> QED BY <1>1, SaveMoves

LEMMA LoadedStep ==
    ASSUME TenantInv, NEW a \in Admin, NEW pc \in {"overrides", "extras"}, NEW found,
           SaveAt(a, [saving[a] EXCEPT !.pc = pc, !.loaded = found]),
           UNCHANGED <<scope, served, viewing, torn>>
    PROVE  TenantInv'
  <1> DEFINE where == [saving[a] EXCEPT !.pc = pc, !.loaded = found]
  <1>1. SaveAt(a, where) /\ "pc" \in DOMAIN where /\ where.pc = pc /\ torn \in BOOLEAN
    BY DEF TenantInv, TenantShape
  <1> HIDE DEF where
  <1> QED BY <1>1, SaveMoves

LEMMA PutSettingStep == ASSUME TenantInv, NEW a \in Admin, PutSetting(a) PROVE TenantInv'
  <1>1. CASE SaveAt(a, Away) /\ UNCHANGED setting
    <2>1. UNCHANGED <<setting, overrides, extras, scope, served, viewing, torn>> /\ saving[a].pc = "checked"
      BY <1>1 DEF PutSetting
    <2>2. torn \in BOOLEAN /\ "pc" \in DOMAIN Away
      BY DEF TenantInv, TenantShape, Away
    <2>3. AtRest' => AtRest
      BY <1>1, <2>1 DEF SaveAt, AtRest, Unfinished, TenantInv, TenantShape
    <2> QED BY <1>1, <2>1, <2>2, <2>3, SaveMoves
  <1>2. CASE Reach(a, "setting")
    BY <1>2, ReachStep DEF PutSetting
  <1> QED BY <1>1, <1>2 DEF PutSetting

\* The checks and the commits of the second and the third part.
LEMMA PartStep ==
    ASSUME TenantInv, NEW a \in Admin, CheckOverrides(a) \/ PutOverrides(a) \/ CheckExtras(a) \/ PutExtras(a)
    PROVE  TenantInv'
  <1>1. UNCHANGED <<scope, served, viewing>>
    BY DEF CheckOverrides, PutOverrides, CheckExtras, PutExtras
  <1>2. CASE CheckOverrides(a)
    BY <1>1, <1>2, AbandonStep, ReachStep, LoadedStep DEF CheckOverrides
  <1>3. CASE PutOverrides(a)
    BY <1>1, <1>3, AbandonStep, ReachStep DEF PutOverrides
  <1>4. CASE CheckExtras(a)
    BY <1>1, <1>4, AbandonStep, ReachStep, LoadedStep DEF CheckExtras
  <1>5. CASE PutExtras(a)
    BY <1>1, <1>5, AbandonStep, ReachStep DEF PutExtras
  <1> QED BY <1>2, <1>3, <1>4, <1>5

\* No reader holds the new tag.
LEMMA InvalidateStep == ASSUME TenantInv, NEW a \in Admin, Invalidate(a) PROVE TenantInv'
  <1>1. /\ scope' = scope + 1 /\ served' = Uncached /\ torn' = FALSE
        /\ SaveAt(a, Away) /\ UNCHANGED viewing
    BY DEF Invalidate
  <1>2. TenantShape'
    <2>1. served'.tag = -1 /\ -1 \in Int /\ -1 =< scope + 1 /\ scope + 1 \in Nat
      BY <1>1 DEF TenantInv, TenantShape, Uncached
    <2>2. "pc" \in DOMAIN Away
      BY DEF Away
    <2>3. saving' = [b \in Admin |-> saving'[b]] /\ \A b \in Admin : "pc" \in DOMAIN saving'[b]
      BY <1>1, <2>2 DEF TenantInv, TenantShape, SaveAt
    <2>4. \A v \in Viewer : viewing[v] # Away => viewing[v].tag \in Nat /\ viewing[v].tag =< scope + 1
      BY DEF TenantInv, TenantShape
    <2> QED BY <1>1, <2>1, <2>3, <2>4 DEF TenantInv, TenantShape
  <1>3. served'.tag # scope' /\ \A v \in Viewer : viewing[v] # Away => viewing[v].tag # scope'
    BY <1>1 DEF TenantInv, TenantShape, Uncached
  <1> QED BY <1>1, <1>2, <1>3 DEF TenantInv, ReadsAreCurrent, ServedIsStored

\* A reader that does not store.
LEMMA ViewMoves ==
    ASSUME TenantInv, NEW v \in Viewer, NEW where, View(v, where),
           UNCHANGED <<setting, overrides, extras, scope, served, saving, torn>>,
           where # Away => where.tag \in Nat /\ where.tag =< scope,
           AtRest /\ where # Away /\ where.tag = scope => UpToDate(where)
    PROVE  TenantInv'
  <1>1. TenantShape'
    BY DEF TenantInv, TenantShape, View
  <1>2. AtRest' <=> AtRest
    BY DEF AtRest, Unfinished
  <1>3. \A u \in Viewer : viewing'[u] = IF u = v THEN where ELSE viewing[u]
    BY DEF TenantInv, TenantShape, View
  <1>4. ASSUME AtRest, NEW u \in Viewer, viewing'[u] # Away, viewing'[u].tag = scope
        PROVE  UpToDate(viewing'[u])
    BY <1>3, <1>4 DEF TenantInv, ReadsAreCurrent
  <1>5. ReadsAreCurrent'
    BY <1>2, <1>4 DEF ReadsAreCurrent, UpToDate, Compose, GlobalParameter, ExtraParameter
  <1>6. ServedIsStored'
    BY <1>2 DEF TenantInv, ServedIsStored, AtRest, Compose, GlobalParameter, ExtraParameter
  <1> QED BY <1>1, <1>5, <1>6 DEF TenantInv

LEMMA ViewStep ==
    ASSUME TenantInv, NEW v \in Viewer, TakeScope(v) \/ ReadSetting(v) \/ ReadOverrides(v) \/ ReadExtras(v)
    PROVE  TenantInv'
  <1> USE ViewMoves
  <1>1. UNCHANGED <<setting, overrides, extras, scope, served, saving, torn>>
    BY DEF TakeScope, ReadSetting, ReadOverrides, ReadExtras
  <1>2. CASE TakeScope(v)
    <2> DEFINE where == [pc |-> "tag", tag |-> scope]
    <2>1. View(v, where) /\ where.tag \in Nat /\ where.tag =< scope /\ UpToDate(where)
      BY <1>2 DEF TakeScope, TenantInv, TenantShape, UpToDate
    <2> QED BY <1>1, <2>1
  <1>3. ~ TakeScope(v) => viewing[v] # Away
    BY DEF ReadSetting, ReadOverrides, ReadExtras, Away
  <1>4. ~ TakeScope(v) => viewing[v].tag \in Nat /\ viewing[v].tag =< scope
    BY <1>3 DEF TenantInv, TenantShape
  <1>5. AtRest /\ ~ TakeScope(v) /\ viewing[v].tag = scope => UpToDate(viewing[v])
    BY <1>3 DEF TenantInv, ReadsAreCurrent
  <1>6. CASE ReadSetting(v)
    <2> DEFINE where == [pc |-> "setting", tag |-> viewing[v].tag, setting |-> setting]
    <2>1. View(v, where) /\ where.tag = viewing[v].tag /\ UpToDate(where)
      BY <1>6 DEF ReadSetting, UpToDate
    <2>2. ~ TakeScope(v)
      BY <1>6 DEF ReadSetting, TakeScope, Away
    <2> QED BY <1>1, <1>4, <2>1, <2>2
  <1>7. CASE ReadOverrides(v)
    <2> DEFINE where == [pc |-> "overrides", tag |-> viewing[v].tag, setting |-> viewing[v].setting,
                         overrides |-> overrides]
    <2>1. View(v, where) /\ where.tag = viewing[v].tag /\ viewing[v].pc = "setting"
      BY <1>7 DEF ReadOverrides
    <2>2. ~ TakeScope(v)
      BY <1>7 DEF ReadOverrides, TakeScope, Away
    <2>3. AtRest /\ where.tag = scope => UpToDate(where)
      BY <1>5, <2>1, <2>2 DEF UpToDate
    <2> QED BY <1>1, <1>4, <2>1, <2>2, <2>3
  <1>8. CASE ReadExtras(v)
    <2> DEFINE value == Compose(viewing[v].setting, viewing[v].overrides, extras)
               composed == [pc |-> "composed", tag |-> viewing[v].tag, value |-> value]
    <2>1. viewing[v].pc = "overrides" /\ (View(v, composed) \/ View(v, Away))
      BY <1>8 DEF ReadExtras
    <2>2. ~ TakeScope(v)
      BY <1>8 DEF ReadExtras, TakeScope, Away
    <2>3. AtRest /\ viewing[v].tag = scope => viewing[v].setting = setting /\ viewing[v].overrides = overrides
      BY <1>5, <2>1, <2>2 DEF UpToDate
    <2>4. AtRest /\ composed.tag = scope => UpToDate(composed)
      BY <2>3 DEF UpToDate
    <2>5. composed.tag = viewing[v].tag
      OBVIOUS
    <2> HIDE DEF composed
    <2> QED BY <1>1, <1>4, <2>1, <2>2, <2>4, <2>5
  <1> QED BY <1>2, <1>6, <1>7, <1>8

\* What is stored under the current tag is what the reader composed.
LEMMA ServeStep == ASSUME TenantInv, NEW v \in Viewer, Serve(v) PROVE TenantInv'
  <1>1. /\ viewing[v].pc = "composed" /\ viewing[v] # Away
        /\ served' = [tag |-> viewing[v].tag, value |-> viewing[v].value] /\ View(v, Away)
        /\ UNCHANGED <<setting, overrides, extras, scope, saving, torn>>
    BY DEF Serve, Away
  <1>2. TenantShape'
    BY <1>1 DEF TenantInv, TenantShape, View, Away
  <1>3. AtRest' <=> AtRest
    BY <1>1 DEF AtRest, Unfinished
  <1>4. \A u \in Viewer : viewing'[u] = IF u = v THEN Away ELSE viewing[u]
    BY <1>1 DEF TenantInv, TenantShape, View
  <1>5. ReadsAreCurrent'
    BY <1>1, <1>3, <1>4 DEF TenantInv, ReadsAreCurrent, UpToDate, Compose, GlobalParameter, ExtraParameter
  <1>6. AtRest /\ viewing[v].tag = scope => viewing[v].value = Compose(setting, overrides, extras)
    BY <1>1 DEF TenantInv, ReadsAreCurrent, UpToDate
  <1>7. ServedIsStored'
    BY <1>1, <1>3, <1>6 DEF ServedIsStored, AtRest, Compose, GlobalParameter, ExtraParameter
  <1> QED BY <1>2, <1>5, <1>7 DEF TenantInv

LEMMA TenantStep == TenantInv /\ [TenantNext]_tenantVars => TenantInv'
  <1> SUFFICES ASSUME TenantInv, [TenantNext]_tenantVars PROVE TenantInv'
    OBVIOUS
  <1>1. CASE UNCHANGED tenantVars
    BY <1>1 DEF tenantVars, TenantInv, TenantShape, ReadsAreCurrent, ServedIsStored, AtRest, Unfinished, UpToDate,
                Compose, GlobalParameter, ExtraParameter
  <1>2. ASSUME NEW a \in Admin, NEW name \in DOMAIN Save, BeginPut(a, name) PROVE TenantInv'
    BY <1>2, BeginPutStep
  <1>3. ASSUME NEW a \in Admin,
               PutSetting(a) \/ CheckOverrides(a) \/ PutOverrides(a) \/ CheckExtras(a) \/ PutExtras(a)
               \/ Invalidate(a)
        PROVE  TenantInv'
    BY <1>3, PutSettingStep, PartStep, InvalidateStep
  <1>4. ASSUME NEW a \in Admin, Dies(a) PROVE TenantInv'
    BY <1>4, AbandonStep DEF Dies
  <1>5. ASSUME NEW v \in Viewer,
               TakeScope(v) \/ ReadSetting(v) \/ ReadOverrides(v) \/ ReadExtras(v) \/ Serve(v)
        PROVE  TenantInv'
    BY <1>5, ViewStep, ServeStep
  <1> QED BY <1>1, <1>2, <1>3, <1>4, <1>5 DEF TenantNext

\* The configuration of a work type that the cache serves is the one the stored
\* rows compose to, for any saves and readers side by side (upsert_tenant_setting
\* and get_effective_work_type), unless a save is between its first commit and
\* its invalidation, or was refused or died there.
THEOREM StoredIsServed == TenantSpec => []ServedIsStored
<1>1. TenantInv => ServedIsStored
  BY DEF TenantInv
<1> QED BY <1>1, TenantInitInv, TenantStep, PTL DEF TenantSpec

\* The stored parts keep to their names; and a save that is about to write a part
\* has checked that part of its body.
PartsFit ==
    /\ DOMAIN overrides \subseteq DOMAIN Global
    /\ DOMAIN extras \cap DOMAIN Global = {}
    /\ \A a \in Admin :
        /\ saving[a].pc # "away" => "body" \in DOMAIN saving[a]
        /\ saving[a].pc = "overrides" => OverridesFit(BodyOf(a))
        /\ saving[a].pc = "extras" => ExtrasFit(BodyOf(a))

LEMMA PartsFitInitially == TenantInit => PartsFit
<1> SUFFICES ASSUME TenantInit PROVE PartsFit
  OBVIOUS
<1>1. \A a \in Admin : saving[a].pc = "away"
  BY DEF TenantInit, Away
<1>2. DOMAIN overrides \subseteq DOMAIN Global /\ DOMAIN extras \cap DOMAIN Global = {}
  BY DEF TenantInit, OverridesFit, ExtrasFit
<1> QED BY <1>1, <1>2 DEF PartsFit

\* A save goes somewhere with the body it has, fit for the part it is to write.
LEMMA BodyStaysFit ==
    ASSUME TenantShape, PartsFit, NEW a \in Admin, NEW where, SaveAt(a, where),
           where.pc # "away" => "body" \in DOMAIN where,
           where.pc = "overrides" => OverridesFit(Save[where.body]),
           where.pc = "extras" => ExtrasFit(Save[where.body])
    PROVE  \A b \in Admin :
            /\ saving'[b].pc # "away" => "body" \in DOMAIN saving'[b]
            /\ saving'[b].pc = "overrides" => OverridesFit(Save[saving'[b].body])
            /\ saving'[b].pc = "extras" => ExtrasFit(Save[saving'[b].body])
<1>1. \A b \in Admin : saving'[b] = IF b = a THEN where ELSE saving[b]
  BY DEF SaveAt, TenantShape
<1> QED BY <1>1 DEF PartsFit, BodyOf

\* Going on to a place keeps the body.
LEMMA GoesOn ==
    ASSUME TenantShape, PartsFit, NEW a \in Admin, saving[a].pc # "away", NEW pc, NEW found
    PROVE  LET where == [saving[a] EXCEPT !.pc = pc, !.loaded = found] IN
           where.pc = pc /\ "body" \in DOMAIN where /\ where.body = saving[a].body
BY DEF TenantShape, PartsFit

LEMMA PartsFitStep == ASSUME TenantShape, PartsFit, [TenantNext]_tenantVars PROVE PartsFit'
<1> DEFINE Body(b) ==
        /\ saving'[b].pc # "away" => "body" \in DOMAIN saving'[b]
        /\ saving'[b].pc = "overrides" => OverridesFit(Save[saving'[b].body])
        /\ saving'[b].pc = "extras" => ExtrasFit(Save[saving'[b].body])
<1>0. ASSUME DOMAIN overrides' \subseteq DOMAIN Global, DOMAIN extras' \cap DOMAIN Global = {},
             \A b \in Admin : Body(b)
      PROVE  PartsFit'
  BY <1>0 DEF PartsFit, BodyOf, OverridesFit, ExtrasFit
<1> HIDE DEF Body
<1>1. /\ DOMAIN overrides \subseteq DOMAIN Global
      /\ DOMAIN extras \cap DOMAIN Global = {}
  BY DEF PartsFit
<1>2. ASSUME UNCHANGED saving PROVE \A b \in Admin : Body(b)
  BY <1>2 DEF PartsFit, BodyOf, Body
<1>3. ASSUME NEW a \in Admin, SaveAt(a, Away) PROVE \A b \in Admin : Body(b)
  <2>1. Away.pc = "away"
    BY DEF Away
  <2> QED BY <1>3, <2>1, BodyStaysFit DEF Body
<1>4. ASSUME NEW a \in Admin, NEW pc, NEW found, saving[a].pc # "away",
             SaveAt(a, [saving[a] EXCEPT !.pc = pc, !.loaded = found]),
             pc = "overrides" => OverridesFit(BodyOf(a)),
             pc = "extras" => ExtrasFit(BodyOf(a))
      PROVE  \A b \in Admin : Body(b)
  <2> DEFINE where == [saving[a] EXCEPT !.pc = pc, !.loaded = found]
  <2>1. where.pc = pc /\ "body" \in DOMAIN where /\ Save[where.body] = BodyOf(a)
    BY <1>4, GoesOn DEF BodyOf
  <2> HIDE DEF where
  <2>2. SaveAt(a, where)
    BY <1>4 DEF where
  <2> QED BY <1>4, <2>1, <2>2, BodyStaysFit DEF Body
<1>5. ASSUME NEW a \in Admin, saving[a].pc # "away", NEW pc \in {"setting", "overridden", "stored"}, Reach(a, pc)
      PROVE  \A b \in Admin : Body(b)
  BY <1>4, <1>5 DEF Reach
<1>6. ASSUME NEW a \in Admin, NEW name \in DOMAIN Save, BeginPut(a, name) PROVE PartsFit'
  <2> DEFINE where == [pc |-> "checked", number |-> puts + 1, body |-> name, loaded |-> setting]
  <2>1. where.pc = "checked" /\ "body" \in DOMAIN where
    OBVIOUS
  <2>2. SaveAt(a, where) /\ UNCHANGED <<overrides, extras>>
    BY <1>6 DEF BeginPut
  <2> HIDE DEF where
  <2>3. \A b \in Admin : Body(b)
    BY <2>1, <2>2, BodyStaysFit DEF Body
  <2> QED BY <1>0, <1>1, <2>2, <2>3
<1>7. ASSUME NEW a \in Admin, PutSetting(a) PROVE PartsFit'
  <2>1. saving[a].pc # "away" /\ UNCHANGED <<overrides, extras>> /\ (SaveAt(a, Away) \/ Reach(a, "setting"))
    BY <1>7 DEF PutSetting
  <2> QED BY <1>0, <1>1, <1>3, <1>5, <2>1
<1>8. ASSUME NEW a \in Admin, CheckOverrides(a) PROVE PartsFit'
  <2>1. /\ saving[a].pc = "setting" /\ UNCHANGED <<overrides, extras>>
        /\ \/ SaveAt(a, Away)
           \/ Reach(a, "overridden")
           \/ /\ OverridesFit(BodyOf(a))
              /\ SaveAt(a, [saving[a] EXCEPT !.pc = "overrides", !.loaded = overrides])
    BY <1>8 DEF CheckOverrides, Abandon
  <2>2. \A b \in Admin : Body(b)
    <3>1. CASE SaveAt(a, Away)
      BY <1>3, <3>1
    <3>2. CASE Reach(a, "overridden")
      BY <1>5, <2>1, <3>2
    <3>3. CASE OverridesFit(BodyOf(a)) /\ SaveAt(a, [saving[a] EXCEPT !.pc = "overrides", !.loaded = overrides])
      <4>1. saving[a].pc # "away" /\ "overrides" # "extras"
        BY <2>1
      <4> QED BY <1>4, <3>3, <4>1, Zenon
    <3> QED BY <2>1, <3>1, <3>2, <3>3
  <2> QED BY <1>0, <1>1, <2>1, <2>2
<1>9. ASSUME NEW a \in Admin, PutOverrides(a) PROVE PartsFit'
  <2>1. /\ saving[a].pc = "overrides" /\ UNCHANGED extras
        /\ SaveAt(a, Away) \/ Reach(a, "overridden")
        /\ DOMAIN overrides' = DOMAIN overrides \/ DOMAIN overrides' = DOMAIN overrides \cup Codes(BodyOf(a).overrides)
    BY <1>9 DEF PutOverrides, Abandon
  <2>2. Codes(BodyOf(a).overrides) \subseteq DOMAIN Global
    BY <2>1 DEF PartsFit, OverridesFit
  <2>3. \A b \in Admin : Body(b)
    BY <1>3, <1>5, <2>1
  <2> QED BY <1>0, <1>1, <2>1, <2>2, <2>3
<1>10. ASSUME NEW a \in Admin, CheckExtras(a) PROVE PartsFit'
  <2>1. /\ saving[a].pc = "overridden" /\ UNCHANGED <<overrides, extras>>
        /\ \/ SaveAt(a, Away)
           \/ Reach(a, "stored")
           \/ /\ ExtrasFit(BodyOf(a))
              /\ SaveAt(a, [saving[a] EXCEPT !.pc = "extras", !.loaded = extras])
    BY <1>10 DEF CheckExtras, Abandon
  <2>2. \A b \in Admin : Body(b)
    <3>1. CASE SaveAt(a, Away)
      BY <1>3, <3>1
    <3>2. CASE Reach(a, "stored")
      BY <1>5, <2>1, <3>2
    <3>3. CASE ExtrasFit(BodyOf(a)) /\ SaveAt(a, [saving[a] EXCEPT !.pc = "extras", !.loaded = extras])
      BY <1>4, <2>1, <3>3
    <3> QED BY <2>1, <3>1, <3>2, <3>3
  <2> QED BY <1>0, <1>1, <2>1, <2>2
<1>11. ASSUME NEW a \in Admin, PutExtras(a) PROVE PartsFit'
  <2>1. /\ saving[a].pc = "extras" /\ UNCHANGED overrides
        /\ SaveAt(a, Away) \/ Reach(a, "stored")
        /\ DOMAIN extras' = DOMAIN extras \/ DOMAIN extras' = DOMAIN extras \cup Codes(BodyOf(a).extras)
    BY <1>11 DEF PutExtras, Abandon
  <2>2. Codes(BodyOf(a).extras) \cap DOMAIN Global = {}
    BY <2>1 DEF PartsFit, ExtrasFit
  <2>3. \A b \in Admin : Body(b)
    BY <1>3, <1>5, <2>1
  <2> QED BY <1>0, <1>1, <2>1, <2>2, <2>3
<1>12. ASSUME NEW a \in Admin, Invalidate(a) \/ Dies(a) PROVE PartsFit'
  <2>1. SaveAt(a, Away) /\ UNCHANGED <<overrides, extras>>
    BY <1>12 DEF Invalidate, Dies, Abandon
  <2> QED BY <1>0, <1>1, <1>3, <2>1
<1>13. ASSUME NEW v \in Viewer,
              TakeScope(v) \/ ReadSetting(v) \/ ReadOverrides(v) \/ ReadExtras(v) \/ Serve(v)
       PROVE  PartsFit'
  <2>1. UNCHANGED <<saving, overrides, extras>>
    BY <1>13 DEF TakeScope, ReadSetting, ReadOverrides, ReadExtras, Serve
  <2> QED BY <1>0, <1>1, <1>2, <2>1
<1>14. CASE UNCHANGED tenantVars
  BY <1>0, <1>1, <1>2, <1>14 DEF tenantVars
<1> QED BY <1>6, <1>7, <1>8, <1>9, <1>10, <1>11, <1>12, <1>13, <1>14 DEF TenantNext

\* The stored overrides are of parameters of the catalogue and a company's own
\* parameters have no code of the catalogue's, although a body is checked part by
\* part after the first commit; and no tag is ahead of the company's.
THEOREM TenantTypes == TenantSpec => []TenantTypeOK
<1>1. TenantInv /\ PartsFit => TenantTypeOK
  BY DEF TenantInv, TenantShape, PartsFit, TenantTypeOK
<1>2. TenantInv /\ PartsFit /\ [TenantNext]_tenantVars => (TenantInv /\ PartsFit)'
  BY TenantStep, PartsFitStep DEF TenantInv
<1> QED BY <1>1, <1>2, TenantInitInv, PartsFitInitially, PTL DEF TenantSpec

-----------------------------------------------------------------------------
\* The quote of a case.

\* What an item may be, given the price lists there are.
CaseItem(bs) ==
    {item \in [type : DOMAIN Profiles, values : UNION {Acceptable[type] : type \in DOMAIN Profiles},
               profile : {"active", "none", "retired"}, book : bs \cup {NoBook}] :
        item.values \in Acceptable[item.type]}

QuotesTypes == QuotesTypeOK /\ items \in Seq(CaseItem(books))

LEMMA QuotesTypesInitially == QuotesInit => QuotesTypes
BY QuotePricingConstants DEF QuotesInit, QuotesTypes, QuotesTypeOK, NoQuote

\* The items that may be accepted, alone or with others.
LEMMA ItemsTriedFit == ASSUME QuotesTypes PROVE ItemsTried \subseteq CaseItem(books)
<1>1. ASSUME NEW item \in AnyItem PROVE item \in CaseItem({})
  BY <1>1 DEF AnyItem, CaseItem
<1>2. ASSUME NEW item \in AnyItem PROVE item \in CaseItem(books)
  BY <1>1, <1>2 DEF CaseItem
<1>3. ASSUME NEW bs \in SUBSET (books \cup {NoBook}), NEW item \in Settled(bs)
      PROVE  item \in CaseItem(books)
  <2>1. PICK plain \in AnyItem, p \in {"active", "none"}, b \in bs :
            item = WithSetting(plain, p, b)
    <3>1. PICK plain \in PlainItem, p \in {"active", "none"}, b \in bs :
              item = WithSetting(plain, p, b)
      BY <1>3 DEF Settled
    <3>2. plain \in AnyItem
      BY <3>1 DEF PlainItem
    <3> QED BY <3>1, <3>2
  <2>2. plain \in CaseItem(books)
    BY <1>2
  <2> QED BY <2>1, <2>2 DEF CaseItem, WithSetting
<1>4. BooksTried \subseteq books \cup {NoBook}
  BY DEF BooksTried
<1> QED BY <1>2, <1>3, <1>4 DEF ItemsTried

\* A price list more is no harm.
LEMMA CaseItemGrows ==
    ASSUME NEW bs, NEW cs, bs \subseteq cs, NEW its \in Seq(CaseItem(bs)) PROVE its \in Seq(CaseItem(cs))
<1>1. CaseItem(bs) \subseteq CaseItem(cs)
  BY DEF CaseItem
<1> QED BY <1>1

LEMMA QuotesTypesStep == ASSUME QuotesTypes, [QuotesNext]_quoteVars PROVE QuotesTypes'
<1> DEFINE Booked ==
        /\ defaults \subseteq books /\ books \subseteq DOMAIN Books
        /\ \A b \in DOMAIN opening : b \in DOMAIN Books \ books /\ opening[b] \subseteq DOMAIN Books
           Rest ==
        /\ analysis \in Analyses \cup {NoAnalysis} /\ mixing \in BOOLEAN
        /\ quote.source \in {"none", "items", "analysis"}
        /\ outcome \in {"none", "quoted", "failed", "unavailable"}
<1>1. Booked /\ Rest /\ items \in Seq(CaseItem(books))
  BY DEF QuotesTypes, QuotesTypeOK
<1>2. ASSUME Booked', Rest', items' \in Seq(CaseItem(books')) PROVE QuotesTypes'
  <2>1. \A i \in DOMAIN items' : items'[i] \in CaseItem(books')
    BY <1>2
  <2>2. \A i \in DOMAIN items' :
          /\ items'[i].type \in DOMAIN Profiles /\ items'[i].values \in Acceptable[items'[i].type]
          /\ items'[i].profile \in {"active", "none", "retired"}
          /\ items'[i].book \in books' \cup {NoBook}
    BY <2>1 DEF CaseItem
  <2>3. QuotesTypeOK'
    BY <1>2, <2>2 DEF QuotesTypeOK, Acceptable
  <2> QED BY <1>2, <2>3 DEF QuotesTypes, CaseItem, Acceptable
<1>3. ASSUME UNCHANGED <<books, defaults, opening>> PROVE Booked'
  BY <1>1, <1>3
<1>4. ASSUME UNCHANGED <<books, items>> PROVE items' \in Seq(CaseItem(books'))
  BY <1>1, <1>4
<1>5. ASSUME NEW item \in ItemsTried, AcceptItem(item) PROVE QuotesTypes'
  <2>1. item \in CaseItem(books)
    BY ItemsTriedFit
  <2>2. items' \in Seq(CaseItem(books')) /\ UNCHANGED <<books, defaults, opening>> /\ Rest'
    BY <1>1, <1>5, <2>1 DEF AcceptItem
  <2> QED BY <1>2, <1>3, <2>2
<1>6. ASSUME NEW i \in DOMAIN items, RetireProfile(i) PROVE QuotesTypes'
  <2>1. items[i] \in CaseItem(books)
    BY <1>1
  <2>2. [items[i] EXCEPT !.profile = "retired"] \in CaseItem(books)
    BY <2>1 DEF CaseItem
  <2>3. items' = [items EXCEPT ![i] = [items[i] EXCEPT !.profile = "retired"]]
        /\ UNCHANGED <<books, defaults, opening>> /\ Rest'
    BY <1>1, <1>6 DEF RetireProfile
  <2>4. items' \in Seq(CaseItem(books'))
    BY <1>1, <2>2, <2>3
  <2> QED BY <1>2, <1>3, <2>3, <2>4
<1>7. ASSUME NEW result \in Analyses, FinishAnalysis(result) PROVE QuotesTypes'
  <2>1. UNCHANGED <<books, defaults, opening, items>> /\ Rest'
    BY <1>1, <1>7 DEF FinishAnalysis
  <2> QED BY <1>2, <1>3, <1>4, <2>1
<1>8. ASSUME NEW b \in DOMAIN Books, OpenBook(b) PROVE QuotesTypes'
  <2>1. /\ opening' = [c \in DOMAIN opening \cup {b} |-> IF c = b THEN defaults ELSE opening[c]]
        /\ b \notin books /\ UNCHANGED <<books, defaults, items>> /\ Rest'
    BY <1>1, <1>8 DEF OpenBook
  <2>2. Booked'
    BY <1>1, <2>1
  <2> QED BY <1>2, <1>4, <2>1, <2>2
<1>9. ASSUME NEW b \in DOMAIN opening, CommitBook(b) PROVE QuotesTypes'
  <2>1. /\ books' = books \cup {b} /\ defaults' = (defaults \ opening[b]) \cup {b}
        /\ opening' = [c \in DOMAIN opening \ {b} |-> opening[c]]
        /\ UNCHANGED items /\ Rest'
    BY <1>1, <1>9 DEF CommitBook
  <2>2. Booked'
    BY <1>1, <2>1
  <2>3. items' \in Seq(CaseItem(books'))
    BY <1>1, <2>1, CaseItemGrows
  <2> QED BY <1>2, <2>1, <2>2, <2>3
<1>10. ASSUME NEW default \in defaults, QuoteFromItems(default) \/ QuoteFromAnalysis(default)
       PROVE  QuotesTypes'
  <2>1. UNCHANGED <<books, defaults, opening, analysis, items, mixing>>
        /\ quote'.source \in {"items", "analysis"} /\ outcome' = "quoted"
    <3>1. CASE QuoteFromItems(default)
      BY <3>1 DEF QuoteFromItems
    <3>2. CASE QuoteFromAnalysis(default)
      BY <3>2 DEF QuoteFromAnalysis
    <3> QED BY <1>10, <3>1, <3>2
  <2>2. Rest'
    BY <1>1, <2>1
  <2> QED BY <1>2, <1>3, <1>4, <2>1, <2>2
<1>11. CASE QuoteFails \/ QuoteUnavailable
  <2>1. UNCHANGED <<books, defaults, opening, items>> /\ Rest'
    BY <1>1, <1>11 DEF QuoteFails, QuoteUnavailable
  <2> QED BY <1>2, <1>3, <1>4, <2>1
<1>12. CASE UNCHANGED quoteVars
  <2>1. UNCHANGED <<books, defaults, opening, items>> /\ Rest'
    BY <1>1, <1>12 DEF quoteVars
  <2> QED BY <1>2, <1>3, <1>4, <2>1
<1> QED BY <1>5, <1>6, <1>7, <1>8, <1>9, <1>10, <1>11, <1>12 DEF QuotesNext

\* An item of a case has a work type of the catalogue, values that acceptance lets
\* through and a price list of the company; a new default list is not one of the
\* company's until it is committed (QuotesTypeOK).
THEOREM QuoteTypes == QuotesSpec => []QuotesTypeOK
<1>1. QuotesTypes => QuotesTypeOK
  BY DEF QuotesTypes
<1>2. QuotesTypes /\ [QuotesNext]_quoteVars => QuotesTypes'
  BY QuotesTypesStep
<1> QED BY <1>1, <1>2, QuotesTypesInitially, PTL DEF QuotesSpec

\* The amounts of a quote. FoldLeft is a function of sets of positions chosen by its
\* recursion; that there is one (IterExists) is shown by induction on a set of
\* numbers, and a fold is then a run of single steps (Unrolled).

\* What holds of 0, and of n + 1 whenever of n, holds of all numbers up to a bound.
LEMMA SetInduction ==
    ASSUME NEW N \in Nat, NEW P, 0 \in P, \A k \in 0..(N - 1) : k \in P => k + 1 \in P
    PROVE  0..N \subseteq P
<1> DEFINE R == {ss \in Nat \X Nat : ss[1] < ss[2]}
           T == (0..N) \ P
<1>1. IsWellFoundedOn(R, Nat)
  BY NatLessThanWellFounded DEF OpToRel
<1>2. T \subseteq Nat
  OBVIOUS
<1>3. SUFFICES ASSUME T # {} PROVE FALSE
  OBVIOUS
<1>4. PICK x \in T : \A y \in T : <<y, x>> \notin R
  <2> HIDE DEF R, T
  <2> QED BY <1>1, <1>2, <1>3, WFMin
<1>5. x \in 0..N /\ x # 0 /\ x \notin P
  OBVIOUS
<1>6. x - 1 \in 0..(N - 1) /\ <<x - 1, x>> \in R
  BY <1>5
<1>7. x - 1 \in P
  BY <1>4, <1>6
<1> QED BY <1>5, <1>6, <1>7

LEMMA MaxOfInterval == ASSUME NEW n \in Nat \ {0} PROVE Max(1..n) = n
BY DEF Max

\* A function of the sets of numbers up to N that folds; one of which this is known
\* where its value is in V; a run of the same steps.
FoldsAs(it, N, base, step) ==
    \A s \in SUBSET (1..N) :
        it[s] = IF s = {} THEN base ELSE step[<<Max(s), it[s \ {Max(s)}]>>]

FoldsWithin(it, N, V, base, step) ==
    /\ it[{}] = base
    /\ \A s \in SUBSET (1..N) :
          s # {} /\ it[s \ {Max(s)}] \in V => it[s] = step[<<Max(s), it[s \ {Max(s)}]>>]

RunsAs(run, N, base, step) ==
    run[0] = base /\ \A k \in 1..N : run[k] = step[<<k, run[k - 1]>>]

\* There is a function that folds.
LEMMA IterExists ==
    ASSUME NEW N \in Nat, NEW V, NEW base \in V, NEW step \in [(1..N) \X V -> V]
    PROVE  \E it \in [SUBSET (1..N) -> V] : FoldsAs(it, N, base, step)
<1> DEFINE Ok(it, k) == FoldsAs(it, k, base, step)
           P == {k \in 0..N : \E it \in [SUBSET (1..k) -> V] : Ok(it, k)}
<1>1. 0 \in P
  <2> DEFINE it == [s \in SUBSET (1..0) |-> base]
  <2>1. it \in [SUBSET (1..0) -> V]
    OBVIOUS
  <2>2. 1..0 = {}
    OBVIOUS
  <2>3. \A s \in SUBSET (1..0) : s = {}
    BY <2>2
  <2>4. Ok(it, 0)
    BY <2>3 DEF FoldsAs
  <2> HIDE DEF it, Ok
  <2>5. \E jt \in [SUBSET (1..0) -> V] : Ok(jt, 0)
    BY <2>1, <2>4
  <2>6. 0 \in 0..N
    OBVIOUS
  <2> QED BY <2>5, <2>6, Zenon
<1>2. ASSUME NEW k \in 0..(N - 1), k \in P PROVE k + 1 \in P
  <2>1. PICK it \in [SUBSET (1..k) -> V] : Ok(it, k)
    BY <1>2
  <2> DEFINE up == [s \in SUBSET (1..(k + 1)) |->
                      IF k + 1 \in s THEN step[<<k + 1, it[s \ {k + 1}]>>] ELSE it[s]]
  <2>2. ASSUME NEW s \in SUBSET (1..(k + 1)), k + 1 \in s
        PROVE  s \ {k + 1} \in SUBSET (1..k) /\ Max(s) = k + 1 /\ s # {} /\ k + 1 \notin s \ {k + 1}
    <3>1. s \ {k + 1} \in SUBSET (1..k) /\ s # {} /\ k + 1 \notin s \ {k + 1}
      BY <2>2
    <3>2. k + 1 \in s /\ \A y \in s : k + 1 >= y
      BY <2>2
    <3>3. \A x \in s : (\A y \in s : x >= y) => x = k + 1
      BY <2>2
    <3>4. Max(s) = k + 1
      BY <3>2, <3>3 DEF Max
    <3> QED BY <3>1, <3>4
  <2>3. ASSUME NEW s \in SUBSET (1..(k + 1)), k + 1 \notin s
        PROVE  s \in SUBSET (1..k)
    BY <2>3
  <2>4. k + 1 \in 1..N
    OBVIOUS
  <2>5. ASSUME NEW s \in SUBSET (1..(k + 1)) PROVE up[s] \in V
    BY <2>2, <2>3, <2>4
  <2>6. up \in [SUBSET (1..(k + 1)) -> V]
    BY <2>5
  <2>7. \A s \in SUBSET (1..k) : s \in SUBSET (1..(k + 1)) /\ up[s] = it[s]
    OBVIOUS
  <2>8. ASSUME NEW s \in SUBSET (1..(k + 1))
        PROVE  up[s] = IF s = {} THEN base ELSE step[<<Max(s), up[s \ {Max(s)}]>>]
    <3>1. CASE k + 1 \in s
      <4>1. up[s \ {k + 1}] = it[s \ {k + 1}]
        BY <2>2, <2>7, <3>1
      <4> QED BY <2>2, <3>1, <4>1
    <3>2. CASE k + 1 \notin s
      <4>1. up[s] = it[s] /\ s \in SUBSET (1..k)
        BY <2>3, <3>2
      <4>2. s \ {Max(s)} \in SUBSET (1..k)
        BY <4>1
      <4>3. up[s \ {Max(s)}] = it[s \ {Max(s)}]
        BY <2>7, <4>2
      <4> HIDE DEF up
      <4> QED BY <2>1, <4>1, <4>3 DEF FoldsAs
    <3> QED BY <3>1, <3>2
  <2> HIDE DEF up
  <2>9. Ok(up, k + 1)
    BY <2>8 DEF FoldsAs
  <2> HIDE DEF Ok
  <2> QED BY <2>6, <2>9
<1>3. N \in P
  <2> HIDE DEF P
  <2> QED BY <1>1, <1>2, SetInduction
<1> QED BY <1>3

LEMMA MaxIn == ASSUME NEW N \in Nat, NEW s \in SUBSET (1..N), s # {} PROVE Max(s) \in s
<1> DEFINE P == {k \in 0..N : \A u \in SUBSET (1..k) : u # {} => Max(u) \in u}
<1>1. 0 \in P
  <2>1. \A u \in SUBSET (1..0) : u = {}
    OBVIOUS
  <2>2. 0 \in 0..N
    OBVIOUS
  <2> QED BY <2>1, <2>2, Zenon
<1>2. ASSUME NEW k \in 0..(N - 1), k \in P PROVE k + 1 \in P
  <2>1. ASSUME NEW u \in SUBSET (1..(k + 1)), u # {} PROVE Max(u) \in u
    <3>1. CASE k + 1 \in u
      <4>1. \A y \in u : k + 1 >= y
        BY <3>1
      <4> QED BY <3>1, <4>1 DEF Max
    <3>2. CASE k + 1 \notin u
      <4>1. u \in SUBSET (1..k)
        BY <3>2
      <4> QED BY <1>2, <2>1, <4>1
    <3> QED BY <3>1, <3>2
  <2> QED BY <2>1
<1>3. N \in P
  <2> HIDE DEF P
  <2> QED BY <1>1, <1>2, SetInduction
<1> QED BY <1>3

\* A fold whose steps are known is run one step after the other.
LEMMA Unrolled ==
    ASSUME NEW N \in Nat, NEW V, NEW base \in V, NEW step \in [(1..N) \X V -> V], NEW it,
           FoldsWithin(it, N, V, base, step)
    PROVE  \E run \in [0..N -> V] : run[N] = it[1..N] /\ RunsAs(run, N, base, step)
<1> DEFINE run == [k \in 0..N |-> it[1..k]]
           P == {k \in 0..N : run[k] \in V}
<1>1. run[0] = base
  <2>1. 1..0 = {}
    OBVIOUS
  <2> QED BY <2>1 DEF FoldsWithin
<1>2. ASSUME NEW k \in 1..N, run[k - 1] \in V PROVE run[k] = step[<<k, run[k - 1]>>]
  <2>1. 1..k # {} /\ 1..k \in SUBSET (1..N) /\ Max(1..k) = k /\ (1..k) \ {k} = 1..(k - 1)
    BY MaxOfInterval
  <2>2. run[k - 1] = it[1..(k - 1)] /\ run[k] = it[1..k]
    OBVIOUS
  <2> HIDE DEF run
  <2> QED BY <1>2, <2>1, <2>2 DEF FoldsWithin
<1>3. 0 \in P
  BY <1>1
<1>4. ASSUME NEW k \in 0..(N - 1), k \in P PROVE k + 1 \in P
  <2>1. k + 1 \in 1..N /\ (k + 1) - 1 = k /\ run[k] \in V
    BY <1>4
  <2> HIDE DEF run
  <2>2. run[k + 1] = step[<<k + 1, run[k]>>]
    BY <1>2, <2>1
  <2> QED BY <2>1, <2>2
<1>5. 0..N \subseteq P
  <2> HIDE DEF P
  <2> QED BY <1>3, <1>4, SetInduction
<1>6. run \in [0..N -> V]
  BY <1>5
<1>7. run[N] = it[1..N]
  OBVIOUS
<1>8. ASSUME NEW k \in 1..N PROVE run[k] = step[<<k, run[k - 1]>>]
  <2>1. k - 1 \in 0..N
    OBVIOUS
  <2> HIDE DEF run
  <2> QED BY <1>2, <1>6, <2>1
<1> HIDE DEF run
<1> QED BY <1>1, <1>6, <1>7, <1>8 DEF RunsAs

\* The partial sums of the amounts.
SumsOf(run, N, a) == run[0] = 0 /\ \A k \in 1..N : run[k] = run[k - 1] + a[k]

\* Total is where the partial sums end.
LEMMA TotalRun ==
    ASSUME NEW N \in Nat, NEW a \in [1..N -> Int]
    PROVE  \E run \in [0..N -> Int] : run[N] = Total(a) /\ SumsOf(run, N, a)
<1> DEFINE Fits(it) == it = [s \in SUBSET (1..N) |-> IF s = {} THEN 0 ELSE it[s \ {Max(s)}] + a[Max(s)]]
           C == CHOOSE it : Fits(it)
           step == [p \in (1..N) \X Int |-> p[2] + a[p[1]]]
<1>0. 0 \in Int
  OBVIOUS
<1>1. step \in [(1..N) \X Int -> Int]
  OBVIOUS
<1>2. \A k \in 1..N, x \in Int : step[<<k, x>>] = x + a[k]
  OBVIOUS
<1>3. \A s \in SUBSET (1..N) : s # {} => Max(s) \in 1..N /\ s \ {Max(s)} \in SUBSET (1..N)
  BY MaxIn
<1>4. Total(a) = C[1..N]
  <2>1. DOMAIN a = 1..N
    OBVIOUS
  <2>2. Total(a) = (CHOOSE it : it = [s \in SUBSET DOMAIN a |-> IF s = {} THEN 0 ELSE it[s \ {Max(s)}] + a[Max(s)]])[DOMAIN a]
    BY DEF Total, FoldLeft, MapThenFoldSet
  <2> QED BY <2>1, <2>2
<1> HIDE DEF step
<1>5. \E it : Fits(it)
  <2>1. PICK it \in [SUBSET (1..N) -> Int] : FoldsAs(it, N, 0, step)
    BY <1>0, <1>1, IterExists, Zenon
  <2>2. \A s \in SUBSET (1..N) : it[s] = IF s = {} THEN 0 ELSE it[s \ {Max(s)}] + a[Max(s)]
    BY <1>2, <1>3, <2>1 DEF FoldsAs
  <2>3. Fits(it)
    BY <2>1, <2>2
  <2> QED BY <2>3
<1>6. Fits(C)
  <2> HIDE DEF Fits
  <2> QED BY <1>5, Zenon
<1> HIDE DEF C
<1>7. C[{}] = 0
  BY <1>6
<1>8. FoldsWithin(C, N, Int, 0, step)
  BY <1>2, <1>3, <1>6, <1>7 DEF FoldsWithin
<1>9. PICK run \in [0..N -> Int] : run[N] = C[1..N] /\ RunsAs(run, N, 0, step)
  <2> HIDE DEF Fits
  <2> QED BY <1>0, <1>1, <1>8, Unrolled
<1>10. ASSUME NEW k \in 1..N PROVE run[k] = run[k - 1] + a[k]
  <2>1. k - 1 \in 0..N
    OBVIOUS
  <2>2. run[k - 1] \in Int
    BY <1>9, <2>1
  <2> QED BY <1>2, <1>9, <2>2 DEF RunsAs
<1> QED BY <1>4, <1>9, <1>10 DEF RunsAs, SumsOf

\* Whatever adds the amounts one by one ends at their total.
LEMMA SumsEndAtTotal ==
    ASSUME NEW N \in Nat, NEW a \in [1..N -> Int], NEW h \in [0..N -> Int], SumsOf(h, N, a)
    PROVE  h[N] = Total(a)
<1>1. PICK run \in [0..N -> Int] : run[N] = Total(a) /\ SumsOf(run, N, a)
  BY TotalRun
<1> DEFINE P == {k \in 0..N : run[k] = h[k]}
<1>2. 0 \in P
  BY <1>1 DEF SumsOf
<1>3. ASSUME NEW k \in 0..(N - 1), k \in P PROVE k + 1 \in P
  <2>1. k + 1 \in 1..N /\ (k + 1) - 1 = k
    OBVIOUS
  <2> QED BY <1>1, <1>3, <2>1 DEF SumsOf
<1>4. N \in P
  <2> HIDE DEF P
  <2>1. 0..N \subseteq P
    BY <1>2, <1>3, SetInduction
  <2> QED BY <2>1
<1> QED BY <1>1, <1>4

LEMMA TotalType == ASSUME NEW N \in Nat, NEW a \in [1..N -> Int] PROVE Total(a) \in Int
BY TotalRun

LEMMA TotalOfNone == ASSUME NEW a \in [1..0 -> Int] PROVE Total(a) = 0
<1>1. PICK run \in [0..0 -> Int] : run[0] = Total(a) /\ SumsOf(run, 0, a)
  BY TotalRun, 0 \in Nat
<1> QED BY <1>1 DEF SumsOf

\* Products and bounds, apart from everything else.
LEMMA Distributes == ASSUME NEW x \in Int, NEW y \in Int, NEW z \in Int PROVE x * (y + z) = x * y + x * z
OBVIOUS

LEMMA ProductType == ASSUME NEW x \in Int, NEW y \in Int PROVE x * y \in Int
OBVIOUS

LEMMA ProductPositive == ASSUME NEW x \in Nat, NEW y \in Nat PROVE x * y \in Nat
OBVIOUS

LEMMA BoundsAdd ==
    ASSUME NEW f \in Int, NEW g \in Int, NEW l \in Int, NEW h \in Int, l <= f - g, f - g <= h,
           NEW f1 \in Int, NEW g1 \in Int, NEW l1 \in Int, NEW h1 \in Int, l1 <= f1 - g1, f1 - g1 <= h1
    PROVE  l + l1 <= (f + f1) - (g + g1) /\ (f + f1) - (g + g1) <= h + h1
OBVIOUS

\* Amounts within bounds total within bounds.
LEMMA TotalCompares ==
    ASSUME NEW N \in Nat, NEW a \in [1..N -> Int], NEW b \in [1..N -> Int],
           NEW p \in Nat, NEW q \in Nat, NEW low \in Int, NEW high \in Int,
           \A k \in 1..N : low <= p * a[k] - q * b[k] /\ p * a[k] - q * b[k] <= high
    PROVE  /\ low * N <= p * Total(a) - q * Total(b)
           /\ p * Total(a) - q * Total(b) <= high * N
<1>1. PICK f \in [0..N -> Int] : f[N] = Total(a) /\ SumsOf(f, N, a)
  BY TotalRun
<1>2. PICK g \in [0..N -> Int] : g[N] = Total(b) /\ SumsOf(g, N, b)
  BY TotalRun
<1> DEFINE P == {k \in 0..N : low * k <= p * f[k] - q * g[k] /\ p * f[k] - q * g[k] <= high * k}
<1>3. 0 \in P
  <2>1. low * 0 = 0 /\ high * 0 = 0 /\ p * 0 = 0 /\ q * 0 = 0
    OBVIOUS
  <2> QED BY <1>1, <1>2, <2>1 DEF SumsOf
<1>4. ASSUME NEW k \in 0..(N - 1), k \in P PROVE k + 1 \in P
  <2>1. k + 1 \in 1..N /\ (k + 1) - 1 = k /\ k \in 0..N /\ k + 1 \in 0..N
    OBVIOUS
  <2>2. f[k + 1] = f[k] + a[k + 1] /\ g[k + 1] = g[k] + b[k + 1]
    BY <1>1, <1>2, <2>1 DEF SumsOf
  <2>3. f[k] \in Int /\ g[k] \in Int /\ a[k + 1] \in Int /\ b[k + 1] \in Int
        /\ p \in Int /\ q \in Int /\ k \in Int
    BY <2>1
  <2> DEFINE pf == p * f[k]
             qg == q * g[k]
             pa == p * a[k + 1]
             qb == q * b[k + 1]
             lk == low * k
             hk == high * k
  <2>4. p * f[k + 1] = pf + pa /\ q * g[k + 1] = qg + qb
    <3>1. p * f[k + 1] = p * (f[k] + a[k + 1]) /\ q * g[k + 1] = q * (g[k] + b[k + 1])
      BY <2>2
    <3>2. p * (f[k] + a[k + 1]) = pf + pa
      BY <2>3, Distributes
    <3>3. q * (g[k] + b[k + 1]) = qg + qb
      BY <2>3, Distributes
    <3> HIDE DEF pf, pa, qg, qb
    <3> QED BY <3>1, <3>2, <3>3
  <2>5. low * (k + 1) = lk + low /\ high * (k + 1) = hk + high
    OBVIOUS
  <2>6. low <= pa - qb /\ pa - qb <= high
    BY <2>1
  <2>7. lk <= pf - qg /\ pf - qg <= hk
    BY <1>4
  <2>8. pf \in Int /\ pa \in Int
    BY <2>3, ProductType
  <2>9. qg \in Int /\ qb \in Int
    BY <2>3, ProductType
  <2>10. lk \in Int /\ hk \in Int
    BY <2>3, ProductType
  <2>11. low * (k + 1) <= p * f[k + 1] - q * g[k + 1] /\ p * f[k + 1] - q * g[k + 1] <= high * (k + 1)
    <3> HIDE DEF pf, pa, qg, qb, lk, hk
    <3>1. lk + low <= (pf + pa) - (qg + qb) /\ (pf + pa) - (qg + qb) <= hk + high
      BY <2>6, <2>7, <2>8, <2>9, <2>10, BoundsAdd
    <3> QED BY <2>4, <2>5, <3>1
  <2> QED BY <2>1, <2>11
<1>5. N \in P
  <2> HIDE DEF P
  <2>1. 0..N \subseteq P
    BY <1>3, <1>4, SetInduction
  <2> QED BY <2>1
<1> QED BY <1>1, <1>2, <1>5

\* Three parts of each amount total apart.
LEMMA TotalAdds ==
    ASSUME NEW N \in Nat, NEW a \in [1..N -> Int], NEW b \in [1..N -> Int],
           NEW c \in [1..N -> Int], NEW d \in [1..N -> Int],
           \A k \in 1..N : d[k] = a[k] + b[k] + c[k]
    PROVE  Total(d) = Total(a) + Total(b) + Total(c)
<1>1. PICK f \in [0..N -> Int] : f[N] = Total(a) /\ SumsOf(f, N, a)
  BY TotalRun
<1>2. PICK g \in [0..N -> Int] : g[N] = Total(b) /\ SumsOf(g, N, b)
  BY TotalRun
<1>3. PICK h \in [0..N -> Int] : h[N] = Total(c) /\ SumsOf(h, N, c)
  BY TotalRun
<1> DEFINE sum == [k \in 0..N |-> f[k] + g[k] + h[k]]
<1>4. sum \in [0..N -> Int] /\ sum[0] = 0 /\ sum[N] = f[N] + g[N] + h[N]
  BY <1>1, <1>2, <1>3 DEF SumsOf
<1>5. ASSUME NEW k \in 1..N PROVE sum[k] = sum[k - 1] + d[k]
  <2>1. k - 1 \in 0..N /\ k \in 0..N
    OBVIOUS
  <2>2. f[k] = f[k - 1] + a[k] /\ g[k] = g[k - 1] + b[k] /\ h[k] = h[k - 1] + c[k]
    BY <1>1, <1>2, <1>3 DEF SumsOf
  <2>3. f[k - 1] \in Int /\ g[k - 1] \in Int /\ h[k - 1] \in Int /\ a[k] \in Int /\ b[k] \in Int /\ c[k] \in Int
    BY <2>1
  <2>4. sum[k] = f[k] + g[k] + h[k] /\ sum[k - 1] = f[k - 1] + g[k - 1] + h[k - 1] /\ d[k] = a[k] + b[k] + c[k]
    BY <2>1
  <2> HIDE DEF sum
  <2> QED BY <2>2, <2>3, <2>4, SMTT(30)
<1> HIDE DEF sum
<1>6. SumsOf(sum, N, d)
  BY <1>4, <1>5 DEF SumsOf
<1>7. sum[N] = Total(d)
  BY <1>4, <1>6, SumsEndAtTotal
<1> QED BY <1>1, <1>2, <1>3, <1>4, <1>7

\* The total of two sequences of amounts, one after the other.
LEMMA TotalOfBoth ==
    ASSUME NEW N \in Nat, NEW M \in Nat, NEW a \in [1..N -> Int], NEW b \in [1..M -> Int],
           NEW c \in [1..(N + M) -> Int],
           \A k \in 1..N : c[k] = a[k], \A k \in 1..M : c[N + k] = b[k]
    PROVE  Total(c) = Total(a) + Total(b)
<1>1. PICK f \in [0..N -> Int] : f[N] = Total(a) /\ SumsOf(f, N, a)
  BY TotalRun
<1>2. PICK g \in [0..M -> Int] : g[M] = Total(b) /\ SumsOf(g, M, b)
  BY TotalRun
<1> DEFINE sum == [k \in 0..(N + M) |-> IF k <= N THEN f[k] ELSE f[N] + g[k - N]]
<1>3. ASSUME NEW k \in 0..(N + M) PROVE sum[k] \in Int
  <2>1. k <= N => k \in 0..N
    OBVIOUS
  <2>2. ~(k <= N) => k - N \in 0..M
    OBVIOUS
  <2>3. N \in 0..N
    OBVIOUS
  <2> QED BY <2>1, <2>2, <2>3
<1>4. sum \in [0..(N + M) -> Int]
  BY <1>3
<1>5. sum[0] = 0
  BY <1>1 DEF SumsOf
<1>6. sum[N + M] = f[N] + g[M]
  <2>1. CASE M = 0
    <3>1. N + M <= N /\ N + M = N /\ N + M \in 0..(N + M) /\ N \in 0..N
      BY <2>1
    <3>2. sum[N + M] = f[N] /\ f[N] \in Int /\ g[M] = 0
      BY <1>2, <2>1, <3>1 DEF SumsOf
    <3> QED BY <3>2
  <2>2. CASE M # 0
    <3>1. ~(N + M <= N) /\ (N + M) - N = M /\ N + M \in 0..(N + M)
      BY <2>2
    <3> QED BY <3>1
  <2> QED BY <2>1, <2>2
<1>7. ASSUME NEW k \in 1..(N + M) PROVE sum[k] = sum[k - 1] + c[k]
  <2>1. k \in 0..(N + M) /\ k - 1 \in 0..(N + M)
    OBVIOUS
  <2>2. CASE k <= N
    <3>1. k \in 1..N /\ k - 1 <= N
      BY <2>2
    <3>2. sum[k] = f[k] /\ sum[k - 1] = f[k - 1]
      BY <2>1, <2>2, <3>1
    <3> HIDE DEF sum
    <3> QED BY <1>1, <3>1, <3>2 DEF SumsOf
  <2>3. CASE k > N
    <3>1. k - N \in 1..M /\ ~(k <= N) /\ (k - N) - 1 = (k - 1) - N /\ N + (k - N) = k /\ k - N \in 0..M /\ (k - N) - 1 \in 0..M
      BY <2>3
    <3>2. sum[k] = f[N] + g[k - N]
      BY <2>1, <3>1
    <3>3. g[k - N] = g[(k - N) - 1] + b[k - N] /\ c[k] = b[k - N]
      <4>1. \A j \in 1..M : c[N + j] = b[j]
        OBVIOUS
      <4>2. c[N + (k - N)] = b[k - N]
        BY <3>1, <4>1
      <4> HIDE DEF sum
      <4> QED BY <1>2, <3>1, <4>2 DEF SumsOf
    <3>4. sum[k - 1] = f[N] + g[(k - N) - 1]
      <4>1. CASE k - 1 = N
        <5>1. sum[k - 1] = f[N] /\ g[(k - N) - 1] = 0 /\ f[N] \in Int
          BY <1>2, <2>1, <4>1 DEF SumsOf
        <5> HIDE DEF sum
        <5> QED BY <5>1
      <4>2. CASE k - 1 # N
        <5>1. ~(k - 1 <= N)
          BY <2>3, <4>2
        <5>2. sum[k - 1] = f[N] + g[(k - 1) - N]
          BY <2>1, <5>1
        <5> HIDE DEF sum
        <5> QED BY <3>1, <5>2
      <4> QED BY <4>1, <4>2
    <3>5. f[N] \in Int /\ g[(k - N) - 1] \in Int /\ b[k - N] \in Int
      BY <3>1
    <3> HIDE DEF sum
    <3> QED BY <3>2, <3>3, <3>4, <3>5, SMTT(30)
  <2> QED BY <2>2, <2>3
<1> HIDE DEF sum
<1>8. SumsOf(sum, N + M, c)
  BY <1>5, <1>7 DEF SumsOf
<1>9. sum[N + M] = Total(c)
  BY <1>4, <1>8, SumsEndAtTotal, N + M \in Nat
<1> QED BY <1>1, <1>2, <1>6, <1>9

\* Lines.
CodesOf(profile) ==
    {profile.base[i].code : i \in DOMAIN profile.base}
        \cup {profile.adjustments[i].code : i \in DOMAIN profile.adjustments}
LineCodes ==
    {"labor", "material", "other", "minimum-job-charge"}
        \cup UNION {CodesOf(Profiles[type]) : type \in DOMAIN Profiles}
Line == [code : LineCodes, type : LineTypes, price : Int]

LEMMA PricesFit ==
    ASSUME NEW lines \in Seq(Line)
    PROVE  /\ Len(lines) \in Nat /\ DOMAIN lines = 1..Len(lines)
           /\ [i \in DOMAIN lines |-> lines[i].price] \in [1..Len(lines) -> Int]
           /\ \A type : [i \in DOMAIN lines |-> IF lines[i].type = type THEN lines[i].price ELSE 0]
                            \in [1..Len(lines) -> Int]
<1>1. Len(lines) \in Nat /\ DOMAIN lines = 1..Len(lines)
  OBVIOUS
<1>2. ASSUME NEW i \in 1..Len(lines) PROVE lines[i].price \in Int
  <2>1. lines[i] \in Line
    BY <1>1
  <2> QED BY <2>1 DEF Line
<1>3. [i \in DOMAIN lines |-> lines[i].price] \in [1..Len(lines) -> Int]
  BY <1>1, <1>2
<1>4. ASSUME NEW type
      PROVE  [i \in DOMAIN lines |-> IF lines[i].type = type THEN lines[i].price ELSE 0]
                \in [1..Len(lines) -> Int]
  BY <1>1, <1>2
<1> QED BY <1>1, <1>3, <1>4

LEMMA SumsFit ==
    ASSUME NEW lines \in Seq(Line)
    PROVE  SumOf(lines) \in Int /\ \A type : TotalOf(lines, type) \in Int
BY PricesFit, TotalType DEF SumOf, TotalOf

\* The sum of all lines is that of each type.
LEMMA TypesMakeSum ==
    ASSUME NEW lines \in Seq(Line)
    PROVE  SumOf(lines) = TotalOf(lines, "labor") + TotalOf(lines, "material") + TotalOf(lines, "other")
<1> DEFINE all == [i \in DOMAIN lines |-> lines[i].price]
           of(type) == [i \in DOMAIN lines |-> IF lines[i].type = type THEN lines[i].price ELSE 0]
<1>1. Len(lines) \in Nat /\ DOMAIN lines = 1..Len(lines) /\ all \in [1..Len(lines) -> Int]
  BY PricesFit
<1>2. /\ of("labor") \in [1..Len(lines) -> Int] /\ of("material") \in [1..Len(lines) -> Int]
      /\ of("other") \in [1..Len(lines) -> Int]
  BY PricesFit
<1>3. ASSUME NEW i \in 1..Len(lines)
      PROVE  all[i] = of("labor")[i] + of("material")[i] + of("other")[i]
  <2>1. lines[i].type \in {"labor", "material", "other"} /\ lines[i].price \in Int
    <3>1. lines[i] \in Line
      BY <1>1
    <3> QED BY <3>1 DEF Line, LineTypes
  <2>2. "labor" # "material" /\ "labor" # "other" /\ "material" # "other"
    OBVIOUS
  <2> QED BY <1>1, <2>1, <2>2
<1>4. SumOf(lines) = Total(all) /\ \A type : TotalOf(lines, type) = Total(of(type))
  BY DEF SumOf, TotalOf
<1> HIDE DEF all, of
<1>5. Total(all) = Total(of("labor")) + Total(of("material")) + Total(of("other"))
  BY <1>1, <1>2, <1>3, TotalAdds
<1> QED BY <1>4, <1>5

LEMMA SumOfNone == SumOf(<<>>) = 0
<1>1. [i \in DOMAIN <<>> |-> <<>>[i].price] \in [1..0 -> Int]
  OBVIOUS
<1> QED BY <1>1, TotalOfNone DEF SumOf

LEMMA SumOfBoth ==
    ASSUME NEW lines \in Seq(Line), NEW more \in Seq(Line)
    PROVE  lines \o more \in Seq(Line) /\ SumOf(lines \o more) = SumOf(lines) + SumOf(more)
<1> DEFINE N == Len(lines)
           M == Len(more)
           a == [i \in DOMAIN lines |-> lines[i].price]
           b == [i \in DOMAIN more |-> more[i].price]
           c == [i \in DOMAIN (lines \o more) |-> (lines \o more)[i].price]
<1>1. lines \o more \in Seq(Line) /\ Len(lines \o more) = N + M
  OBVIOUS
<1>2. N \in Nat /\ DOMAIN lines = 1..N /\ a \in [1..N -> Int]
  BY PricesFit
<1>3. M \in Nat /\ DOMAIN more = 1..M /\ b \in [1..M -> Int]
  BY PricesFit
<1>4. DOMAIN (lines \o more) = 1..(N + M) /\ c \in [1..(N + M) -> Int]
  BY <1>1, PricesFit
<1>5. ASSUME NEW k \in 1..N PROVE c[k] = a[k]
  <2>1. (lines \o more)[k] = lines[k] /\ k \in DOMAIN (lines \o more) /\ k \in DOMAIN lines
    BY <1>2, <1>3, <1>4
  <2> QED BY <2>1
<1>6. ASSUME NEW k \in 1..M PROVE c[N + k] = b[k]
  <2>1. (lines \o more)[N + k] = more[k] /\ N + k \in DOMAIN (lines \o more) /\ k \in DOMAIN more
    BY <1>2, <1>3, <1>4
  <2> QED BY <2>1
<1>7. SumOf(lines) = Total(a) /\ SumOf(more) = Total(b) /\ SumOf(lines \o more) = Total(c)
  BY DEF SumOf
<1> HIDE DEF a, b, c, N, M
<1>8. Total(c) = Total(a) + Total(b)
  BY <1>2, <1>3, <1>4, <1>5, <1>6, TotalOfBoth
<1> QED BY <1>1, <1>7, <1>8

LEMMA SumOfOne ==
    ASSUME NEW line \in Line
    PROVE  <<line>> \in Seq(Line) /\ SumOf(<<line>>) = line.price
<1> DEFINE a == [i \in DOMAIN <<line>> |-> <<line>>[i].price]
<1>1. DOMAIN <<line>> = 1..1 /\ <<line>>[1] = line /\ line.price \in Int
  BY DEF Line
<1>2. a \in [1..1 -> Int] /\ a[1] = line.price
  BY <1>1
<1> HIDE DEF a
<1>3. PICK run \in [0..1 -> Int] : run[1] = Total(a) /\ SumsOf(run, 1, a)
  BY <1>2, TotalRun, 1 \in Nat
<1>4. run[1] = run[0] + a[1] /\ run[0] = 0
  <2>1. 1 \in 1..1 /\ 1 - 1 = 0
    OBVIOUS
  <2> QED BY <1>3, <2>1 DEF SumsOf
<1>5. SumOf(<<line>>) = Total(a)
  BY DEF SumOf, a
<1> QED BY <1>1, <1>2, <1>3, <1>4, <1>5

LEMMA SumOfAppend ==
    ASSUME NEW lines \in Seq(Line), NEW line \in Line
    PROVE  Append(lines, line) \in Seq(Line) /\ SumOf(Append(lines, line)) = SumOf(lines) + line.price
<1>1. Append(lines, line) = lines \o <<line>>
  OBVIOUS
<1> QED BY <1>1, SumOfBoth, SumOfOne

\* Rounding to cents is off by half a cent at most.
LEMMA Rounds ==
    ASSUME NEW n \in Int
    PROVE  /\ Round(n, 10) \in Int /\ Round(n, 100) \in Int /\ Round(n, 1000) \in Int
           /\ n >= 0 => Round(n, 10) >= 0 /\ Round(n, 100) >= 0 /\ Round(n, 1000) >= 0
           /\ -49 <= 100 * Round(n, 100) - n /\ 100 * Round(n, 100) - n <= 50
BY DEF Round

\* An item as accepted.
Accepted(item) == item.type \in DOMAIN Profiles /\ item.values \in Acceptable[item.type]

\* Base lines, and what each adjustment makes of the lines so far, are lines.
LEMMA BasePricesFit ==
    ASSUME NEW item, Accepted(item), NEW b \in DOMAIN Books,
           NEW i \in DOMAIN ProfileOf(item).base, HasSource(ProfileOf(item).base[i], item)
    PROVE  BaseLine(ProfileOf(item).base[i], item, Books[b]) \in Line
<1> DEFINE rule == ProfileOf(item).base[i]
           quantity == item.values[rule.key]
<1>1. rule.per \in Int /\ rule.line \in LineTypes /\ rule.code \in LineCodes
  <2>1. rule.per \in Int /\ rule.line \in LineTypes
    BY PricesAreNumbers DEF Accepted, ProfileOf
  <2>2. rule.code \in LineCodes
    BY DEF Accepted, ProfileOf, LineCodes, CodesOf
  <2> QED BY <2>1, <2>2
<1>2. rule.line # "other" => quantity \in Int
  <2>1. rule.line # "other" => rule.key # "constant"
    BY PricesAreNumbers DEF Accepted, ProfileOf
  <2>2. rule.line # "other" /\ rule.key \in DOMAIN item.values => quantity \in Int
    BY PricesAreNumbers DEF Accepted, ProfileOf
  <2> QED BY <2>1, <2>2 DEF HasSource
<1>3. Books[b].hourly \in Int
  BY PricesAreNumbers
<1> HIDE DEF quantity, rule
<1>5. CASE rule.line = "labor"
  <2>1. quantity \in Int
    BY <1>2, <1>5
  <2>2. quantity * rule.per * Books[b].hourly \in Int
    BY <1>3, <1>1, <2>1, ProductType
  <2>3. BasePrice(rule, item, Books[b]) = Round(quantity * rule.per * Books[b].hourly, 10)
    BY <1>5 DEF BasePrice, quantity
  <2>4. BasePrice(rule, item, Books[b]) \in Int
    BY <2>2, <2>3, Rounds
  <2> QED BY <1>1, <2>4 DEF BaseLine, Line, rule
<1>6. CASE rule.line = "material"
  <2>1. quantity \in Int
    BY <1>2, <1>6
  <2>2. quantity * rule.per * 100 \in Int
    BY <1>1, <2>1, ProductType
  <2>3. BasePrice(rule, item, Books[b]) = quantity * rule.per * 100
    BY <1>6 DEF BasePrice, quantity
  <2> QED BY <1>1, <2>2, <2>3 DEF BaseLine, Line, rule
<1>7. CASE rule.line \notin {"labor", "material"}
  <2>1. BasePrice(rule, item, Books[b]) = rule.per * 100
    BY <1>7 DEF BasePrice
  <2>2. BasePrice(rule, item, Books[b]) \in Int
    BY <1>1, <2>1
  <2> QED BY <1>1, <2>2 DEF BaseLine, Line, rule
<1> QED BY <1>5, <1>6, <1>7

LEMMA BaseLinesFit ==
    ASSUME NEW item, Accepted(item), NEW b \in DOMAIN Books
    PROVE  BaseLines(item, Books[b]) \in Seq(Line)
<1> DEFINE rules == ProfileOf(item).base
           N == Len(rules)
           V == Seq(Line)
           With(lines, rule) ==
               IF HasSource(rule, item) THEN Append(lines, BaseLine(rule, item, Books[b])) ELSE lines
           Fits(it) == it = [s \in SUBSET (1..N) |-> IF s = {} THEN <<>> ELSE With(it[s \ {Max(s)}], rules[Max(s)])]
           C == CHOOSE it : Fits(it)
           step == [p \in (1..N) \X V |-> With(p[2], rules[p[1]])]
<1>1. N \in Nat /\ DOMAIN rules = 1..N
  BY PricesAreNumbers DEF Accepted, ProfileOf
<1>2. ASSUME NEW k \in 1..N, NEW lines \in V PROVE With(lines, rules[k]) \in V
  <2>1. CASE HasSource(rules[k], item)
    BY <1>1, <2>1, BasePricesFit, SumOfAppend
  <2>2. CASE ~HasSource(rules[k], item)
    BY <2>2
  <2> QED BY <2>1, <2>2
<1>3. BaseLines(item, Books[b]) = C[1..N]
  <2>1. BaseLines(item, Books[b]) =
          (CHOOSE it : it = [s \in SUBSET DOMAIN rules |->
              IF s = {} THEN <<>> ELSE With(it[s \ {Max(s)}], rules[Max(s)])])[DOMAIN rules]
    BY DEF BaseLines, FoldLeft, MapThenFoldSet
  <2> QED BY <1>1, <2>1
<1>4. <<>> \in V
  OBVIOUS
<1> HIDE DEF With, N, V
<1>5. step \in [(1..N) \X V -> V] /\ \A k \in 1..N, x \in V : step[<<k, x>>] = With(x, rules[k])
  BY <1>2
<1>6. \A s \in SUBSET (1..N) : s # {} => Max(s) \in 1..N /\ s \ {Max(s)} \in SUBSET (1..N)
  BY <1>1, MaxIn
<1> HIDE DEF step
<1>7. \E it : Fits(it)
  <2>1. PICK it \in [SUBSET (1..N) -> V] : FoldsAs(it, N, <<>>, step)
    BY <1>1, <1>4, <1>5, IterExists, Zenon
  <2>2. \A s \in SUBSET (1..N) : it[s] = IF s = {} THEN <<>> ELSE With(it[s \ {Max(s)}], rules[Max(s)])
    BY <1>5, <1>6, <2>1 DEF FoldsAs
  <2>3. Fits(it)
    BY <2>1, <2>2
  <2> QED BY <2>3
<1>8. Fits(C)
  <2> HIDE DEF Fits
  <2> QED BY <1>7, Zenon
<1> HIDE DEF C
<1>9. FoldsWithin(C, N, V, <<>>, step)
  BY <1>5, <1>6, <1>8 DEF FoldsWithin
<1>10. PICK run \in [0..N -> V] : run[N] = C[1..N] /\ RunsAs(run, N, <<>>, step)
  <2> HIDE DEF Fits
  <2> QED BY <1>1, <1>4, <1>5, <1>9, Unrolled
<1> QED BY <1>1, <1>3, <1>10 DEF V

LEMMA AdjustedFits ==
    ASSUME NEW item, Accepted(item), NEW i \in DOMAIN ProfileOf(item).adjustments, NEW lines \in Seq(Line)
    PROVE  Adjusted(lines, ProfileOf(item).adjustments[i]) \in Seq(Line)
<1> DEFINE rule == ProfileOf(item).adjustments[i]
           total == TotalOf(lines, rule.line)
           amount == AdjustmentAmount(rule, total)
<1>1. rule.code \in LineCodes /\ rule.line \in LineTypes /\ rule.by \in Int
  <2>1. rule.line \in LineTypes /\ rule.by \in Int
    BY PricesAreNumbers DEF Accepted, ProfileOf
  <2>2. rule.code \in LineCodes
    BY DEF Accepted, ProfileOf, LineCodes, CodesOf
  <2> QED BY <2>1, <2>2
<1>2. total \in Int
  BY SumsFit
<1> HIDE DEF rule
<1>3. amount \in Int
  <2> HIDE DEF total
  <2>1. rule.by * 100 \in Int /\ total * rule.by \in Int
    BY <1>1, <1>2, ProductType
  <2> QED BY <2>1, Rounds DEF AdjustmentAmount
<1> HIDE DEF amount
<1>4. [code |-> rule.code, type |-> rule.line, price |-> amount] \in Line
  BY <1>1, <1>3 DEF Line
<1>5. WithLine(lines, rule.code, rule.line, amount) \in Seq(Line)
  BY <1>4 DEF WithLine
<1>6. Adjusted(lines, rule) \in Seq(Line)
  BY <1>5 DEF Adjusted, amount
<1> QED BY <1>6 DEF rule

LEMMA ItemLinesFit ==
    ASSUME NEW item, Accepted(item), NEW b \in DOMAIN Books
    PROVE  ItemLines(item, Books[b]) \in Seq(Line)
<1> DEFINE rules == ProfileOf(item).adjustments
           N == Len(rules)
           V == Seq(Line)
           base == BaseLines(item, Books[b])
           With(lines, rule) == IF ConditionMatches(rule, item) THEN Adjusted(lines, rule) ELSE lines
           Fits(it) == it = [s \in SUBSET (1..N) |-> IF s = {} THEN base ELSE With(it[s \ {Max(s)}], rules[Max(s)])]
           C == CHOOSE it : Fits(it)
           step == [p \in (1..N) \X V |-> With(p[2], rules[p[1]])]
<1>1. N \in Nat /\ DOMAIN rules = 1..N
  BY PricesAreNumbers DEF Accepted, ProfileOf
<1>2. ASSUME NEW k \in 1..N, NEW lines \in V PROVE With(lines, rules[k]) \in V
  <2>1. Adjusted(lines, rules[k]) \in V
    BY <1>1, AdjustedFits
  <2> QED BY <2>1
<1>3. ItemLines(item, Books[b]) = C[1..N]
  <2>1. ItemLines(item, Books[b]) =
          (CHOOSE it : it = [s \in SUBSET DOMAIN rules |->
              IF s = {} THEN base ELSE With(it[s \ {Max(s)}], rules[Max(s)])])[DOMAIN rules]
    BY DEF ItemLines, FoldLeft, MapThenFoldSet
  <2> QED BY <1>1, <2>1
<1>4. base \in V
  BY BaseLinesFit
<1> HIDE DEF With, N, V, base
<1>5. step \in [(1..N) \X V -> V] /\ \A k \in 1..N, x \in V : step[<<k, x>>] = With(x, rules[k])
  BY <1>2
<1>6. \A s \in SUBSET (1..N) : s # {} => Max(s) \in 1..N /\ s \ {Max(s)} \in SUBSET (1..N)
  BY <1>1, MaxIn
<1> HIDE DEF step
<1>7. \E it : Fits(it)
  <2>1. PICK it \in [SUBSET (1..N) -> V] : FoldsAs(it, N, base, step)
    BY <1>1, <1>4, <1>5, IterExists, Zenon
  <2>2. \A s \in SUBSET (1..N) : it[s] = IF s = {} THEN base ELSE With(it[s \ {Max(s)}], rules[Max(s)])
    BY <1>5, <1>6, <2>1 DEF FoldsAs
  <2>3. Fits(it)
    BY <2>1, <2>2
  <2> QED BY <2>3
<1>8. Fits(C)
  <2> HIDE DEF Fits
  <2> QED BY <1>7, Zenon
<1> HIDE DEF C
<1>9. FoldsWithin(C, N, V, base, step)
  BY <1>5, <1>6, <1>8 DEF FoldsWithin
<1>10. PICK run \in [0..N -> V] : run[N] = C[1..N] /\ RunsAs(run, N, base, step)
  <2> HIDE DEF Fits
  <2> QED BY <1>1, <1>4, <1>5, <1>9, Unrolled
<1> QED BY <1>1, <1>3, <1>10 DEF V

\* The lines of an item come to the minimum price of its work type at least.
LEMMA ItemPriceFits ==
    ASSUME NEW item, Accepted(item), NEW b \in DOMAIN Books
    PROVE  /\ PriceItem(item, Books[b]) \in Seq(Line)
           /\ ProfileOf(item).minimum \in Nat
           /\ SumOf(PriceItem(item, Books[b])) >= 100 * ProfileOf(item).minimum
<1> DEFINE lines == ItemLines(item, Books[b])
           minimum == 100 * ProfileOf(item).minimum
           short == minimum - SumOf(lines)
           line == [code |-> "minimum-job-charge", type |-> "other", price |-> short]
<1>1. ProfileOf(item).minimum \in Nat /\ minimum \in Int
  BY PricesAreNumbers DEF Accepted, ProfileOf
<1>2. lines \in Seq(Line) /\ SumOf(lines) \in Int
  BY ItemLinesFit, SumsFit
<1>3. PriceItem(item, Books[b]) = ToppedUp(lines, minimum)
  BY DEF PriceItem
<1> HIDE DEF lines, minimum
<1>4. ToppedUp(lines, minimum) \in Seq(Line) /\ SumOf(ToppedUp(lines, minimum)) >= minimum
  <2>1. CASE short > 0
    <3>1. line \in Line /\ line.price = short
      <4>1. short \in Int
        BY <1>1, <1>2
      <4>2. "minimum-job-charge" \in LineCodes /\ "other" \in LineTypes
        BY DEF LineTypes, LineCodes
      <4> HIDE DEF short
      <4>3. line = [code |-> "minimum-job-charge", type |-> "other", price |-> short]
        OBVIOUS
      <4> QED BY <4>1, <4>2, <4>3 DEF Line
    <3>2. ToppedUp(lines, minimum) = Append(lines, line)
      BY <2>1 DEF ToppedUp, WithLine
    <3> HIDE DEF line
    <3>3. Append(lines, line) \in Seq(Line) /\ SumOf(Append(lines, line)) = SumOf(lines) + short
      BY <1>2, <3>1, SumOfAppend
    <3> QED BY <1>1, <1>2, <3>2, <3>3
  <2>2. CASE ~(short > 0)
    <3>1. ToppedUp(lines, minimum) = lines
      BY <2>2 DEF ToppedUp
    <3> QED BY <1>1, <1>2, <2>2, <3>1
  <2> QED BY <2>1, <2>2
<1> QED BY <1>1, <1>3, <1>4 DEF minimum


\* The list an item is priced by exists.
LEMMA BooksFit ==
    ASSUME QuotesTypes, NEW default \in defaults, NEW i \in DOMAIN items
    PROVE  /\ Accepted(items[i]) /\ default \in DOMAIN Books
           /\ \E b \in DOMAIN Books : BookOf(i, default) = Books[b]
<1>1. default \in DOMAIN Books /\ books \subseteq DOMAIN Books
  BY DEF QuotesTypes, QuotesTypeOK
<1>2. items[i].book \in books \cup {NoBook}
  BY DEF QuotesTypes, QuotesTypeOK
<1>3. Accepted(items[i])
  BY DEF QuotesTypes, QuotesTypeOK, Accepted
<1> QED BY <1>1, <1>2, <1>3 DEF BookOf

\* The minimum prices are numbers, and those of items not priced are zero.
LEMMA MinimaFit ==
    ASSUME QuotesTypes, NEW priced
    PROVE  /\ Len(items) \in Nat /\ DOMAIN items = 1..Len(items)
           /\ MinimaOf(priced) \in [1..Len(items) -> Int]
           /\ \A i \in DOMAIN items : MinimaOf(priced)[i] >= 0
           /\ 0 <= Total(MinimaOf(priced))
<1>1. Len(items) \in Nat /\ DOMAIN items = 1..Len(items)
  BY DEF QuotesTypes
<1>2. ASSUME NEW i \in DOMAIN items PROVE ProfileOf(items[i]).minimum \in Nat
  <2>1. items[i].type \in DOMAIN Profiles
    BY DEF QuotesTypes, QuotesTypeOK
  <2> QED BY <2>1, PricesAreNumbers DEF ProfileOf
<1>3. \A i \in DOMAIN items : MinimaOf(priced)[i] \in Int /\ MinimaOf(priced)[i] >= 0
  BY <1>2 DEF MinimaOf
<1>4. MinimaOf(priced) \in [1..Len(items) -> Int]
  BY <1>1, <1>3 DEF MinimaOf
<1> DEFINE N == Len(items)
           a == MinimaOf(priced)
<1>5. PICK run \in [0..N -> Int] : run[N] = Total(a) /\ SumsOf(run, N, a)
  BY <1>1, <1>4, TotalRun
<1> DEFINE P == {k \in 0..N : 0 <= run[k]}
<1> HIDE DEF N, a
<1>6. 0 \in P
  BY <1>1, <1>5 DEF SumsOf, N
<1>7. ASSUME NEW k \in 0..(N - 1), k \in P PROVE k + 1 \in P
  <2>1. k + 1 \in 1..N /\ (k + 1) - 1 = k /\ k + 1 \in 0..N /\ k \in 0..N
    BY <1>1 DEF N
  <2>2. run[k + 1] = run[k] + a[k + 1]
    BY <1>5, <2>1 DEF SumsOf
  <2>3. a[k + 1] \in Int /\ a[k + 1] >= 0
    BY <1>1, <1>3, <2>1 DEF N, a
  <2>4. run[k] \in Int /\ run[k] >= 0
    BY <1>7, <2>1
  <2> QED BY <2>1, <2>2, <2>3, <2>4
<1>8. N \in P
  <2> HIDE DEF P
  <2>1. N \in Nat
    BY <1>1 DEF N
  <2>2. 0..N \subseteq P
    BY <1>6, <1>7, <2>1, SetInduction
  <2> QED BY <2>1, <2>2
<1>9. 0 <= Total(a)
  BY <1>5, <1>8
<1> QED BY <1>1, <1>3, <1>4, <1>9 DEF a

\* The lines of a quote from items come to the minimum prices of these items.
LEMMA PricedLinesFit ==
    ASSUME QuotesTypes, NEW default \in defaults
    PROVE  /\ PricedLines(default) \in Seq(Line)
           /\ SumOf(PricedLines(default)) >= Total(MinimaOf(Priceable))
<1> DEFINE ids == [i \in DOMAIN items |-> i]
           N == Len(items)
           V == Seq(Line)
           priceOf(i) == PriceItem(items[i], BookOf(i, default))
           With(lines, i) == IF i \in Priceable THEN lines \o priceOf(i) ELSE lines
           Fits(it) == it = [s \in SUBSET (1..N) |-> IF s = {} THEN <<>> ELSE With(it[s \ {Max(s)}], ids[Max(s)])]
           C == CHOOSE it : Fits(it)
           step == [p \in (1..N) \X V |-> With(p[2], p[1])]
           a == MinimaOf(Priceable)
<1>1. N \in Nat /\ DOMAIN ids = 1..N /\ DOMAIN items = 1..N /\ \A i \in 1..N : ids[i] = i
  BY MinimaFit
<1>2. ASSUME NEW i \in 1..N
      PROVE  priceOf(i) \in V /\ SumOf(priceOf(i)) \in Int /\ SumOf(priceOf(i)) >= 100 * ProfileOf(items[i]).minimum
  <2>1. PICK b \in DOMAIN Books : BookOf(i, default) = Books[b]
    BY <1>1, BooksFit
  <2>2. Accepted(items[i])
    BY <1>1, BooksFit
  <2> QED BY <2>1, <2>2, ItemPriceFits, SumsFit
<1>3. PricedLines(default) = C[1..N]
  <2>1. PricedLines(default) =
          (CHOOSE it : it = [s \in SUBSET DOMAIN ids |->
              IF s = {} THEN <<>> ELSE With(it[s \ {Max(s)}], ids[Max(s)])])[DOMAIN ids]
    BY DEF PricedLines, FoldLeft, MapThenFoldSet
  <2> QED BY <1>1, <2>1
<1>4. <<>> \in V
  OBVIOUS
<1> HIDE DEF priceOf, N, V, ids
<1>5. ASSUME NEW k \in 1..N, NEW lines \in V
      PROVE  /\ With(lines, k) \in V
             /\ k \in Priceable => SumOf(With(lines, k)) = SumOf(lines) + SumOf(priceOf(k))
             /\ k \notin Priceable => With(lines, k) = lines
  BY <1>2, SumOfBoth DEF V
<1> HIDE DEF With
<1>6. step \in [(1..N) \X V -> V] /\ \A k \in 1..N, x \in V : step[<<k, x>>] = With(x, k)
  BY <1>5
<1>7. \A s \in SUBSET (1..N) :
          s # {} => Max(s) \in 1..N /\ s \ {Max(s)} \in SUBSET (1..N) /\ ids[Max(s)] = Max(s)
  BY <1>1, MaxIn
<1> HIDE DEF step
<1>8. \E it : Fits(it)
  <2>1. PICK it \in [SUBSET (1..N) -> V] : FoldsAs(it, N, <<>>, step)
    BY <1>1, <1>4, <1>6, IterExists, Zenon
  <2>2. ASSUME NEW s \in SUBSET (1..N)
        PROVE  it[s] = IF s = {} THEN <<>> ELSE With(it[s \ {Max(s)}], ids[Max(s)])
    <3>1. CASE s = {}
      BY <2>1, <3>1 DEF FoldsAs
    <3>2. CASE s # {}
      <4>1. it[s] = step[<<Max(s), it[s \ {Max(s)}]>>]
        BY <2>1, <3>2 DEF FoldsAs
      <4>2. Max(s) \in 1..N /\ it[s \ {Max(s)}] \in V /\ ids[Max(s)] = Max(s)
        BY <1>7, <2>1, <3>2
      <4> QED BY <1>6, <3>2, <4>1, <4>2
    <3> QED BY <3>1, <3>2
  <2>3. Fits(it)
    BY <2>1, <2>2
  <2> QED BY <2>3
<1>9. Fits(C)
  <2> HIDE DEF Fits
  <2> QED BY <1>8, Zenon
<1> HIDE DEF C
<1>10. FoldsWithin(C, N, V, <<>>, step)
  <2>1. C[{}] = <<>>
    BY <1>9
  <2>2. ASSUME NEW s \in SUBSET (1..N), s # {}, C[s \ {Max(s)}] \in V
        PROVE  C[s] = step[<<Max(s), C[s \ {Max(s)}]>>]
    <3>1. C[s] = With(C[s \ {Max(s)}], ids[Max(s)])
      BY <1>9, <2>2
    <3>2. Max(s) \in 1..N /\ ids[Max(s)] = Max(s)
      BY <1>7, <2>2
    <3> QED BY <1>6, <2>2, <3>1, <3>2
  <2> QED BY <2>1, <2>2 DEF FoldsWithin
<1>11. PICK run \in [0..N -> V] : run[N] = C[1..N] /\ RunsAs(run, N, <<>>, step)
  <2> HIDE DEF Fits
  <2> QED BY <1>1, <1>4, <1>6, <1>10, Unrolled
<1>12. a \in [1..N -> Int] /\ \A i \in 1..N : a[i] = IF i \in Priceable THEN 100 * ProfileOf(items[i]).minimum ELSE 0
  <2>1. a \in [1..N -> Int]
    BY MinimaFit DEF N
  <2> QED BY <1>1, <2>1 DEF MinimaOf
<1> HIDE DEF a, Fits
<1>13. PICK sums \in [0..N -> Int] : sums[N] = Total(a) /\ SumsOf(sums, N, a)
  BY <1>1, <1>12, TotalRun
<1> DEFINE P == {k \in 0..N : SumOf(run[k]) >= sums[k]}
<1>14. 0 \in P
  <2>1. run[0] = <<>> /\ sums[0] = 0 /\ 0 \in 0..N
    BY <1>1, <1>11, <1>13 DEF RunsAs, SumsOf
  <2> QED BY <2>1, SumOfNone
<1>15. ASSUME NEW k \in 0..(N - 1), k \in P PROVE k + 1 \in P
  <2>1. k + 1 \in 1..N /\ (k + 1) - 1 = k /\ k + 1 \in 0..N /\ k \in 0..N
    BY <1>1
  <2>2. run[k] \in V /\ run[k + 1] = With(run[k], k + 1)
    BY <1>6, <1>11, <2>1 DEF RunsAs
  <2>3. sums[k + 1] = sums[k] + a[k + 1] /\ sums[k] \in Int /\ a[k + 1] \in Int
    BY <1>12, <1>13, <2>1 DEF SumsOf
  <2>4. SumOf(run[k]) \in Int /\ SumOf(run[k]) >= sums[k]
    BY <1>15, <2>2, SumsFit DEF V
  <2>5. SumOf(run[k + 1]) >= sums[k + 1]
    <3>1. CASE k + 1 \in Priceable
      <4>1. SumOf(run[k + 1]) = SumOf(run[k]) + SumOf(priceOf(k + 1))
        BY <1>5, <2>1, <2>2, <3>1
      <4>2. SumOf(priceOf(k + 1)) \in Int /\ SumOf(priceOf(k + 1)) >= a[k + 1]
        BY <1>2, <1>12, <2>1, <3>1
      <4> QED BY <2>3, <2>4, <4>1, <4>2
    <3>2. CASE k + 1 \notin Priceable
      <4>1. run[k + 1] = run[k] /\ a[k + 1] = 0
        BY <1>5, <1>12, <2>1, <2>2, <3>2
      <4> QED BY <2>3, <2>4, <4>1
    <3> QED BY <3>1, <3>2
  <2> QED BY <2>1, <2>5
<1>16. N \in P
  <2> HIDE DEF P
  <2>1. 0..N \subseteq P
    BY <1>1, <1>14, <1>15, SetInduction
  <2> QED BY <1>1, <2>1
<1>17. SumOf(run[N]) >= sums[N] /\ run[N] \in V
  BY <1>16
<1> QED BY <1>3, <1>11, <1>13, <1>17 DEF V, a

\* The margin of a tier and the tax only add.
LEMMA VariantFits ==
    ASSUME NEW labor \in Int, NEW material \in Int, NEW other \in Int, labor + material + other >= 0,
           NEW lines, NEW margin \in Nat, NEW b \in DOMAIN Books, NEW v,
           v = Variant([labor |-> labor, material |-> material, other |-> other], lines, margin, Books[b])
    PROVE  /\ v.labor = labor /\ v.material = material /\ v.other = other /\ v.lines = lines
           /\ v.exVat >= labor + material + other /\ v.incVat = v.exVat + v.vat
<1> DEFINE subtotal == labor + material + other
           added == Round(subtotal * margin, 100)
           exVat == subtotal + added
           tax == Round(exVat * Books[b].vat, 100)
<1>1. subtotal \in Nat
  OBVIOUS
<1>2. added \in Int /\ added >= 0
  <2>1. subtotal * margin \in Int /\ subtotal * margin >= 0
    <3> HIDE DEF subtotal
    <3> QED BY <1>1, ProductPositive
  <2> HIDE DEF subtotal
  <2> QED BY <2>1, Rounds
<1>3. v = [labor |-> labor, material |-> material, other |-> other, exVat |-> exVat, vat |-> tax,
           incVat |-> exVat + tax, lines |-> lines]
  BY DEF Variant
<1> HIDE DEF added, tax
<1> QED BY <1>1, <1>2, <1>3

\* A quote from items is made of their lines, with the margin of its tier.
LEMMA ItemsAddUp ==
    ASSUME QuotesTypes, NEW default \in defaults, QuoteFromItems(default)
    PROVE  QuoteAddsUp' /\ quote'.priced \subseteq DOMAIN items
<1> DEFINE lines == PricedLines(default)
           costs == CostsOf(lines)
           v(t) == quote'.variants[t]
<1>1. /\ quote'.source = "items" /\ quote'.priced = Priceable
      /\ quote'.variants = BuildVariants(lines, Books[default])
      /\ items' = items
  BY DEF QuoteFromItems
<1>2. lines \in Seq(Line) /\ SumOf(lines) >= Total(MinimaOf(Priceable)) /\ default \in DOMAIN Books
  <2>1. default \in DOMAIN Books
    BY DEF QuotesTypes, QuotesTypeOK
  <2> QED BY <2>1, PricedLinesFit
<1>3. 0 <= Total(MinimaOf(Priceable)) /\ Total(MinimaOf(Priceable)) \in Int
  BY MinimaFit, TotalType
<1>4. /\ costs.labor \in Int /\ costs.material \in Int /\ costs.other \in Int
      /\ SumOf(lines) = costs.labor + costs.material + costs.other /\ SumOf(lines) \in Int
  BY <1>2, SumsFit, TypesMakeSum DEF CostsOf
<1>5. costs = [labor |-> costs.labor, material |-> costs.material, other |-> costs.other]
  BY DEF CostsOf
<1> HIDE DEF lines, costs
<1>6. DOMAIN quote'.variants = 1..3 /\ \A t \in 1..3 : v(t) = Variant(costs, lines, Books[default].margins[t], Books[default])
  BY <1>1 DEF BuildVariants, Tiers, costs
<1> HIDE DEF v
<1>7. ASSUME NEW t \in 1..3
      PROVE  /\ v(t).labor = costs.labor /\ v(t).material = costs.material /\ v(t).other = costs.other
             /\ v(t).lines = lines /\ v(t).exVat >= costs.labor + costs.material + costs.other
             /\ v(t).incVat = v(t).exVat + v(t).vat
  <2>1. Books[default].margins[t] \in Nat
    <3>1. Books[default].margins \in [1..3 -> Nat]
      BY <1>2, PricesAreNumbers DEF Tiers
    <3> QED BY <3>1
  <2>2. v(t) = Variant([labor |-> costs.labor, material |-> costs.material, other |-> costs.other], lines,
                       Books[default].margins[t], Books[default])
    BY <1>5, <1>6
  <2>3. costs.labor + costs.material + costs.other >= 0
    BY <1>2, <1>3, <1>4
  <2> DEFINE labor == costs.labor
             material == costs.material
             other == costs.other
             margin == Books[default].margins[t]
  <2>4. /\ labor \in Int /\ material \in Int /\ other \in Int /\ labor + material + other >= 0
        /\ margin \in Nat
        /\ v(t) = Variant([labor |-> labor, material |-> material, other |-> other], lines, margin, Books[default])
    BY <1>4, <2>1, <2>2, <2>3
  <2> HIDE DEF labor, material, other, margin
  <2>5. /\ v(t).labor = labor /\ v(t).material = material /\ v(t).other = other /\ v(t).lines = lines
        /\ v(t).exVat >= labor + material + other /\ v(t).incVat = v(t).exVat + v(t).vat
    BY <1>2, <2>4, VariantFits
  <2> QED BY <2>5 DEF labor, material, other
<1>8. MinimaOf(quote.priced)' = MinimaOf(Priceable)
  BY <1>1 DEF MinimaOf
<1>9. ASSUME NEW t \in 1..3
      PROVE  LET w == quote'.variants[t]
                 sum == w.labor + w.material + w.other
             IN  /\ w.exVat >= sum /\ w.incVat = w.exVat + w.vat
                 /\ SumOf(w.lines) = sum /\ sum >= Total(MinimaOf(quote.priced)')
                 /\ w.lines = quote'.variants[1].lines
  <2>1. 1 \in 1..3
    OBVIOUS
  <2>2. v(1).lines = lines
    BY <1>7, <2>1
  <2> QED BY <1>2, <1>3, <1>4, <1>7, <1>8, <2>2 DEF v
<1>10. Priceable \subseteq DOMAIN items
  BY DEF Priceable
<1>11. quote'.source # "analysis"
  BY <1>1
<1> QED BY <1>1, <1>6, <1>9, <1>10, <1>11 DEF QuoteAddsUp

\* In a variant from an analysis, rounding the materials one by one and together
\* differ by half a cent for each.
LEMMA FallbackAddsUp ==
    ASSUME analysis \in Analyses, NEW b \in DOMAIN Books, NEW t \in 1..3, NEW v,
           v = FallbackVariant(t, Books[b])
    PROVE  LET sum == v.labor + v.material + v.other
           IN  /\ v.exVat >= sum /\ v.incVat = v.exVat + v.vat
               /\ 2 * (SumOf(v.lines) - sum) \in -Len(v.lines)..Len(v.lines)
<1> DEFINE n == Len(analysis.materials)
           area == analysis.area
           totals == [i \in DOMAIN analysis.materials |-> MaterialTotal(analysis.materials[i], area)]
           base == Total(totals)
           f == MaterialFactor[t]
           rounded == [i \in 1..n |-> Round(totals[i] * f, 100)]
           labor == Round(area * Books[b].hours * Books[b].hourly * LaborFactor[t], 1000)
           material == Round(base * f, 100)
           other == 3500 * OtherFactor[t]
           materials == [i \in DOMAIN totals |->
               [code |-> "material", type |-> "material", price |-> Round(totals[i] * f, 100)]]
           laborLine == [code |-> "labor", type |-> "labor", price |-> labor]
           otherLine == [code |-> "other", type |-> "other", price |-> other]
           lines == <<laborLine>> \o materials \o <<otherLine>>
<1>1. /\ area \in Nat /\ n \in Nat /\ DOMAIN analysis.materials = 1..n
      /\ analysis.materials \in Seq([norm : Nat, price : Nat])
  <2>1. area \in Nat /\ analysis.materials \in Seq([norm : Nat, price : Nat])
    BY PricesAreNumbers
  <2> QED BY <2>1
<1>2. ASSUME NEW i \in 1..n PROVE totals[i] \in Int /\ totals[i] >= 0
  <2>1. analysis.materials[i].norm \in Nat /\ analysis.materials[i].price \in Nat
    <3> DEFINE Materials == [norm : Nat, price : Nat]
               all == analysis.materials
    <3>1. all \in Seq(Materials) /\ i \in DOMAIN all
      BY <1>1
    <3> HIDE DEF Materials, all
    <3>2. all[i] \in Materials
      BY <3>1
    <3> QED BY <3>2 DEF Materials, all
  <2>2. area * analysis.materials[i].norm \in Nat
    BY <1>1, <2>1, ProductPositive
  <2>3. area * analysis.materials[i].norm * analysis.materials[i].price \in Nat
    BY <2>1, <2>2, ProductPositive
  <2>4. totals[i] = Round(area * analysis.materials[i].norm * analysis.materials[i].price, 10)
    BY <1>1 DEF MaterialTotal
  <2> HIDE DEF totals
  <2> QED BY <2>3, <2>4, Rounds
<1>3. totals \in [1..n -> Int]
  BY <1>1, <1>2
<1>4. f \in Nat /\ LaborFactor[t] \in Nat /\ OtherFactor[t] \in Nat
  BY DEF MaterialFactor, LaborFactor, OtherFactor
<1>5. Books[b].hourly \in Nat /\ Books[b].hours \in Nat /\ Books[b].margins[t] \in Nat
  <2>1. Books[b].hourly \in Nat /\ Books[b].hours \in Nat /\ Books[b].margins \in [1..3 -> Nat]
    BY PricesAreNumbers DEF Tiers
  <2> QED BY <2>1
<1>6. labor \in Int /\ labor >= 0
  <2>1. area * Books[b].hours * Books[b].hourly * LaborFactor[t] \in Nat
    <3>1. area * Books[b].hours \in Nat
      BY <1>1, <1>5, ProductPositive
    <3>2. area * Books[b].hours * Books[b].hourly \in Nat
      BY <1>5, <3>1, ProductPositive
    <3> QED BY <1>4, <3>2, ProductPositive
  <2> QED BY <2>1, Rounds
<1>7. other \in Int /\ other >= 0
  BY <1>4
<1> HIDE DEF totals, f, labor, other
<1>8. base \in Int /\ base >= 0
  <2>1. base \in Int
    BY <1>1, <1>3, TotalType
  <2>2. PICK run \in [0..n -> Int] : run[n] = base /\ SumsOf(run, n, totals)
    BY <1>1, <1>3, TotalRun
  <2> DEFINE P == {k \in 0..n : run[k] >= 0}
  <2> HIDE DEF n
  <2>3. 0 \in P
    BY <1>1, <2>2 DEF SumsOf
  <2>4. ASSUME NEW k \in 0..(n - 1), k \in P PROVE k + 1 \in P
    <3>1. k + 1 \in 1..n /\ (k + 1) - 1 = k /\ k \in 0..n /\ k + 1 \in 0..n
      BY <1>1
    <3>2. run[k + 1] = run[k] + totals[k + 1]
      BY <2>2, <3>1 DEF SumsOf
    <3> QED BY <1>2, <2>4, <3>1, <3>2
  <2>5. 0..n \subseteq P
    <3> HIDE DEF P
    <3> QED BY <1>1, <2>3, <2>4, SetInduction
  <2>6. n \in 0..n
    BY <1>1
  <2> QED BY <2>1, <2>2, <2>5, <2>6
<1> HIDE DEF base
<1>9. material \in Int /\ material >= 0 /\ -49 <= 100 * material - base * f /\ 100 * material - base * f <= 50
  <2>1. base * f \in Nat
    BY <1>4, <1>8, ProductPositive
  <2> QED BY <2>1, Rounds
<1>10. ASSUME NEW i \in 1..n
       PROVE  /\ rounded[i] \in Int
              /\ -49 <= 100 * rounded[i] - f * totals[i] /\ 100 * rounded[i] - f * totals[i] <= 50
  <2>1. totals[i] * f \in Int /\ totals[i] * f = f * totals[i]
    BY <1>2, <1>4, ProductType
  <2>2. rounded[i] = Round(totals[i] * f, 100)
    OBVIOUS
  <2> HIDE DEF rounded
  <2> DEFINE x == totals[i] * f
  <2>3. x \in Int /\ rounded[i] = Round(x, 100) /\ f * totals[i] = x
    BY <2>1, <2>2
  <2> HIDE DEF x
  <2>4. Round(x, 100) \in Int /\ -49 <= 100 * Round(x, 100) - x /\ 100 * Round(x, 100) - x <= 50
    BY <2>3 DEF Round
  <2> QED BY <2>3, <2>4
<1> HIDE DEF material
<1>11. rounded \in [1..n -> Int]
  BY <1>10
<1> HIDE DEF rounded
<1>12. Total(rounded) \in Int /\ -49 * n <= 100 * Total(rounded) - f * base /\ 100 * Total(rounded) - f * base <= 50 * n
  <2>1. Total(rounded) \in Int
    BY <1>1, <1>11, TotalType
  <2> DEFINE low == -49
             high == 50
             cent == 100
  <2>2. cent \in Nat /\ low \in Int /\ high \in Int
    OBVIOUS
  <2>3. low * n <= cent * Total(rounded) - f * Total(totals) /\ cent * Total(rounded) - f * Total(totals) <= high * n
    <3>1. \A k \in 1..n : low <= cent * rounded[k] - f * totals[k] /\ cent * rounded[k] - f * totals[k] <= high
      BY <1>10
    <3> HIDE DEF low, high, cent, n
    <3> QED BY <1>1, <1>3, <1>4, <1>11, <2>2, <3>1, TotalCompares
  <2> QED BY <2>1, <2>3 DEF base
<1>13. laborLine \in Line /\ otherLine \in Line /\ laborLine.price = labor /\ otherLine.price = other
  <2>1. "labor" \in LineCodes \cap LineTypes /\ "other" \in LineCodes \cap LineTypes
    BY DEF LineCodes, LineTypes
  <2> QED BY <1>6, <1>7, <2>1 DEF Line
<1>14. materials \in Seq(Line) /\ Len(materials) = n /\ SumOf(materials) = Total(rounded)
  <2>1. DOMAIN totals = 1..n
    BY <1>3
  <2>2. "material" \in LineCodes \cap LineTypes
    BY DEF LineCodes, LineTypes
  <2>3. ASSUME NEW i \in 1..n PROVE materials[i] \in Line /\ materials[i].price = rounded[i]
    <3>1. materials[i] = [code |-> "material", type |-> "material", price |-> rounded[i]]
      BY <2>1 DEF rounded
    <3> HIDE DEF materials
    <3> QED BY <1>10, <2>2, <3>1 DEF Line
  <2>4. materials = [i \in 1..n |-> materials[i]]
    BY <2>1
  <2> HIDE DEF materials
  <2>5. materials \in Seq(Line) /\ Len(materials) = n
    <3> HIDE DEF n
    <3>1. materials \in [1..n -> Line]
      BY <2>3, <2>4
    <3> QED BY <1>1, <3>1
  <2>6. [i \in DOMAIN materials |-> materials[i].price] = rounded
    BY <1>11, <2>3, <2>4
  <2> QED BY <2>5, <2>6 DEF SumOf
<1> HIDE DEF laborLine, otherLine, materials
<1>15. SumOf(lines) = labor + Total(rounded) + other /\ Len(lines) = n + 2
  <2>1. <<laborLine>> \in Seq(Line) /\ SumOf(<<laborLine>>) = labor /\ <<otherLine>> \in Seq(Line) /\ SumOf(<<otherLine>>) = other
    BY <1>13, SumOfOne
  <2>2. <<laborLine>> \o materials \in Seq(Line) /\ SumOf(<<laborLine>> \o materials) = labor + Total(rounded)
    BY <1>14, <2>1, SumOfBoth
  <2>3. SumOf(lines) = labor + Total(rounded) + other
    BY <2>1, <2>2, SumOfBoth
  <2>4. Len(lines) = n + 2
    BY <1>1, <1>14, <2>1
  <2> QED BY <2>3, <2>4
<1>16. v = Variant([labor |-> labor, material |-> material, other |-> other], lines, Books[b].margins[t], Books[b])
  BY <1>1 DEF FallbackVariant, labor, material, other, lines, laborLine, otherLine, materials, totals, base, f
<1> HIDE DEF lines, n
<1>17. /\ v.labor = labor /\ v.material = material /\ v.other = other /\ v.lines = lines
       /\ v.exVat >= labor + material + other /\ v.incVat = v.exVat + v.vat
  <2>1. labor + material + other >= 0
    BY <1>6, <1>7, <1>9
  <2> QED BY <1>5, <1>6, <1>7, <1>9, <1>16, <2>1, VariantFits
<1>18. 2 * (SumOf(lines) - (labor + material + other)) \in -Len(lines)..Len(lines)
  <2> DEFINE fb == f * base
             r == Total(rounded)
  <2>1. base * f = fb /\ fb \in Int
    BY <1>4, <1>8, ProductType
  <2>2. -49 * n <= 100 * r - fb /\ 100 * r - fb <= 50 * n /\ r \in Int
    BY <1>12
  <2>3. -49 <= 100 * material - fb /\ 100 * material - fb <= 50
    BY <1>9, <2>1
  <2>4. SumOf(lines) = labor + r + other
    BY <1>15
  <2> HIDE DEF fb, r
  <2>5. SumOf(lines) - (labor + material + other) = r - material
    BY <1>6, <1>7, <1>9, <2>2, <2>4
  <2>6. -(n + 2) <= 2 * (r - material) /\ 2 * (r - material) <= n + 2
    BY <1>1, <1>9, <2>1, <2>2, <2>3
  <2> QED BY <1>1, <1>9, <1>15, <2>2, <2>5, <2>6
<1> QED BY <1>17, <1>18

\* The inductive invariant of the quote: a stored quote adds up, and it prices items
\* there are.
QuoteInv == QuotesTypes /\ QuoteAddsUp /\ quote.priced \subseteq DOMAIN items

LEMMA QuoteInvInitially == QuotesInit => QuoteInv
<1>1. QuotesInit => QuotesTypes
  BY QuotesTypesInitially
<1>2. ASSUME QuotesInit PROVE QuoteAddsUp /\ quote.priced \subseteq DOMAIN items
  BY <1>2 DEF QuotesInit, NoQuote, QuoteAddsUp
<1> QED BY <1>1, <1>2 DEF QuoteInv

\* A quote is as good as it was while the items it prices keep their minimum prices.
LEMMA QuoteKept ==
    ASSUME QuoteInv, quote' = quote, DOMAIN items \subseteq DOMAIN items',
           Total(MinimaOf(quote.priced)') = Total(MinimaOf(quote.priced))
    PROVE  QuoteAddsUp' /\ quote'.priced \subseteq DOMAIN items'
<1>1. quote'.priced \subseteq DOMAIN items'
  BY DEF QuoteInv
<1>2. QuoteAddsUp
  BY DEF QuoteInv
<1>3. QuoteAddsUp'
  BY <1>2 DEF QuoteAddsUp
<1> QED BY <1>1, <1>3

LEMMA QuoteStep == ASSUME QuoteInv, [QuotesNext]_quoteVars PROVE QuoteInv'
<1>1. QuotesTypes /\ quote.priced \subseteq DOMAIN items
  BY DEF QuoteInv
<1>2. QuotesTypes'
  BY <1>1, QuotesTypesStep
<1>3. ASSUME quote' = quote, items' = items PROVE QuoteInv'
  <2>1. MinimaOf(quote.priced)' = MinimaOf(quote.priced)
    BY <1>3 DEF MinimaOf
  <2>2. QuoteAddsUp' /\ quote'.priced \subseteq DOMAIN items'
    BY <1>3, <2>1, QuoteKept
  <2> QED BY <1>2, <2>2 DEF QuoteInv
<1>4. ASSUME NEW item \in ItemsTried, AcceptItem(item) PROVE QuoteInv'
  <2> DEFINE N == Len(items)
             a == MinimaOf(quote.priced)
             c == MinimaOf(quote.priced)'
             none == [i \in 1..1 |-> 0]
  <2>1. quote' = quote /\ items' = Append(items, item)
    BY <1>4 DEF AcceptItem
  <2>2. N \in Nat /\ DOMAIN items = 1..N /\ a \in [1..N -> Int]
    BY <1>1, MinimaFit
  <2>3. items' \in Seq(CaseItem(books)') /\ Len(items') = N + 1 /\ DOMAIN items' = 1..(N + 1)
    <3>1. items' \in Seq(CaseItem(books)')
      BY <1>2 DEF QuotesTypes
    <3>2. Len(items') = N + 1
      BY <1>1, <2>1 DEF QuotesTypes
    <3> QED BY <2>1, <2>2, <3>1, <3>2
  <2>4. \A i \in 1..N : c[i] = a[i]
    <3>1. \A i \in 1..N : items'[i] = items[i] /\ i \in DOMAIN items' /\ i \in DOMAIN items
      BY <2>1, <2>2, <2>3
    <3> QED BY <2>1, <3>1 DEF MinimaOf, ProfileOf
  <2>5. c[N + 1] = 0
    <3>1. N + 1 \notin quote.priced /\ N + 1 \in DOMAIN items'
      BY <1>1, <2>2, <2>3
    <3> QED BY <2>1, <3>1 DEF MinimaOf
  <2>6. c \in [1..(N + 1) -> Int]
    <3>1. c = [i \in 1..(N + 1) |-> c[i]]
      BY <2>3 DEF MinimaOf
    <3>2. ASSUME NEW i \in 1..(N + 1) PROVE c[i] \in Int
      <4>1. i \in 1..N \/ i = N + 1
        BY <2>2
      <4> HIDE DEF a, c
      <4> QED BY <2>2, <2>4, <2>5, <4>1
    <3> HIDE DEF c
    <3> QED BY <3>1, <3>2
  <2>7. none \in [1..1 -> Int] /\ \A k \in 1..1 : none[k] = 0
    OBVIOUS
  <2> HIDE DEF a, c, none, N
  <2>8. Total(none) = 0
    <3>1. PICK run \in [0..1 -> Int] : run[1] = Total(none) /\ SumsOf(run, 1, none)
      BY <2>7, TotalRun, 1 \in Nat
    <3>2. run[1] = run[0] + none[1] /\ run[0] = 0
      <4>1. 1 \in 1..1 /\ 1 - 1 = 0
        OBVIOUS
      <4> QED BY <3>1, <4>1 DEF SumsOf
    <3> QED BY <2>7, <3>1, <3>2
  <2>9. Total(c) = Total(a) + Total(none)
    <3> DEFINE one == 1
    <3>1. /\ one \in Nat /\ none \in [1..one -> Int] /\ c \in [1..(N + one) -> Int]
          /\ \A k \in 1..one : c[N + k] = none[k]
      BY <2>5, <2>6, <2>7
    <3> HIDE DEF one
    <3> QED BY <2>2, <2>4, <3>1, TotalOfBoth
  <2>10. Total(a) \in Int
    BY <2>2, TotalType
  <2>11. Total(MinimaOf(quote.priced)') = Total(MinimaOf(quote.priced))
    BY <2>8, <2>9, <2>10 DEF a, c
  <2>12. DOMAIN items \subseteq DOMAIN items'
    BY <2>2, <2>3
  <2>13. QuoteAddsUp' /\ quote'.priced \subseteq DOMAIN items'
    BY <2>1, <2>11, <2>12, QuoteKept
  <2> QED BY <1>2, <2>13 DEF QuoteInv
<1>5. ASSUME NEW i \in DOMAIN items, RetireProfile(i) PROVE QuoteInv'
  <2>1. quote' = quote /\ items' = [items EXCEPT ![i].profile = "retired"]
    BY <1>5 DEF RetireProfile
  <2>2. DOMAIN items' = DOMAIN items /\ \A j \in DOMAIN items : items'[j].type = items[j].type
    BY <2>1
  <2>3. MinimaOf(quote.priced)' = MinimaOf(quote.priced)
    BY <2>1, <2>2 DEF MinimaOf, ProfileOf
  <2>4. QuoteAddsUp' /\ quote'.priced \subseteq DOMAIN items'
    BY <2>1, <2>2, <2>3, QuoteKept
  <2> QED BY <1>2, <2>4 DEF QuoteInv
<1>6. ASSUME NEW default \in defaults, QuoteFromItems(default) PROVE QuoteInv'
  <2>1. QuoteAddsUp' /\ quote'.priced \subseteq DOMAIN items
    BY <1>1, <1>6, ItemsAddUp
  <2>2. items' = items
    BY <1>6 DEF QuoteFromItems
  <2> QED BY <1>2, <2>1, <2>2 DEF QuoteInv
<1>7. ASSUME NEW default \in defaults, QuoteFromAnalysis(default) PROVE QuoteInv'
  <2>1. /\ quote'.source = "analysis" /\ quote'.priced = {}
        /\ DOMAIN quote'.variants = 1..3
        /\ \A t \in 1..3 : quote'.variants[t] = FallbackVariant(t, Books[default])
    BY <1>7 DEF QuoteFromAnalysis, Tiers
  <2>2. analysis \in Analyses /\ default \in DOMAIN Books
    BY <1>1, <1>7 DEF QuoteFromAnalysis, Measured, QuotesTypes, QuotesTypeOK
  <2>3. \A t \in 1..3 :
            LET v == quote'.variants[t]
                sum == v.labor + v.material + v.other
            IN  /\ v.exVat >= sum /\ v.incVat = v.exVat + v.vat
                /\ 2 * (SumOf(v.lines) - sum) \in -Len(v.lines)..Len(v.lines)
    BY <2>1, <2>2, FallbackAddsUp
  <2>4. quote'.source # "items"
    BY <2>1
  <2>5. QuoteAddsUp'
    BY <2>1, <2>3, <2>4 DEF QuoteAddsUp
  <2> QED BY <1>2, <2>1, <2>5 DEF QuoteInv
<1>8. ASSUME NEW result \in Analyses, FinishAnalysis(result) PROVE QuoteInv'
  BY <1>3, <1>8 DEF FinishAnalysis
<1>9. ASSUME NEW b \in DOMAIN Books, OpenBook(b) PROVE QuoteInv'
  BY <1>3, <1>9 DEF OpenBook
<1>10. ASSUME NEW b \in DOMAIN opening, CommitBook(b) PROVE QuoteInv'
  BY <1>3, <1>10 DEF CommitBook
<1>11. CASE QuoteFails \/ QuoteUnavailable
  BY <1>3, <1>11 DEF QuoteFails, QuoteUnavailable
<1>12. CASE UNCHANGED quoteVars
  BY <1>3, <1>12 DEF quoteVars
<1> QED BY <1>4, <1>5, <1>6, <1>7, <1>8, <1>9, <1>10, <1>11, <1>12 DEF QuotesNext

\* In every quote, for any catalogue, price lists and analyses of numbers, the
\* lines add up to the costs, no item is below the minimum of its work type, and
\* margin and tax only add (QuoteAddsUp).
THEOREM QuoteSums == QuotesSpec => []QuoteAddsUp
<1>1. QuoteInv => QuoteAddsUp
  BY DEF QuoteInv
<1>2. QuoteInv /\ [QuotesNext]_quoteVars => QuoteInv'
  BY QuoteStep
<1> QED BY <1>1, <1>2, QuoteInvInitially, PTL DEF QuotesSpec

-----------------------------------------------------------------------------
\* The sessions of a user.

\* The pairs handed out bear different numbers, and the next one is free.
PairsNumbered ==
    /\ IsFiniteSet(issued)
    /\ \A t \in issued : t.pair \in Nat /\ 1 =< t.pair /\ t.pair =< Cardinality(issued)
    /\ \A t, u \in issued : t.pair = u.pair => t = u

\* A pair of session s.
PairOf(s, n) == \E t \in issued : t.pair = n /\ t.sid = s

SessionRows ==
    /\ session \in [Session -> [st : {"none", "active", "revoked"}, pair : Nat]]
    /\ \A s \in Session : session[s].st # "none" => PairOf(s, session[s].pair)
    /\ \A t \in issued : t.sid \in Session /\ session[t.sid].st # "none"
    /\ \A s \in ended : s \in Session /\ session[s].st = "revoked"

\* Only issued tokens are revoked, and never the refresh token an open session needs.
TokensRevoked ==
    /\ \A j \in revoked : \E t \in issued : j \in Both(t.pair)
    /\ \A t \in issued : <<"refresh", t.pair>> \in revoked /\ session[t.sid].st = "active" =>
           session[t.sid].pair # t.pair

\* While no change was lost in another, versions count passwords, and a pair has
\* the version of the password its session was opened with.
VersionsTell ==
    /\ version \in Nat /\ password \in Nat /\ version =< password
    /\ lapped \in BOOLEAN
    /\ ~ lapped => version = password /\ \A t \in issued : t.ver = t.pw

\* What a request holds while it waits.
HoldsVersion(p) ==
    /\ p.pc \in {"checked", "rotating", "selecting", "changing"} => p.ver \in Nat /\ p.ver =< password
    /\ p.pc = "checked" /\ ~ lapped => p.ver = p.pw
HoldsPair(p) ==
    /\ p.pc \in {"known", "found", "rotating"} => \E t \in issued : t.pair = p.pair
    /\ p.pc = "rotating" => p.ver = Pair(p.pair).ver
HoldsRevocation(p) ==
    /\ p.pc = "revoking" => p.sid \in Session /\ PairOf(p.sid, p.pair) /\ (p.own # 0 => PairOf(p.sid, p.own))
    /\ p.pc = "closing" => \E t \in issued : t.pair = p.own /\ session[t.sid].st = "revoked"
HoldsSessions(p) ==
    p.pc = "changing" =>
        /\ p.sids \subseteq {t.sid : t \in issued}
        /\ \A j \in p.jtis : \E t \in issued : t.sid \in p.sids /\ j \in Both(t.pair)
PlaceOK(p) == HoldsVersion(p) /\ HoldsPair(p) /\ HoldsRevocation(p) /\ HoldsSessions(p)

Places == place = [h \in Handler |-> place[h]] /\ \A h \in Handler : PlaceOK(place[h])

SessionsInv == PairsNumbered /\ SessionRows /\ TokensRevoked /\ VersionsTell /\ Places

LEMMA SessionsInitInv == SessionsInit => SessionsInv
  <1> SUFFICES ASSUME SessionsInit PROVE SessionsInv
    OBVIOUS
  <1>1. PairsNumbered
    BY FS_EmptySet DEF SessionsInit, PairsNumbered
  <1>2. SessionRows
    BY DEF SessionsInit, SessionRows
  <1>3. TokensRevoked
    BY DEF SessionsInit, TokensRevoked
  <1>5. VersionsTell
    <2>1. ~ lapped /\ lapped \in BOOLEAN
      BY Zenon DEF SessionsInit
    <2>2. version = 0 /\ password = 0 /\ issued = {}
      BY DEF SessionsInit
    <2> QED BY <2>1, <2>2 DEF VersionsTell
  <1>4. Places
    BY DEF SessionsInit, Places, Free, PlaceOK, HoldsVersion, HoldsPair, HoldsRevocation, HoldsSessions
  <1> QED BY <1>1, <1>2, <1>3, <1>4, <1>5 DEF SessionsInv

\* The pair with a number is the one that was issued under it.
LEMMA PairFound == ASSUME PairsNumbered, NEW t \in issued PROVE Pair(t.pair) = t
  BY DEF PairsNumbered, Pair

\* The next number is free, and issuing a pair under it keeps the numbering.
LEMMA IssueKept ==
    ASSUME PairsNumbered, NEW s, NEW ver, NEW pw, Issue(s, ver, pw)
    PROVE  /\ PairsNumbered'
           /\ Fresh \in Nat /\ Fresh # 0 /\ \A t \in issued : t.pair # Fresh
           /\ \A t \in issued : Pair(t.pair)' = t
  <1> DEFINE new == [pair |-> Fresh, sid |-> s, ver |-> ver, pw |-> pw]
             c == Cardinality(issued)
             d == Cardinality(issued')
  <1>0. Fresh = c + 1
    BY DEF Fresh
  <1>1. issued' = issued \cup {new} /\ new.pair = c + 1
    BY <1>0 DEF Issue
  <1>2. c \in Nat /\ IsFiniteSet(issued)
    BY FS_CardinalityType DEF PairsNumbered
  <1>3. \A t \in issued : t.pair # c + 1 /\ t.pair \in Nat /\ 1 =< t.pair /\ t.pair =< c
    BY <1>2 DEF PairsNumbered
  <1>4. new \notin issued
    BY <1>1, <1>3
  <1>5. d = c + 1 /\ IsFiniteSet(issued')
    BY <1>1, <1>2, <1>4, FS_AddElement
  <1> HIDE DEF new, c, d
  <1>6. \A t \in issued' : t.pair \in Nat /\ 1 =< t.pair /\ t.pair =< d
    BY <1>1, <1>2, <1>3, <1>5
  <1>7. \A t, u \in issued' : t.pair = u.pair => t = u
    BY <1>1, <1>3 DEF PairsNumbered
  <1>8. PairsNumbered'
    BY <1>5, <1>6, <1>7 DEF PairsNumbered, d
  <1>9. \A t \in issued : Pair(t.pair)' = t
    BY <1>1, <1>7 DEF Pair
  <1>10. c + 1 \in Nat /\ c + 1 # 0
    BY <1>2
  <1> QED BY <1>0, <1>3, <1>8, <1>9, <1>10

\* A step of one request: it goes somewhere, and what the others hold stays true.
LEMMA TurnKept ==
    ASSUME Places, NEW h \in Handler, NEW where, Turn(h, where),
           \A p : p = where => PlaceOK(p)',
           \A p : PlaceOK(p) => PlaceOK(p)'
    PROVE  Places'
  <1>1. place' = [g \in Handler |-> place'[g]]
    BY DEF Places, Turn
  <1>2. \A g \in Handler : place'[g] = IF g = h THEN where ELSE place[g]
    BY DEF Places, Turn
  <1> QED BY <1>1, <1>2 DEF Places

\* A revoked refresh token among the two of a pair is that pair's.
LEMMA RefreshInBoth == \A m, n : <<"refresh", m>> \in Both(n) => m = n
  BY DEF Both

\* What a request holds stays true while pairs are added, passwords set and sessions ended.
LEMMA HeldKept ==
    ASSUME SessionsInv, password' \in Nat, password =< password', lapped => lapped',
           \A t \in issued : t \in issued' /\ Pair(t.pair)' = t,
           \A s \in Session : session[s].st = "revoked" => session'[s].st = "revoked"
    PROVE  \A p : PlaceOK(p) => PlaceOK(p)'
  <1> SUFFICES ASSUME NEW p, PlaceOK(p) PROVE PlaceOK(p)'
    OBVIOUS
  <1>1. HoldsVersion(p)'
    <2>1. password \in Nat /\ HoldsVersion(p)
      BY DEF SessionsInv, VersionsTell, PlaceOK
    <2>2. p.pc \in {"checked", "rotating", "selecting", "changing"} => p.ver \in Nat /\ p.ver =< password'
      BY <2>1 DEF HoldsVersion
    <2>3. p.pc = "checked" /\ ~ lapped' => p.ver = p.pw
      BY <2>1, Zenon DEF HoldsVersion
    <2> QED BY <2>2, <2>3 DEF HoldsVersion
  <1>2. HoldsPair(p)'
    <2>1. HoldsPair(p)
      BY DEF PlaceOK
    <2>2. p.pc \in {"known", "found", "rotating"} => \E t \in issued' : t.pair = p.pair
      BY <2>1 DEF HoldsPair
    <2>3. ASSUME p.pc = "rotating" PROVE Pair(p.pair)' = Pair(p.pair)
      <3>1. PICK t \in issued : t.pair = p.pair
        BY <2>1, <2>3 DEF HoldsPair
      <3>2. Pair(t.pair) = t
        BY PairFound DEF SessionsInv
      <3>3. Pair(t.pair)' = t
        OBVIOUS
      <3> QED BY <3>1, <3>2, <3>3
    <2>4. p.pc = "rotating" => p.ver = Pair(p.pair).ver
      BY <2>1 DEF HoldsPair
    <2>5. p.pc = "rotating" => p.ver = Pair(p.pair)'.ver
      BY <2>3, <2>4
    <2> QED BY <2>2, <2>5 DEF HoldsPair
  <1>3. HoldsRevocation(p)'
    BY DEF PlaceOK, HoldsRevocation, PairOf, SessionsInv, SessionRows
  <1>4. HoldsSessions(p)'
    BY DEF PlaceOK, HoldsSessions
  <1> QED BY <1>1, <1>2, <1>3, <1>4 DEF PlaceOK

\* A step that changes nothing but where one request is.
LEMMA QuietTurn ==
    ASSUME SessionsInv, NEW h \in Handler, NEW where, Turn(h, where), PlaceOK(where),
           UNCHANGED <<rowVars, issued, ended, lapped>>
    PROVE  SessionsInv'
  <1>1. UNCHANGED <<session, revoked, version, password, issued, ended, lapped>>
    BY DEF rowVars
  <1>2. PairsNumbered' /\ SessionRows' /\ TokensRevoked' /\ VersionsTell'
    BY <1>1 DEF SessionsInv, PairsNumbered, SessionRows, PairOf, TokensRevoked, VersionsTell
  <1>3. \A p : PlaceOK(p)' <=> PlaceOK(p)
    BY <1>1 DEF PlaceOK, HoldsVersion, HoldsPair, HoldsRevocation, HoldsSessions, PairOf, Pair
  <1>4. \A p : p = where => PlaceOK(p)'
    BY <1>3
  <1>5. Places'
    BY <1>3, <1>4, TurnKept DEF SessionsInv
  <1> QED BY <1>2, <1>5 DEF SessionsInv

\* The request has nothing to hold any more.
LEMMA FreeHolds == PlaceOK(Free) /\ \A p : p = Free => PlaceOK(p)'
  BY DEF PlaceOK, HoldsVersion, HoldsPair, HoldsRevocation, HoldsSessions, Free

LEMMA CheckPasswordStep ==
    ASSUME SessionsInv, NEW h \in Handler, NEW purpose, CheckPassword(h, purpose)
    PROVE  SessionsInv'
  <1> DEFINE where == [pc |-> "checked", purpose |-> purpose, ver |-> version, pw |-> password]
  <1>1. where.pc = "checked" /\ where.ver = version /\ where.pw = password
    OBVIOUS
  <1>2. Turn(h, where) /\ UNCHANGED <<rowVars, issued, ended, lapped>>
    BY DEF CheckPassword
  <1> HIDE DEF where
  <1>3. PlaceOK(where)
    BY <1>1 DEF SessionsInv, VersionsTell, PlaceOK, HoldsVersion, HoldsPair, HoldsRevocation, HoldsSessions
  <1> QED BY <1>2, <1>3, QuietTurn

LEMMA BeginResetStep == ASSUME SessionsInv, NEW h \in Handler, BeginReset(h) PROVE SessionsInv'
  <1> DEFINE where == [pc |-> "selecting", ver |-> version]
  <1>1. where.pc = "selecting" /\ where.ver = version
    OBVIOUS
  <1>2. Turn(h, where) /\ UNCHANGED <<rowVars, issued, ended, lapped>>
    BY DEF BeginReset
  <1> HIDE DEF where
  <1>3. PlaceOK(where)
    BY <1>1 DEF SessionsInv, VersionsTell, PlaceOK, HoldsVersion, HoldsPair, HoldsRevocation, HoldsSessions
  <1> QED BY <1>2, <1>3, QuietTurn

\* The checks of a refresh hold the pair; the last one, its version too.
LEMMA RefreshCheckStep ==
    ASSUME SessionsInv, NEW h \in Handler,
           (\E t \in issued : CheckToken(h, t)) \/ CheckSession(h) \/ CheckVersion(h)
    PROVE  SessionsInv'
  <1>1. ASSUME NEW pc \in {"known", "found"}, NEW n, \E t \in issued : t.pair = n,
               Turn(h, [pc |-> pc, pair |-> n]), UNCHANGED <<rowVars, issued, ended, lapped>>
        PROVE  SessionsInv'
    <2> DEFINE where == [pc |-> pc, pair |-> n]
    <2>1. where.pc = pc /\ where.pair = n /\ Turn(h, where)
      BY <1>1
    <2> HIDE DEF where
    <2>2. PlaceOK(where)
      BY <1>1, <2>1 DEF PlaceOK, HoldsVersion, HoldsPair, HoldsRevocation, HoldsSessions
    <2> QED BY <1>1, <2>1, <2>2, QuietTurn
  <1>2. PlaceOK(place[h])
    BY DEF SessionsInv, Places
  <1>3. CASE \E t \in issued : CheckToken(h, t)
    BY <1>1, <1>3 DEF CheckToken
  <1>4. CASE CheckSession(h)
    <2>1. \E t \in issued : t.pair = place[h].pair
      BY <1>2, <1>4 DEF CheckSession, PlaceOK, HoldsPair
    <2>2. Pair(place[h].pair).pair = place[h].pair
      BY <2>1, PairFound DEF SessionsInv
    <2> QED BY <1>1, <1>4, <2>1, <2>2 DEF CheckSession
  <1>5. CASE CheckVersion(h)
    <2> DEFINE where == [pc |-> "rotating", pair |-> place[h].pair, ver |-> version]
    <2>1. /\ where.pc = "rotating" /\ where.pair = place[h].pair /\ where.ver = version
          /\ Turn(h, where) /\ UNCHANGED <<rowVars, issued, ended, lapped>>
          /\ Pair(where.pair).ver = version
      BY <1>5 DEF CheckVersion
    <2>2. \E t \in issued : t.pair = where.pair
      BY <1>2, <1>5 DEF CheckVersion, PlaceOK, HoldsPair
    <2> HIDE DEF where
    <2>3. PlaceOK(where)
      BY <2>1, <2>2 DEF SessionsInv, VersionsTell, PlaceOK, HoldsVersion, HoldsPair, HoldsRevocation, HoldsSessions
    <2> QED BY <2>1, <2>3, QuietTurn
  <1> QED BY <1>3, <1>4, <1>5

LEMMA RequestFailsStep == ASSUME SessionsInv, NEW h \in Handler, RequestFails(h) PROVE SessionsInv'
  BY QuietTurn, FreeHolds DEF RequestFails, Leave

\* A revocation holds a pair of its session, and the pair a logout came with.
LEMMA BeginRevokeStep ==
    ASSUME SessionsInv, NEW h \in Handler, NEW s \in Session, NEW n, BeginRevoke(h, s, n),
           n # 0 => PairOf(s, n)
    PROVE  SessionsInv'
  <1> DEFINE where == [pc |-> "revoking", sid |-> s, pair |-> session[s].pair, own |-> n]
  <1>1. /\ where.pc = "revoking" /\ where.sid = s /\ where.pair = session[s].pair /\ where.own = n
        /\ Turn(h, where) /\ UNCHANGED <<rowVars, issued, ended, lapped>>
    BY DEF BeginRevoke
  <1>2. PairOf(s, session[s].pair)
    BY DEF BeginRevoke, SessionsInv, SessionRows
  <1> HIDE DEF where
  <1>3. PlaceOK(where)
    BY <1>1, <1>2 DEF PlaceOK, HoldsVersion, HoldsPair, HoldsRevocation, HoldsSessions
  <1> QED BY <1>1, <1>3, QuietTurn

LEMMA BeginLogoutOnlyStep ==
    ASSUME SessionsInv, NEW h \in Handler, NEW t \in issued, BeginLogoutOnly(h, t)
    PROVE  SessionsInv'
  <1> DEFINE where == [pc |-> "closing", own |-> t.pair]
  <1>1. /\ where.pc = "closing" /\ where.own = t.pair /\ session[t.sid].st = "revoked"
        /\ Turn(h, where) /\ UNCHANGED <<rowVars, issued, ended, lapped>>
    BY DEF BeginLogoutOnly
  <1> HIDE DEF where
  <1>2. PlaceOK(where)
    BY <1>1 DEF PlaceOK, HoldsVersion, HoldsPair, HoldsRevocation, HoldsSessions
  <1> QED BY <1>1, <1>2, QuietTurn

\* The tokens it is going to revoke are of the sessions it is going to end.
LEMMA SelectSessionsStep == ASSUME SessionsInv, NEW h \in Handler, SelectSessions(h) PROVE SessionsInv'
  <1> DEFINE open == {s \in Session : session[s].st = "active"}
             jtis == UNION {Both(session[s].pair) : s \in open} \ revoked
             where == [pc |-> "changing", ver |-> place[h].ver, sids |-> open, jtis |-> jtis]
  <1>1. /\ where.pc = "changing" /\ where.ver = place[h].ver /\ where.sids = open /\ where.jtis = jtis
        /\ Turn(h, where) /\ UNCHANGED <<rowVars, issued, ended, lapped>> /\ place[h].pc = "selecting"
    BY DEF SelectSessions
  <1>2. place[h].ver \in Nat /\ place[h].ver =< password
    BY <1>1 DEF SessionsInv, Places, PlaceOK, HoldsVersion
  <1>3. \A s \in open : \E t \in issued : t.sid = s /\ t.pair = session[s].pair
    BY DEF SessionsInv, SessionRows, PairOf
  <1>4. open \subseteq {t.sid : t \in issued}
    BY <1>3
  <1>5. \A j \in jtis : \E t \in issued : t.sid \in open /\ j \in Both(t.pair)
    BY <1>3
  <1> HIDE DEF where, open, jtis
  <1>6. HoldsVersion(where) /\ HoldsSessions(where)
    BY <1>1, <1>2, <1>4, <1>5 DEF HoldsVersion, HoldsSessions
  <1>7. HoldsPair(where) /\ HoldsRevocation(where)
    BY <1>1 DEF HoldsPair, HoldsRevocation
  <1> QED BY <1>1, <1>6, <1>7, QuietTurn DEF PlaceOK

\* A login: the new pair has the password its session was opened with.
LEMMA CreateSessionStep ==
    ASSUME SessionsInv, NEW h \in Handler, NEW s \in Session, CreateSession(h, s)
    PROVE  SessionsInv'
  <1> DEFINE ver == place[h].ver
             pw == place[h].pw
             new == [pair |-> Fresh, sid |-> s, ver |-> ver, pw |-> pw]
             where == IF place[h].purpose = "login" THEN Free ELSE [pc |-> "selecting", ver |-> ver]
  <1>1. /\ place[h].pc = "checked" /\ session[s].st = "none"
        /\ session' = [session EXCEPT ![s] = [st |-> "active", pair |-> Fresh]]
        /\ issued' = issued \cup {new} /\ Issue(s, ver, pw) /\ Turn(h, where)
        /\ UNCHANGED <<revoked, version, password, ended, lapped>>
    BY DEF CreateSession, Issue
  <1>2. /\ PairsNumbered' /\ Fresh \in Nat /\ \A t \in issued : t.pair # Fresh
        /\ \A t \in issued : t \in issued' /\ Pair(t.pair)' = t
    BY <1>1, IssueKept DEF SessionsInv
  <1>3. new.pair = Fresh /\ new.sid = s /\ new.ver = ver /\ new.pw = pw
    OBVIOUS
  <1>4. ver \in Nat /\ ver =< password /\ (~ lapped => ver = pw)
    BY <1>1 DEF SessionsInv, Places, PlaceOK, HoldsVersion
  <1>5. \A r \in Session : r # s => session'[r] = session[r]
    BY <1>1 DEF SessionsInv, SessionRows
  <1>6. session'[s].st = "active" /\ session'[s].pair = Fresh
    BY <1>1 DEF SessionsInv, SessionRows
  <1> HIDE DEF new
  <1>7. SessionRows'
    <2>1. session' \in [Session -> [st : {"none", "active", "revoked"}, pair : Nat]]
      BY <1>1, <1>2 DEF SessionsInv, SessionRows
    <2>2. \A r \in Session : session'[r].st # "none" => \E t \in issued' : t.pair = session'[r].pair /\ t.sid = r
      BY <1>1, <1>3, <1>5, <1>6 DEF SessionsInv, SessionRows, PairOf
    <2>3. \A t \in issued' : t.sid \in Session /\ session'[t.sid].st # "none"
      BY <1>1, <1>3, <1>5, <1>6 DEF SessionsInv, SessionRows
    <2>4. \A r \in ended : r \in Session /\ session'[r].st = "revoked"
      BY <1>1, <1>5 DEF SessionsInv, SessionRows
    <2> QED BY <1>1, <2>1, <2>2, <2>3, <2>4 DEF SessionRows, PairOf
  <1>8. TokensRevoked'
    <2>1. <<"refresh", Fresh>> \notin revoked
      BY <1>2, RefreshInBoth DEF SessionsInv, TokensRevoked
    <2>2. \A t \in issued : t.sid \in Session /\ t.sid # s
      BY <1>1 DEF SessionsInv, SessionRows
    <2> QED BY <1>1, <1>3, <1>5, <2>1, <2>2 DEF SessionsInv, TokensRevoked
  <1>9. VersionsTell'
    <2>1. ~ lapped => \A t \in issued' : t.ver = t.pw
      BY <1>1, <1>3, <1>4 DEF SessionsInv, VersionsTell
    <2> QED BY <1>1, <2>1 DEF SessionsInv, VersionsTell
  <1>10. \A p : p = where => PlaceOK(p)'
    <2>1. CASE where = Free
      BY <2>1, FreeHolds
    <2>2. CASE where = [pc |-> "selecting", ver |-> ver]
      <3>1. where.pc = "selecting" /\ where.ver = ver
        BY <2>2
      <3> HIDE DEF where, ver
      <3> QED BY <1>1, <1>4, <3>1 DEF PlaceOK, HoldsVersion, HoldsPair, HoldsRevocation, HoldsSessions
    <2> QED BY <2>1, <2>2
  <1>11. \A p : PlaceOK(p) => PlaceOK(p)'
    <2>1. password \in Nat /\ password' = password /\ (lapped => lapped')
      BY <1>1 DEF SessionsInv, VersionsTell
    <2>2. \A r \in Session : session[r].st = "revoked" => session'[r].st = "revoked"
      BY <1>1, <1>5
    <2> QED BY <1>2, <2>1, <2>2, HeldKept
  <1>12. Places'
    BY <1>1, <1>10, <1>11, TurnKept DEF SessionsInv
  <1> QED BY <1>2, <1>7, <1>8, <1>9, <1>12 DEF SessionsInv

\* A refresh: the new pair has the version and the password of the one it replaces.
LEMMA RotateStep == ASSUME SessionsInv, NEW h \in Handler, Rotate(h) PROVE SessionsInv'
  <1> DEFINE ver == place[h].ver
             t == Pair(place[h].pair)
             new == [pair |-> Fresh, sid |-> t.sid, ver |-> ver, pw |-> t.pw]
  <1>1. /\ place[h].pc = "rotating"
        /\ revoked' = revoked \cup {<<"refresh", t.pair>>}
        /\ session' = [session EXCEPT ![t.sid].pair = Fresh]
        /\ issued' = issued \cup {new} /\ Issue(t.sid, ver, t.pw) /\ Turn(h, Free)
        /\ UNCHANGED <<version, password, ended, lapped>>
    BY DEF Rotate, Issue
  <1>2. /\ PairsNumbered' /\ Fresh \in Nat /\ \A u \in issued : u.pair # Fresh
        /\ \A u \in issued : u \in issued' /\ Pair(u.pair)' = u
    BY <1>1, IssueKept DEF SessionsInv
  <1>3. new.pair = Fresh /\ new.sid = t.sid /\ new.ver = ver /\ new.pw = t.pw
    OBVIOUS
  <1>4. t \in issued /\ ver = t.ver
    <2>1. HoldsPair(place[h])
      BY DEF SessionsInv, Places, PlaceOK
    <2>2. PICK u \in issued : u.pair = place[h].pair
      BY <1>1, <2>1 DEF HoldsPair
    <2>3. t = u
      BY <2>2, PairFound DEF SessionsInv
    <2> QED BY <1>1, <2>1, <2>3 DEF HoldsPair
  <1>5. t.sid \in Session
    BY <1>4 DEF SessionsInv, SessionRows
  <1> HIDE DEF new, t
  <1>6. \A r \in Session : r # t.sid => session'[r] = session[r]
    BY <1>1 DEF SessionsInv, SessionRows
  <1>7. session'[t.sid].st = session[t.sid].st /\ session'[t.sid].pair = Fresh
    BY <1>1, <1>5 DEF SessionsInv, SessionRows
  <1>8. SessionRows'
    <2>1. session' \in [Session -> [st : {"none", "active", "revoked"}, pair : Nat]]
      BY <1>1, <1>2 DEF SessionsInv, SessionRows
    <2>2. \A r \in Session : session'[r].st # "none" => \E u \in issued' : u.pair = session'[r].pair /\ u.sid = r
      BY <1>1, <1>3, <1>6, <1>7 DEF SessionsInv, SessionRows, PairOf
    <2>3. \A u \in issued' : u.sid \in Session /\ session'[u.sid].st # "none"
      BY <1>1, <1>3, <1>4, <1>6, <1>7 DEF SessionsInv, SessionRows
    <2>4. \A r \in ended : r \in Session /\ session'[r].st = "revoked"
      BY <1>1, <1>6, <1>7 DEF SessionsInv, SessionRows
    <2> QED BY <1>1, <2>1, <2>2, <2>3, <2>4 DEF SessionRows, PairOf
  <1>9. TokensRevoked'
    <2>1. \A j \in revoked' : \E u \in issued' : j \in Both(u.pair)
      BY <1>1, <1>4 DEF SessionsInv, TokensRevoked, Both
    <2>2. <<"refresh", Fresh>> \notin revoked'
      <3>1. <<"refresh", Fresh>> \notin revoked
        BY <1>2, RefreshInBoth DEF SessionsInv, TokensRevoked
      <3> QED BY <1>1, <1>2, <1>4, <3>1
    <2>3. ASSUME NEW u \in issued, <<"refresh", u.pair>> \in revoked', session'[u.sid].st = "active"
          PROVE  session'[u.sid].pair # u.pair
      <3>1. CASE u.sid = t.sid
        BY <1>2, <1>7, <3>1
      <3>2. CASE u.sid # t.sid
        <4>1. u.pair # t.pair
          BY <1>4, <3>2 DEF SessionsInv, PairsNumbered
        <4>2. <<"refresh", u.pair>> \in revoked
          BY <1>1, <2>3, <4>1
        <4>3. session'[u.sid] = session[u.sid]
          BY <1>6, <3>2 DEF SessionsInv, SessionRows
        <4> QED BY <2>3, <4>2, <4>3 DEF SessionsInv, TokensRevoked
      <3> QED BY <3>1, <3>2
    <2> QED BY <1>1, <1>3, <2>1, <2>2, <2>3 DEF TokensRevoked
  <1>10. VersionsTell'
    <2>1. ~ lapped => \A u \in issued' : u.ver = u.pw
      BY <1>1, <1>3, <1>4 DEF SessionsInv, VersionsTell
    <2> QED BY <1>1, <2>1 DEF SessionsInv, VersionsTell
  <1>11. \A p : PlaceOK(p) => PlaceOK(p)'
    <2>1. password \in Nat /\ password' = password /\ (lapped => lapped')
      BY <1>1 DEF SessionsInv, VersionsTell
    <2>2. \A r \in Session : session[r].st = "revoked" => session'[r].st = "revoked"
      BY <1>6, <1>7
    <2> QED BY <1>2, <2>1, <2>2, HeldKept
  <1>12. Places'
    BY <1>1, <1>11, FreeHolds, TurnKept DEF SessionsInv
  <1> QED BY <1>2, <1>8, <1>9, <1>10, <1>12 DEF SessionsInv

\* Sessions end with tokens of theirs: every refresh token that is revoked is of
\* a session that is over then.
LEMMA EndingKept ==
    ASSUME SessionsInv, NEW sids, sids \subseteq Session, NEW jtis,
           session' = [s \in Session |-> IF s \in sids THEN [session[s] EXCEPT !.st = "revoked"] ELSE session[s]],
           \A s \in sids : session[s].st # "none",
           revoked' = revoked \cup jtis, ended' = ended \cup sids, UNCHANGED issued,
           \A j \in jtis : \E t \in issued : session'[t.sid].st = "revoked" /\ j \in Both(t.pair)
    PROVE  /\ PairsNumbered' /\ SessionRows' /\ TokensRevoked'
           /\ \A t \in issued : t \in issued' /\ Pair(t.pair)' = t
           /\ \A s \in Session : session[s].st = "revoked" => session'[s].st = "revoked"
  <1>1. PairsNumbered'
    BY DEF SessionsInv, PairsNumbered
  <1>2. \A s \in Session : /\ session'[s].pair = session[s].pair
                           /\ session'[s].st = IF s \in sids THEN "revoked" ELSE session[s].st
    BY DEF SessionsInv, SessionRows
  <1>3. SessionRows'
    <2>1. session' \in [Session -> [st : {"none", "active", "revoked"}, pair : Nat]]
      BY DEF SessionsInv, SessionRows
    <2>2. \A s \in Session : session'[s].st # "none" => \E t \in issued : t.pair = session'[s].pair /\ t.sid = s
      BY <1>2 DEF SessionsInv, SessionRows, PairOf
    <2>3. \A t \in issued : t.sid \in Session /\ session'[t.sid].st # "none"
      BY <1>2 DEF SessionsInv, SessionRows
    <2>4. \A s \in ended' : s \in Session /\ session'[s].st = "revoked"
      BY <1>2 DEF SessionsInv, SessionRows
    <2> QED BY <2>1, <2>2, <2>3, <2>4 DEF SessionRows, PairOf
  <1>4. TokensRevoked'
    <2>1. \A j \in revoked' : \E t \in issued : j \in Both(t.pair)
      BY DEF SessionsInv, TokensRevoked
    <2>2. ASSUME NEW t \in issued, <<"refresh", t.pair>> \in revoked', session'[t.sid].st = "active"
          PROVE  session'[t.sid].pair # t.pair
      <3>1. t.sid \in Session /\ session[t.sid].st = "active" /\ session'[t.sid].pair = session[t.sid].pair
        BY <1>2, <2>2 DEF SessionsInv, SessionRows
      <3>2. <<"refresh", t.pair>> \notin jtis
        <4> SUFFICES ASSUME <<"refresh", t.pair>> \in jtis PROVE FALSE
          OBVIOUS
        <4>1. PICK u \in issued : session'[u.sid].st = "revoked" /\ <<"refresh", t.pair>> \in Both(u.pair)
          OBVIOUS
        <4>2. u = t
          BY <4>1, RefreshInBoth DEF SessionsInv, PairsNumbered
        <4> QED BY <2>2, <4>1, <4>2
      <3> QED BY <2>2, <3>1, <3>2 DEF SessionsInv, TokensRevoked
    <2> QED BY <2>1, <2>2 DEF TokensRevoked
  <1>5. \A t \in issued : Pair(t.pair)' = t
    BY PairFound DEF SessionsInv, Pair
  <1> QED BY <1>1, <1>2, <1>3, <1>4, <1>5

\* Both tokens of a pair, named when its session was loaded or by a logout.
LEMMA RevokeSessionStep == ASSUME SessionsInv, NEW h \in Handler, RevokeSession(h) PROVE SessionsInv'
  <1> DEFINE sid == place[h].sid
             own == place[h].own
             where == IF own = 0 THEN Free ELSE [pc |-> "closing", own |-> own]
  <1>1. /\ place[h].pc = "revoking"
        /\ revoked' = revoked \cup Both(place[h].pair)
        /\ session' = [session EXCEPT ![sid].st = "revoked"]
        /\ ended' = ended \cup {sid} /\ Turn(h, where)
        /\ UNCHANGED <<version, password, issued, lapped>>
    BY DEF RevokeSession, EndOfRevoke
  <1>2. sid \in Session /\ PairOf(sid, place[h].pair) /\ (own # 0 => PairOf(sid, own))
    BY <1>1 DEF SessionsInv, Places, PlaceOK, HoldsRevocation
  <1>3. session[sid].st # "none"
    BY <1>2 DEF SessionsInv, SessionRows, PairOf
  <1>4. session' = [s \in Session |-> IF s \in {sid} THEN [session[s] EXCEPT !.st = "revoked"] ELSE session[s]]
    BY <1>1, <1>2 DEF SessionsInv, SessionRows
  <1>5. session'[sid].st = "revoked"
    BY <1>1, <1>2 DEF SessionsInv, SessionRows
  <1> HIDE DEF sid, own
  <1>6. \A j \in Both(place[h].pair) : \E t \in issued : session'[t.sid].st = "revoked" /\ j \in Both(t.pair)
    BY <1>2, <1>5 DEF PairOf
  <1>7. /\ PairsNumbered' /\ SessionRows' /\ TokensRevoked'
        /\ \A t \in issued : t \in issued' /\ Pair(t.pair)' = t
        /\ \A s \in Session : session[s].st = "revoked" => session'[s].st = "revoked"
    BY <1>1, <1>2, <1>3, <1>4, <1>6, EndingKept
  <1>8. VersionsTell'
    BY <1>1 DEF SessionsInv, VersionsTell
  <1>9. \A p : PlaceOK(p) => PlaceOK(p)'
    <2>1. password \in Nat /\ password' = password /\ (lapped => lapped')
      BY <1>1 DEF SessionsInv, VersionsTell
    <2> QED BY <1>7, <2>1, HeldKept
  <1>10. \A p : p = where => PlaceOK(p)'
    <2>1. CASE own = 0
      BY <2>1, FreeHolds
    <2>2. CASE own # 0
      <3>1. where.pc = "closing" /\ where.own = own
        BY <2>2
      <3>2. \E t \in issued' : t.pair = own /\ session'[t.sid].st = "revoked"
        BY <1>1, <1>2, <1>5, <2>2 DEF PairOf
      <3> HIDE DEF where
      <3> QED BY <3>1, <3>2 DEF PlaceOK, HoldsVersion, HoldsPair, HoldsRevocation, HoldsSessions
    <2> QED BY <2>1, <2>2
  <1>11. Places'
    BY <1>1, <1>9, <1>10, TurnKept DEF SessionsInv
  <1> QED BY <1>7, <1>8, <1>11 DEF SessionsInv

\* A logout's own tokens, when its session is over.
LEMMA RevokeTokenStep == ASSUME SessionsInv, NEW h \in Handler, RevokeToken(h) PROVE SessionsInv'
  <1> DEFINE none == {}
  <1>1. /\ place[h].pc = "closing"
        /\ revoked' = revoked \cup Both(place[h].own) /\ Turn(h, Free)
        /\ UNCHANGED <<session, version, password, issued, ended, lapped>>
    BY DEF RevokeToken
  <1>2. PICK t \in issued : t.pair = place[h].own /\ session[t.sid].st = "revoked"
    BY <1>1 DEF SessionsInv, Places, PlaceOK, HoldsRevocation
  <1>3. \A j \in Both(place[h].own) : \E u \in issued : session'[u.sid].st = "revoked" /\ j \in Both(u.pair)
    BY <1>1, <1>2
  <1>4. session' = [s \in Session |-> IF s \in none THEN [session[s] EXCEPT !.st = "revoked"] ELSE session[s]]
    BY <1>1 DEF SessionsInv, SessionRows
  <1>5. /\ PairsNumbered' /\ SessionRows' /\ TokensRevoked'
        /\ \A u \in issued : u \in issued' /\ Pair(u.pair)' = u
        /\ \A s \in Session : session[s].st = "revoked" => session'[s].st = "revoked"
    <2>1. ended' = ended \cup none /\ none \subseteq Session /\ \A s \in none : session[s].st # "none"
      BY <1>1
    <2> HIDE DEF none
    <2> QED BY <1>1, <1>3, <1>4, <2>1, EndingKept
  <1>6. VersionsTell'
    BY <1>1 DEF SessionsInv, VersionsTell
  <1>7. \A p : PlaceOK(p) => PlaceOK(p)'
    <2>1. password \in Nat /\ password' = password /\ (lapped => lapped')
      BY <1>1 DEF SessionsInv, VersionsTell
    <2> QED BY <1>5, <2>1, HeldKept
  <1>8. Places'
    BY <1>1, <1>7, FreeHolds, TurnKept DEF SessionsInv
  <1> QED BY <1>5, <1>6, <1>8 DEF SessionsInv

\* A change of the password counts one up from the version it had loaded.
LEMMA ChangePasswordStep == ASSUME SessionsInv, NEW h \in Handler, ChangePassword(h) PROVE SessionsInv'
  <1> DEFINE ver == place[h].ver
             sids == place[h].sids
             jtis == place[h].jtis
  <1>1. /\ place[h].pc = "changing"
        /\ password' = password + 1 /\ version' = ver + 1 /\ lapped' = (lapped \/ version # ver)
        /\ revoked' = revoked \cup jtis /\ ended' = ended \cup sids
        /\ session' = [s \in Session |-> IF s \in sids THEN [session[s] EXCEPT !.st = "revoked"] ELSE session[s]]
        /\ Turn(h, Free) /\ UNCHANGED issued
    BY DEF ChangePassword
  <1>2. ver \in Nat /\ ver =< password
    BY <1>1 DEF SessionsInv, Places, PlaceOK, HoldsVersion
  <1>3. /\ sids \subseteq {t.sid : t \in issued}
        /\ \A j \in jtis : \E t \in issued : t.sid \in sids /\ j \in Both(t.pair)
    BY <1>1 DEF SessionsInv, Places, PlaceOK, HoldsSessions
  <1> HIDE DEF ver, sids, jtis
  <1>4. sids \subseteq Session /\ \A s \in sids : session[s].st # "none"
    BY <1>3 DEF SessionsInv, SessionRows
  <1>5. \A s \in sids : session'[s].st = "revoked"
    BY <1>1, <1>4 DEF SessionsInv, SessionRows
  <1>6. \A j \in jtis : \E t \in issued : session'[t.sid].st = "revoked" /\ j \in Both(t.pair)
    BY <1>3, <1>5
  <1>7. /\ PairsNumbered' /\ SessionRows' /\ TokensRevoked'
        /\ \A t \in issued : t \in issued' /\ Pair(t.pair)' = t
        /\ \A s \in Session : session[s].st = "revoked" => session'[s].st = "revoked"
    BY <1>1, <1>4, <1>6, EndingKept
  <1>8. password \in Nat /\ version \in Nat /\ password' \in Nat /\ password =< password'
    BY <1>1 DEF SessionsInv, VersionsTell
  <1>9. (lapped => lapped') /\ lapped' \in BOOLEAN
    BY <1>1, Zenon DEF SessionsInv, VersionsTell
  <1>10. VersionsTell'
    <2>1. version' \in Nat /\ version' =< password'
      BY <1>1, <1>2, <1>8
    <2>2. ~ lapped' => ~ lapped /\ version = ver
      BY <1>1, Zenon
    <2>3. ~ lapped => version = password /\ \A t \in issued : t.ver = t.pw
      BY DEF SessionsInv, VersionsTell
    <2>4. ~ lapped' => version' = password'
      <3>1. version = ver /\ version = password => version' = password'
        BY <1>1
      <3> QED BY <2>2, <2>3, <3>1, Zenon
    <2>5. ~ lapped' => \A t \in issued' : t.ver = t.pw
      BY <1>1, <2>2, <2>3, Zenon
    <2> QED BY <1>8, <1>9, <2>1, <2>4, <2>5 DEF VersionsTell
  <1>11. \A p : PlaceOK(p) => PlaceOK(p)'
    BY <1>7, <1>8, <1>9, HeldKept
  <1>12. Places'
    BY <1>1, <1>11, FreeHolds, TurnKept DEF SessionsInv
  <1> QED BY <1>7, <1>10, <1>12 DEF SessionsInv

LEMMA SessionsStep == SessionsInv /\ [SessionsNext]_sessionVars => SessionsInv'
  <1> SUFFICES ASSUME SessionsInv, [SessionsNext]_sessionVars PROVE SessionsInv'
    OBVIOUS
  <1>1. CASE UNCHANGED sessionVars
    BY <1>1 DEF sessionVars, rowVars, SessionsInv, PairsNumbered, SessionRows, PairOf, TokensRevoked, VersionsTell,
                Places, PlaceOK, HoldsVersion, HoldsPair, HoldsRevocation, HoldsSessions, Pair
  <1>2. CASE SessionsNext
    <2> PICK h \in Handler :
        \/ CheckPassword(h, "login") \/ CheckPassword(h, "change")
        \/ \E s \in Session : CreateSession(h, s)
        \/ \E t \in issued : CheckToken(h, t)
        \/ CheckSession(h) \/ CheckVersion(h) \/ Rotate(h)
        \/ \E s \in Session : BeginRevoke(h, s, 0)
        \/ \E t \in issued : BeginRevoke(h, t.sid, t.pair) \/ BeginLogoutOnly(h, t)
        \/ RevokeSession(h) \/ RevokeToken(h)
        \/ BeginReset(h) \/ SelectSessions(h) \/ ChangePassword(h)
        \/ RequestFails(h)
      BY <1>2 DEF SessionsNext
    <2>1. CASE CheckPassword(h, "login") \/ CheckPassword(h, "change")
      BY <2>1, CheckPasswordStep
    <2>2. CASE \E s \in Session : CreateSession(h, s)
      BY <2>2, CreateSessionStep
    <2>3. CASE (\E t \in issued : CheckToken(h, t)) \/ CheckSession(h) \/ CheckVersion(h)
      BY <2>3, RefreshCheckStep
    <2>4. CASE \E s \in Session : BeginRevoke(h, s, 0)
      BY <2>4, BeginRevokeStep
    <2>5. CASE \E t \in issued : BeginRevoke(h, t.sid, t.pair)
      <3>1. PICK t \in issued : BeginRevoke(h, t.sid, t.pair)
        BY <2>5
      <3>2. t.sid \in Session /\ PairOf(t.sid, t.pair)
        BY DEF SessionsInv, SessionRows, PairOf
      <3> QED BY <3>1, <3>2, BeginRevokeStep
    <2>6. CASE \E t \in issued : BeginLogoutOnly(h, t)
      BY <2>6, BeginLogoutOnlyStep
    <2>7. CASE Rotate(h) \/ RevokeSession(h) \/ RevokeToken(h) \/ ChangePassword(h)
      BY <2>7, RotateStep, RevokeSessionStep, RevokeTokenStep, ChangePasswordStep
    <2>8. CASE BeginReset(h) \/ SelectSessions(h) \/ RequestFails(h)
      BY <2>8, BeginResetStep, SelectSessionsStep, RequestFailsStep
    <2> QED BY <2>1, <2>2, <2>3, <2>4, <2>5, <2>6, <2>7, <2>8
  <1> QED BY <1>1, <1>2

\* The rows of a user's sessions always hold what the requests can put there, and
\* only tokens that were issued are revoked.
THEOREM SessionTypes == SessionsSpec => []SessionsTypeOK
<1>1. SessionsInv => SessionsTypeOK
  <2> SUFFICES ASSUME SessionsInv PROVE SessionsTypeOK
    OBVIOUS
  <2>1. Cardinality(issued) \in Nat
    BY FS_CardinalityType DEF SessionsInv, PairsNumbered
  <2>2. \A t \in issued : t.pair \in 1..Cardinality(issued)
    BY <2>1 DEF SessionsInv, PairsNumbered
  <2>3. \A t \in issued : Both(t.pair) \subseteq {"access", "refresh"} \X (1..Cardinality(issued))
    BY <2>2 DEF Both
  <2>4. revoked \subseteq {"access", "refresh"} \X (1..Cardinality(issued))
    BY <2>3 DEF SessionsInv, TokensRevoked
  <2>5. /\ \A s \in Session : session[s].st \in {"none", "active", "revoked"}
        /\ \A s \in Session : session[s].st # "none" => \E t \in issued : t.sid = s /\ t.pair = session[s].pair
    BY DEF SessionsInv, SessionRows, PairOf
  <2> QED BY <2>4, <2>5 DEF SessionsTypeOK, SessionsInv, VersionsTell
<1> QED BY <1>1, SessionsInitInv, SessionsStep, PTL DEF SessionsSpec

\* For any sessions and requests side by side: no token of a session whose
\* revocation is committed is accepted, and after a change of the password none
\* of a session opened with an older one (services/auth_service.py), unless one
\* change was lost in another.
THEOREM OverIsOver == SessionsSpec => []EndedSessionsAreOver
<1>1. SessionsInv => EndedSessionsAreOver
  <2> SUFFICES ASSUME SessionsInv, NEW t \in issued, AccessAccepted(t) \/ RefreshAccepted(t)
               PROVE  t.sid \notin ended /\ (t.pw = password \/ lapped)
    BY DEF EndedSessionsAreOver
  <2>1. session[t.sid].st = "active" /\ t.ver = version
    BY DEF AccessAccepted, RefreshAccepted
  <2>2. t.sid \notin ended
    BY <2>1 DEF SessionsInv, SessionRows
  <2>3. t.pw = password \/ lapped
    BY <2>1 DEF SessionsInv, VersionsTell
  <2> QED BY <2>2, <2>3
<1> QED BY <1>1, SessionsInitInv, SessionsStep, PTL DEF SessionsSpec

\* The pair an open session's row names can be refreshed, however refreshes,
\* logouts and changes of the password overlap.
THEOREM OpenStaysOpen == SessionsSpec => []OpenSessionCanRefresh
<1>1. SessionsInv => OpenSessionCanRefresh
  <2> SUFFICES ASSUME SessionsInv, NEW s \in Session, session[s].st = "active",
                      Pair(session[s].pair).ver = version
               PROVE  RefreshAccepted(Pair(session[s].pair))
    BY DEF OpenSessionCanRefresh
  <2>1. PICK t \in issued : t.pair = session[s].pair /\ t.sid = s
    BY DEF SessionsInv, SessionRows, PairOf
  <2>2. Pair(session[s].pair) = t
    BY <2>1, PairFound DEF SessionsInv
  <2>3. session[s] = [st |-> "active", pair |-> t.pair]
    BY <2>1 DEF SessionsInv, SessionRows
  <2>4. <<"refresh", t.pair>> \notin revoked
    BY <2>1 DEF SessionsInv, TokensRevoked
  <2> QED BY <2>1, <2>2, <2>3, <2>4 DEF RefreshAccepted
<1> QED BY <1>1, SessionsInitInv, SessionsStep, PTL DEF SessionsSpec

-----------------------------------------------------------------------------
\* The exports and photos.

\* There is a row for every payload, for every item whose payload is being
\* enqueued, and for every item that leaves.
FileRows ==
    /\ itemRow \in [Files!Item -> {"none", "waiting", "working", "done", "failed", "removed"}]
    /\ request \in [Files!Item -> {"none", "saved", "pushing", "over"}]
    /\ tickets \in [Files!Item -> Nat]
    /\ \A i \in Files!Item :
           tickets[i] > 0 \/ request[i] = "pushing" \/ i \in leaving => itemRow[i] # "none"

Running(w) == heavyAt[w] # Files!Idle

Run == [pc : {"taken", "loaded", "working", "written", "spoiled", "failing"}, item : Files!Item]

FileRuns ==
    /\ heavyAt = [w \in Worker |-> heavyAt[w]]
    /\ \A w \in Worker : Running(w) => heavyAt[w] \in Run /\ itemRow[heavyAt[w].item] # "none"

\* The original of a photo is stored before its row, and removed with its files.
OriginalsAreThere ==
    \A p \in Photo :
        /\ request[p] \in {"none", "saved"} => itemRow[p] = "none"
        /\ request[p] = "saved" => Files!Original(p) \in files
        /\ itemRow[p] # "none" => p \in leaving \/ Files!Original(p) \in files

MixedIfTwo ==
    \A w, v \in Worker :
        w # v /\ Running(w) /\ Running(v) /\ heavyAt[w].item = heavyAt[v].item => heavyAt[w].item \in mixed

\* A run that is alone with its item is the only one to complete it, and has its
\* result in the storage once it has written it.
RunsAlone ==
    \A w \in Worker : Running(w) /\ heavyAt[w].item \notin mixed =>
        /\ heavyAt[w].pc # "taken" => itemRow[heavyAt[w].item] # "done"
        /\ heavyAt[w].pc = "written" =>
               heavyAt[w].item \in leaving \/ Files!Result(heavyAt[w].item) \in files

FilesInv == FileRows /\ FileRuns /\ OriginalsAreThere /\ MixedIfTwo /\ RunsAlone /\ Files!DoneHasResult

LEMMA FilesInitInv == Files!Init => FilesInv
  BY DEF Files!Init, FilesInv, FileRows, FileRuns, Running, OriginalsAreThere, MixedIfTwo, RunsAlone, Files!DoneHasResult,
         Files!Item

\* An original is not a result, and neither is another item's.
LEMMA KeysDiffer ==
    \A i, j : /\ Files!Original(i) # Files!Result(j)
              /\ Files!Original(i) = Files!Original(j) => i = j
              /\ Files!Result(i) = Files!Result(j) => i = j
  BY DEF Files!Original, Files!Result

\* What the requests do: nothing to a result, and a row becomes waiting or failed.
LEMMA RequestStep ==
    ASSUME FilesInv,
           \/ \E p \in Photo : Files!SaveOriginal(p) \/ Files!InsertFails(p)
           \/ \E i \in Files!Item : \/ Files!Insert(i) \/ Files!Push(i) \/ Files!PushFails(i)
                                    \/ Files!RequestDies(i)
    PROVE  FilesInv'
  <1>1. CASE \E p \in Photo : Files!SaveOriginal(p)
    BY <1>1, KeysDiffer DEF Files!SaveOriginal, Files!Asks, FilesInv, FileRows, FileRuns, Running, OriginalsAreThere,
       MixedIfTwo, RunsAlone, Files!DoneHasResult, Files!Item
  <1>2. CASE \E p \in Photo : Files!InsertFails(p)
    BY <1>2, KeysDiffer DEF Files!InsertFails, Files!Asks, FilesInv, FileRows, FileRuns, Running, OriginalsAreThere,
       MixedIfTwo, RunsAlone, Files!DoneHasResult, Files!Item
  <1>3. CASE \E i \in Files!Item : Files!Insert(i)
    BY <1>3, KeysDiffer DEF Files!Insert, Files!SetRow, Files!Asks, FilesInv, FileRows, FileRuns, Running,
       OriginalsAreThere, MixedIfTwo, RunsAlone, Files!DoneHasResult
  <1>4. CASE \E i \in Files!Item : Files!Push(i)
    BY <1>4, KeysDiffer DEF Files!Push, Files!Ticket, Files!Asks, FilesInv, FileRows, FileRuns, Running,
       OriginalsAreThere, MixedIfTwo, RunsAlone, Files!DoneHasResult
  <1>5. CASE \E i \in Files!Item : Files!PushFails(i)
    <2>1. PICK i \in Files!Item : Files!PushFails(i)
      BY <1>5
    <2>2. /\ request[i] = "pushing" /\ request' = [request EXCEPT ![i] = "over"]
          /\ UNCHANGED <<leaving, files, tickets, heavyAt, mixed>>
          /\ itemRow' = [itemRow EXCEPT ![i] = "failed"] \/ itemRow' = itemRow
      BY <2>1 DEF Files!PushFails, Files!SetRow, Files!Asks
    <2>3. CASE itemRow' = [itemRow EXCEPT ![i] = "failed"]
      BY <2>2, <2>3 DEF FilesInv, FileRows, FileRuns, Running, OriginalsAreThere, MixedIfTwo, RunsAlone,
         Files!DoneHasResult
    <2>4. CASE itemRow' = itemRow
      BY <2>2, <2>4 DEF FilesInv, FileRows, FileRuns, Running, OriginalsAreThere, MixedIfTwo, RunsAlone,
         Files!DoneHasResult
    <2> QED BY <2>2, <2>3, <2>4
  <1>6. CASE \E i \in Files!Item : Files!RequestDies(i)
    BY <1>6, KeysDiffer DEF Files!RequestDies, Files!Asks, FilesInv, FileRows, FileRuns, Running,
       OriginalsAreThere, MixedIfTwo, RunsAlone, Files!DoneHasResult
  <1> QED BY <1>1, <1>2, <1>3, <1>4, <1>5, <1>6

\* A run is over.  The row it completes has its result, unless the item is removed
\* or was run twice.
LEMMA RunEnds ==
    ASSUME FilesInv, NEW w \in Worker, Running(w), Files!Stop(w),
           \/ UNCHANGED itemRow
           \/ itemRow' = [itemRow EXCEPT ![heavyAt[w].item] = "failed"]
           \/ /\ itemRow' = [itemRow EXCEPT ![heavyAt[w].item] = "done"]
              /\ heavyAt[w].item \in leaving \cup mixed \/ Files!Result(heavyAt[w].item) \in files,
           UNCHANGED <<files, leaving, request, mixed>>,
           tickets' \in [Files!Item -> Nat],
           \A i \in Files!Item : tickets'[i] > 0 => itemRow[i] # "none"
    PROVE  FilesInv'
  <1> DEFINE i == heavyAt[w].item
  <1>1. heavyAt[w] \in Run /\ i \in Files!Item /\ itemRow[i] # "none"
    BY DEF FilesInv, FileRuns, Run
  <1>2. /\ heavyAt'[w] = Files!Idle /\ heavyAt' = [v \in Worker |-> heavyAt'[v]]
        /\ \A v \in Worker : v # w => heavyAt'[v] = heavyAt[v]
    BY DEF Files!Stop, FilesInv, FileRuns
  <1>3. /\ itemRow' \in [Files!Item -> {"none", "waiting", "working", "done", "failed", "removed"}]
        /\ \A j \in Files!Item : j # i => itemRow'[j] = itemRow[j]
        /\ \A j \in Files!Item : itemRow[j] # "none" <=> itemRow'[j] # "none"
        /\ itemRow'[i] = "done" => itemRow[i] = "done" \/ i \in leaving \cup mixed \/ Files!Result(i) \in files
    BY <1>1 DEF FilesInv, FileRows
  <1>4. \A v \in Worker : v # w /\ Running(v) /\ heavyAt[v].item = i => i \in mixed
    BY DEF FilesInv, MixedIfTwo
  <1>5. \A v \in Worker : Running(v) => heavyAt[v].item \in Files!Item
    BY DEF FilesInv, FileRuns, Run
  <1> HIDE DEF i
  <1>6. FileRows'
    BY <1>3 DEF FilesInv, FileRows
  <1>7. OriginalsAreThere'
    BY <1>3 DEF FilesInv, OriginalsAreThere, Files!Item
  <1>8. Files!DoneHasResult'
    BY <1>1, <1>3 DEF FilesInv, Files!DoneHasResult
  <1>9. FileRuns'
    BY <1>2, <1>3, <1>5 DEF FilesInv, FileRuns, Running
  <1>10. MixedIfTwo'
    BY <1>2 DEF FilesInv, MixedIfTwo, Running
  <1>11. RunsAlone'
    BY <1>2, <1>3, <1>4, <1>5 DEF FilesInv, RunsAlone, Running
  <1> QED BY <1>6, <1>7, <1>8, <1>9, <1>10, <1>11 DEF FilesInv

\* A run goes on with its item, whose row stays or is marked working.
LEMMA RunGoesOn ==
    ASSUME FilesInv, NEW w \in Worker, Running(w),
           NEW pc \in {"loaded", "working", "written", "spoiled", "failing"}, Files!Goto(w, pc),
           heavyAt[w].item \notin mixed => itemRow[heavyAt[w].item] # "done",
           itemRow' = itemRow \/ itemRow' = [itemRow EXCEPT ![heavyAt[w].item] = "working"],
           files' = files \/ files' = files \cup {Files!Result(heavyAt[w].item)},
           pc = "written" => Files!Result(heavyAt[w].item) \in files',
           UNCHANGED <<leaving, request, mixed, tickets>>
    PROVE  FilesInv'
  <1> DEFINE i == heavyAt[w].item
  <1>1. heavyAt[w] \in Run /\ i \in Files!Item /\ itemRow[i] # "none"
    BY DEF FilesInv, FileRuns, Run
  <1>2. /\ heavyAt'[w] = [heavyAt[w] EXCEPT !.pc = pc] /\ heavyAt' = [v \in Worker |-> heavyAt'[v]]
        /\ \A v \in Worker : v # w => heavyAt'[v] = heavyAt[v]
    BY DEF Files!Goto, FilesInv, FileRuns
  <1>3. heavyAt'[w] \in Run /\ heavyAt'[w].item = i /\ heavyAt'[w].pc = pc
    BY <1>1, <1>2 DEF Run
  <1>4. /\ itemRow' \in [Files!Item -> {"none", "waiting", "working", "done", "failed", "removed"}]
        /\ \A j \in Files!Item : itemRow[j] # "none" <=> itemRow'[j] # "none"
        /\ \A j \in Files!Item : itemRow'[j] = "done" => itemRow[j] = "done"
    BY <1>1 DEF FilesInv, FileRows
  <1>5. \A v \in Worker : Running(v) => heavyAt[v].item \in Files!Item
    BY DEF FilesInv, FileRuns, Run
  <1>6. files \subseteq files' /\ (pc = "written" => Files!Result(i) \in files')
    OBVIOUS
  <1>7. i \notin mixed => itemRow'[i] # "done"
    BY <1>1, <1>4
  <1> HIDE DEF i
  <1>8. FileRows'
    BY <1>4 DEF FilesInv, FileRows
  <1>9. OriginalsAreThere'
    BY <1>4, <1>6 DEF FilesInv, OriginalsAreThere, Files!Item
  <1>10. Files!DoneHasResult'
    BY <1>4, <1>6 DEF FilesInv, Files!DoneHasResult
  <1>11. FileRuns'
    BY <1>1, <1>2, <1>3, <1>4, <1>5 DEF FilesInv, FileRuns, Running
  <1>12. MixedIfTwo'
    BY <1>2, <1>3 DEF FilesInv, MixedIfTwo, Running, i
  <1>13. RunsAlone'
    BY <1>2, <1>3, <1>4, <1>5, <1>6, <1>7 DEF FilesInv, RunsAlone, Running
  <1> QED BY <1>8, <1>9, <1>10, <1>11, <1>12, <1>13 DEF FilesInv

\* A payload is taken: a second run of its item makes it a mixed one.
LEMMA TakeStep == ASSUME FilesInv, NEW w \in Worker, Files!Take(w) PROVE FilesInv'
  <1>1. PICK i \in Files!Item :
            /\ tickets[i] > 0 /\ tickets' = [tickets EXCEPT ![i] = @ - 1]
            /\ heavyAt' = [heavyAt EXCEPT ![w] = [pc |-> "taken", item |-> i]]
            /\ mixed' = IF \E v \in Worker : heavyAt[v] # Files!Idle /\ heavyAt[v].item = i
                        THEN mixed \cup {i} ELSE mixed
    BY DEF Files!Take
  <1>2. heavyAt[w] = Files!Idle /\ UNCHANGED <<itemRow, files, leaving, request>>
    BY DEF Files!Take
  <1>3. FileRows'
    BY <1>1, <1>2 DEF FilesInv, FileRows
  <1>4. mixed \subseteq mixed'
    BY <1>1
  <1>5. OriginalsAreThere' /\ Files!DoneHasResult'
    BY <1>2, <1>4 DEF FilesInv, OriginalsAreThere, Files!DoneHasResult
  <1>6. /\ heavyAt' = [v \in Worker |-> heavyAt'[v]] /\ heavyAt'[w] = [pc |-> "taken", item |-> i]
        /\ \A v \in Worker : v # w => heavyAt'[v] = heavyAt[v]
    BY <1>1 DEF FilesInv, FileRuns
  <1>7. heavyAt'[w] \in Run /\ heavyAt'[w].item = i /\ heavyAt'[w].pc = "taken"
    BY <1>6 DEF Run
  <1>8. FileRuns'
    BY <1>1, <1>2, <1>6, <1>7 DEF FilesInv, FileRuns, FileRows, Running
  <1>9. MixedIfTwo'
    BY <1>1, <1>4, <1>6, <1>7 DEF FilesInv, MixedIfTwo, Running
  <1>10. RunsAlone'
    BY <1>2, <1>4, <1>6, <1>7 DEF FilesInv, RunsAlone, Running
  <1> QED BY <1>3, <1>5, <1>8, <1>9, <1>10 DEF FilesInv

\* The row is read: it is unfinished, or the run ends.
LEMMA LoadItemStep == ASSUME FilesInv, NEW w \in Worker, Files!Load(w) PROVE FilesInv'
  <1> DEFINE i == heavyAt[w].item
  <1>1. /\ heavyAt[w].pc = "taken" /\ UNCHANGED <<leaving, files, request, tickets, mixed>>
        /\ \/ Files!Goto(w, "loaded") /\ UNCHANGED itemRow /\ itemRow[i] \in Files!Unfinished
           \/ Files!Stop(w) /\ itemRow' = [itemRow EXCEPT ![i] = "failed"]
           \/ Files!Stop(w) /\ UNCHANGED itemRow
    BY DEF Files!Load, Files!SetRow
  <1>2. Running(w)
    BY <1>1 DEF Running, Files!Idle
  <1>3. tickets' \in [Files!Item -> Nat] /\ \A j \in Files!Item : tickets'[j] > 0 => itemRow[j] # "none"
    BY <1>1 DEF FilesInv, FileRows
  <1>4. CASE Files!Goto(w, "loaded") /\ UNCHANGED itemRow /\ itemRow[i] \in Files!Unfinished
    BY <1>1, <1>2, <1>4, RunGoesOn DEF Files!Unfinished
  <1> QED BY <1>1, <1>2, <1>3, <1>4, RunEnds

\* A write of the run to its row.
LEMMA RunWrites ==
    ASSUME NEW w \in Worker, NEW st, NEW pc, Files!Writes(w, st, pc)
    PROVE  \/ Files!Stop(w) /\ UNCHANGED itemRow
           \/ /\ UNCHANGED itemRow \/ itemRow' = [itemRow EXCEPT ![heavyAt[w].item] = st]
              /\ IF pc = "idle" THEN Files!Stop(w) ELSE Files!Goto(w, pc)
  BY DEF Files!Writes

LEMMA RunStep ==
    ASSUME FilesInv, NEW w \in Worker,
           \/ Files!Start(w) \/ Files!WriteResult(w) \/ Files!BuildFails(w) \/ Files!WriteFails(w)
           \/ Files!Complete(w) \/ Files!MarkFailed(w)
    PROVE  FilesInv'
  <1> DEFINE i == heavyAt[w].item
  <1>1. /\ heavyAt[w].pc \in {"loaded", "working", "written", "failing"}
        /\ UNCHANGED <<leaving, request, tickets, mixed>>
    BY DEF Files!Start, Files!WriteResult, Files!BuildFails, Files!WriteFails, Files!Complete, Files!MarkFailed
  <1>2. Running(w)
    BY <1>1 DEF Running, Files!Idle
  <1>3. i \notin mixed => itemRow[i] # "done"
    BY <1>1, <1>2 DEF FilesInv, RunsAlone
  <1>4. tickets' \in [Files!Item -> Nat] /\ \A j \in Files!Item : tickets'[j] > 0 => itemRow[j] # "none"
    BY <1>1 DEF FilesInv, FileRows
  <1>5. CASE Files!Start(w)
    <2>1. UNCHANGED files /\ Files!Writes(w, "working", "working")
      BY <1>5 DEF Files!Start
    <2>2. CASE Files!Stop(w) /\ UNCHANGED itemRow
      BY <1>1, <1>2, <1>4, <2>1, <2>2, RunEnds
    <2>3. CASE /\ UNCHANGED itemRow \/ itemRow' = [itemRow EXCEPT ![i] = "working"]
               /\ Files!Goto(w, "working")
      BY <1>1, <1>2, <1>3, <2>1, <2>3, RunGoesOn
    <2> QED BY <2>1, <2>2, <2>3, RunWrites
  <1>6. CASE Files!WriteResult(w)
    <2>1. files' = files \cup {Files!Result(i)} /\ Files!Goto(w, "written") /\ itemRow' = itemRow
      BY <1>6 DEF Files!WriteResult
    <2> QED BY <1>1, <1>2, <1>3, <2>1, RunGoesOn
  <1>7. CASE Files!BuildFails(w) \/ Files!WriteFails(w)
    <2>1. files' = files /\ (Files!Goto(w, "failing") \/ Files!Goto(w, "spoiled")) /\ itemRow' = itemRow
      BY <1>7 DEF Files!BuildFails, Files!WriteFails
    <2> QED BY <1>1, <1>2, <1>3, <2>1, RunGoesOn
  <1>8. CASE Files!Complete(w)
    <2>1. heavyAt[w].pc = "written" /\ UNCHANGED files /\ Files!Writes(w, "done", "idle")
      BY <1>8 DEF Files!Complete
    <2>2. i \in leaving \cup mixed \/ Files!Result(i) \in files
      BY <1>2, <2>1 DEF FilesInv, RunsAlone
    <2>3. Files!Stop(w) /\ (UNCHANGED itemRow \/ itemRow' = [itemRow EXCEPT ![i] = "done"])
      BY <2>1, RunWrites
    <2> QED BY <1>1, <1>2, <1>4, <2>1, <2>2, <2>3, RunEnds
  <1>9. CASE Files!MarkFailed(w)
    <2>1. UNCHANGED files /\ Files!Writes(w, "failed", "idle")
      BY <1>9 DEF Files!MarkFailed
    <2>2. Files!Stop(w) /\ (UNCHANGED itemRow \/ itemRow' = [itemRow EXCEPT ![i] = "failed"])
      BY <2>1, RunWrites
    <2> QED BY <1>1, <1>2, <1>4, <2>1, <2>2, RunEnds
  <1> QED BY <1>5, <1>6, <1>7, <1>8, <1>9

\* What was written is deleted: no other run of the item that counts has written it.
LEMMA DeleteSpoiledStep == ASSUME FilesInv, NEW w \in Worker, Files!DeleteSpoiled(w) PROVE FilesInv'
  <1> DEFINE i == heavyAt[w].item
  <1>1. /\ heavyAt[w].pc = "spoiled" /\ files' = files \ {Files!Result(i)} /\ Files!Goto(w, "failing")
        /\ UNCHANGED <<itemRow, leaving, request, tickets, mixed>>
    BY DEF Files!DeleteSpoiled
  <1>2. Running(w)
    BY <1>1 DEF Running, Files!Idle
  <1>3. heavyAt[w] \in Run /\ i \in Files!Item /\ itemRow[i] # "none" /\ (i \notin mixed => itemRow[i] # "done")
    BY <1>1, <1>2 DEF FilesInv, FileRuns, Run, RunsAlone
  <1>4. /\ heavyAt'[w] = [heavyAt[w] EXCEPT !.pc = "failing"] /\ heavyAt' = [v \in Worker |-> heavyAt'[v]]
        /\ \A v \in Worker : v # w => heavyAt'[v] = heavyAt[v]
    BY <1>1 DEF Files!Goto, FilesInv, FileRuns
  <1>5. heavyAt'[w] \in Run /\ heavyAt'[w].item = i /\ heavyAt'[w].pc = "failing"
    BY <1>3, <1>4 DEF Run
  <1>6. \A v \in Worker : v # w /\ Running(v) /\ heavyAt[v].item = i => i \in mixed
    BY <1>2 DEF FilesInv, MixedIfTwo
  <1>7. \A j : /\ j # i /\ Files!Result(j) \in files => Files!Result(j) \in files'
               /\ Files!Original(j) \in files => Files!Original(j) \in files'
    BY <1>1, KeysDiffer
  <1> HIDE DEF i
  <1>8. FileRows' /\ OriginalsAreThere'
    BY <1>1, <1>7 DEF FilesInv, FileRows, OriginalsAreThere
  <1>9. Files!DoneHasResult'
    BY <1>1, <1>3, <1>7 DEF FilesInv, Files!DoneHasResult
  <1>10. FileRuns' /\ MixedIfTwo'
    <2>1. \A v \in Worker : heavyAt'[v] # Files!Idle => Running(v) /\ heavyAt'[v].item = heavyAt[v].item
      BY <1>2, <1>4, <1>5 DEF Running, i
    <2>2. FileRuns'
      BY <1>1, <1>3, <1>4, <1>5, <2>1 DEF FilesInv, FileRuns, Running
    <2>3. MixedIfTwo'
      BY <1>1, <2>1 DEF FilesInv, MixedIfTwo, Running
    <2> QED BY <2>2, <2>3
  <1>11. RunsAlone'
    BY <1>1, <1>3, <1>4, <1>5, <1>6, <1>7 DEF FilesInv, RunsAlone, Running
  <1> QED BY <1>8, <1>9, <1>10, <1>11 DEF FilesInv

\* A run that fails or dies, and a lease that runs out under one.
LEMMA LostRunStep ==
    ASSUME FilesInv, NEW w \in Worker, Files!RunFails(w) \/ Files!WorkerDies(w) \/ Files!LeaseRunsOut(w)
    PROVE  FilesInv'
  <1>1. Running(w) /\ UNCHANGED <<itemRow, leaving, files, request, mixed>>
    BY DEF Files!RunFails, Files!WorkerDies, Files!LeaseRunsOut, Running
  <1>2. heavyAt[w].item \in Files!Item /\ itemRow[heavyAt[w].item] # "none"
    BY <1>1 DEF FilesInv, FileRuns, Run
  <1>3. tickets' = tickets \/ Files!Ticket(heavyAt[w].item)
    BY DEF Files!RunFails, Files!WorkerDies, Files!LeaseRunsOut
  <1>4. tickets' \in [Files!Item -> Nat] /\ \A i \in Files!Item : tickets'[i] > 0 => itemRow[i] # "none"
    BY <1>2, <1>3 DEF FilesInv, FileRows, Files!Ticket
  <1>5. CASE Files!LeaseRunsOut(w)
    <2>1. UNCHANGED heavyAt
      BY <1>5 DEF Files!LeaseRunsOut
    <2> QED BY <1>1, <1>4, <2>1 DEF FilesInv, FileRows, FileRuns, Running, OriginalsAreThere, MixedIfTwo, RunsAlone,
               Files!DoneHasResult
  <1>6. CASE Files!RunFails(w) \/ Files!WorkerDies(w)
    BY <1>1, <1>4, <1>6, RunEnds DEF Files!RunFails, Files!WorkerDies
  <1> QED BY <1>5, <1>6

\* Redis loses its data, and a starting worker makes up for it: only payloads change.
LEMMA LaneStep ==
    ASSUME FilesInv, Files!LoseRedis \/ Files!Inspect \/ Files!Reenqueue
    PROVE  FilesInv'
  <1>1. UNCHANGED <<itemRow, leaving, files, request, heavyAt, mixed>>
    BY DEF Files!LoseRedis, Files!Inspect, Files!Reenqueue
  <1>2. tickets' \in [Files!Item -> Nat] /\ \A i \in Files!Item : tickets'[i] > 0 => itemRow[i] # "none"
    BY DEF FilesInv, FileRows, Files!LoseRedis, Files!Inspect, Files!Reenqueue, Files!Lists, Files!Unfinished
  <1> QED BY <1>1, <1>2 DEF FilesInv, FileRows, FileRuns, Running, OriginalsAreThere, MixedIfTwo, RunsAlone,
             Files!DoneHasResult

\* A row is removed.
LEMMA RowGoes ==
    ASSUME FilesInv, NEW i \in Files!Item, itemRow[i] # "none",
           itemRow' = [itemRow EXCEPT ![i] = "removed"],
           UNCHANGED <<files, leaving, request, mixed, tickets, heavyAt>>
    PROVE  FilesInv'
  BY DEF FilesInv, FileRows, FileRuns, Running, OriginalsAreThere, MixedIfTwo, RunsAlone, Files!DoneHasResult

\* Removal deletes only what is of an item that is leaving.
LEMMA RemovalStep ==
    ASSUME FilesInv, cleaned \subseteq leaving, NEW i \in Files!Item,
           Files!Leave(i) \/ Files!RemoveFiles(i) \/ Files!RemoveRow(i)
    PROVE  FilesInv'
  <1>1. CASE Files!Leave(i)
    BY <1>1 DEF Files!Leave, FilesInv, FileRows, FileRuns, Running, OriginalsAreThere, MixedIfTwo, RunsAlone,
       Files!DoneHasResult
  <1>2. CASE Files!RemoveFiles(i)
    <2>1. /\ i \in leaving /\ files' \subseteq files
          /\ UNCHANGED <<itemRow, leaving, request, tickets, heavyAt, mixed>>
          /\ \A k \in files \ files' : k = Files!Original(i) \/ k = Files!Result(i)
      BY <1>2 DEF Files!RemoveFiles
    <2>2. \A j : /\ j # i /\ Files!Result(j) \in files => Files!Result(j) \in files'
                 /\ j # i /\ Files!Original(j) \in files => Files!Original(j) \in files'
      BY <2>1, KeysDiffer
    <2>3. itemRow[i] # "none" /\ Photo \subseteq Files!Item
      BY <2>1 DEF FilesInv, FileRows, Files!Item
    <2>4. FileRows' /\ FileRuns' /\ MixedIfTwo'
      BY <2>1 DEF FilesInv, FileRows, FileRuns, MixedIfTwo, Running
    <2>5. OriginalsAreThere'
      BY <2>1, <2>2, <2>3 DEF FilesInv, OriginalsAreThere
    <2>6. RunsAlone' /\ Files!DoneHasResult'
      BY <2>1, <2>2 DEF FilesInv, RunsAlone, Running, Files!DoneHasResult
    <2> QED BY <2>4, <2>5, <2>6 DEF FilesInv
  <1>3. CASE Files!RemoveRow(i)
    <2>1. i \in leaving /\ itemRow' = [itemRow EXCEPT ![i] = "removed"]
          /\ UNCHANGED <<files, leaving, request, mixed, tickets, heavyAt>>
      BY <1>3 DEF Files!RemoveRow, Files!SetRow
    <2>2. itemRow[i] # "none"
      BY <2>1 DEF FilesInv, FileRows
    <2> QED BY <2>1, <2>2, RowGoes
  <1> QED BY <1>1, <1>2, <1>3

\* Only what leaves is cleaned up.
LEMMA CleanedStep == cleaned \subseteq leaving /\ Files!Next => cleaned' \subseteq leaving'
  <1> SUFFICES ASSUME cleaned \subseteq leaving, Files!Next PROVE cleaned' \subseteq leaving'
    OBVIOUS
  <1>1. ASSUME NEW i \in Files!Item, Files!Leave(i) \/ Files!RemoveFiles(i)
        PROVE  cleaned' \subseteq leaving'
    BY <1>1 DEF Files!Leave, Files!RemoveFiles
  <1>2. ASSUME UNCHANGED <<cleaned, leaving>> PROVE cleaned' \subseteq leaving'
    BY <1>2
  <1>3. ASSUME NEW w \in Worker, Files!WorkerStep(w) PROVE UNCHANGED <<cleaned, leaving>>
    BY <1>3 DEF Files!WorkerStep, Files!Take, Files!Load, Files!Start, Files!WriteResult, Files!DeleteSpoiled,
       Files!Complete, Files!MarkFailed
  <1>4. ASSUME NEW w \in Worker, \/ Files!BuildFails(w) \/ Files!WriteFails(w) \/ Files!RunFails(w)
                                 \/ Files!WorkerDies(w) \/ Files!LeaseRunsOut(w)
        PROVE  UNCHANGED <<cleaned, leaving>>
    BY <1>4 DEF Files!BuildFails, Files!WriteFails, Files!RunFails, Files!WorkerDies, Files!LeaseRunsOut
  <1>5. ASSUME NEW i \in Files!Item, \/ Files!Insert(i) \/ Files!Push(i) \/ Files!PushFails(i)
                                     \/ Files!RequestDies(i) \/ Files!RemoveRow(i)
        PROVE  UNCHANGED <<cleaned, leaving>>
    BY <1>5 DEF Files!Insert, Files!Push, Files!PushFails, Files!RequestDies, Files!RemoveRow
  <1>6. ASSUME NEW p \in Photo, Files!SaveOriginal(p) \/ Files!InsertFails(p)
        PROVE  UNCHANGED <<cleaned, leaving>>
    BY <1>6 DEF Files!SaveOriginal, Files!InsertFails
  <1>7. ASSUME Files!LoseRedis \/ Files!Inspect \/ Files!Reenqueue PROVE UNCHANGED <<cleaned, leaving>>
    BY <1>7 DEF Files!LoseRedis, Files!Inspect, Files!Reenqueue
  <1> QED BY <1>1, <1>2, <1>3, <1>4, <1>5, <1>6, <1>7 DEF Files!Next

FilesIInv == FilesInv /\ cleaned \subseteq leaving

LEMMA FilesStep == FilesIInv /\ [Files!Next]_(Files!vars) => FilesIInv'
  <1> SUFFICES ASSUME FilesInv, cleaned \subseteq leaving, [Files!Next]_(Files!vars)
               PROVE  FilesInv' /\ cleaned' \subseteq leaving'
    BY DEF FilesIInv
  <1>1. CASE UNCHANGED Files!vars
    BY <1>1 DEF Files!vars, FilesInv, FileRows, FileRuns, Running, OriginalsAreThere, MixedIfTwo, RunsAlone,
       Files!DoneHasResult
  <1>2. CASE Files!Next
    <2>1. cleaned' \subseteq leaving'
      BY <1>2, CleanedStep
    <2>2. ASSUME NEW p \in Photo, Files!SaveOriginal(p) \/ Files!InsertFails(p) PROVE FilesInv'
      BY <2>2, RequestStep
    <2>3. ASSUME NEW i \in Files!Item,
                 Files!Insert(i) \/ Files!Push(i) \/ Files!PushFails(i) \/ Files!RequestDies(i)
          PROVE  FilesInv'
      BY <2>3, RequestStep
    <2>4. ASSUME NEW i \in Files!Item, Files!Leave(i) \/ Files!RemoveFiles(i) \/ Files!RemoveRow(i)
          PROVE  FilesInv'
      BY <2>4, RemovalStep
    <2>5. ASSUME NEW w \in Worker, Files!WorkerStep(w) \/ Files!BuildFails(w) \/ Files!WriteFails(w)
          PROVE  FilesInv'
      BY <2>5, TakeStep, LoadItemStep, RunStep, DeleteSpoiledStep DEF Files!WorkerStep
    <2>6. ASSUME NEW w \in Worker, Files!RunFails(w) \/ Files!WorkerDies(w) \/ Files!LeaseRunsOut(w)
          PROVE  FilesInv'
      BY <2>6, LostRunStep
    <2>7. ASSUME Files!LoseRedis \/ Files!Inspect \/ Files!Reenqueue PROVE FilesInv'
      BY <2>7, LaneStep
    <2> QED BY <1>2, <2>1, <2>2, <2>3, <2>4, <2>5, <2>6, <2>7 DEF Files!Next
  <1> QED BY <1>1, <1>2

LEMMA FilesAlways == Files!Spec => []FilesIInv
<1>1. Files!Init => FilesIInv
  BY FilesInitInv DEF FilesIInv, Files!Init
<1> QED BY <1>1, FilesStep, PTL DEF Files!Spec

\* The rows, payloads and runs of exports and photos are always as the code can
\* leave them, and a photo that is not leaving has its original.
THEOREM FileTypes == Files!Spec => []Files!TypeOK
<1>1. FilesIInv => Files!TypeOK
  <2> SUFFICES ASSUME FilesInv PROVE Files!TypeOK
    BY DEF FilesIInv
  <2>1. /\ \A i \in Files!Item : itemRow[i] \in {"none", "waiting", "working", "done", "failed", "removed"}
        /\ \A i \in Files!Item : tickets[i] \in Nat
    BY DEF FilesInv, FileRows
  <2>2. \A w \in Worker : heavyAt[w] # Files!Idle => itemRow[heavyAt[w].item] # "none"
    BY DEF FilesInv, FileRuns, Running
  <2>3. \A p \in Photo \ leaving : itemRow[p] # "none" => Files!Original(p) \in files
    BY DEF FilesInv, OriginalsAreThere
  <2> QED BY <2>1, <2>2, <2>3 DEF Files!TypeOK
<1> QED BY <1>1, FilesAlways, PTL

\* For any exports, photos, workers and failures: a completed export and a ready
\* photo have their file (process_export_by_id, process_photo_variants_by_id),
\* unless they are removed or two workers ran the same payload at once.
THEOREM CompletedHasItsFile == Files!Spec => []DoneHasResult
<1>1. FilesIInv => DoneHasResult
  BY DEF FilesIInv, FilesInv, DoneHasResult
<1> QED BY <1>1, FilesAlways, PTL

-----------------------------------------------------------------------------
\* The services together.

\* What any of the services beside the lanes stores and holds is always of the
\* kind its code puts there, whatever requests, workers and timers interleave,
\* for any number of each; the services share no state, so each keeps its own.
THEOREM ServiceTypes ==
    /\ Spec /\ EventsSpec /\ CacheSpec /\ SessionsSpec /\ WorkItemSpec /\ AuditSpec /\ Files!Spec
    /\ QuotesSpec /\ TenantSpec
    => []ServicesTypeOK
<1>1. /\ TypeOK /\ EventsTypeOK /\ CacheTypeOK /\ SessionsTypeOK
      /\ WorkItemTypeOK /\ AuditTypeOK /\ Files!TypeOK /\ QuotesTypeOK /\ TenantTypeOK
      => ServicesTypeOK
  BY DEF ServicesTypeOK
<1> QED
  BY <1>1, CaseTypes, EventTypes, CacheTypes, SessionTypes, ItemTypesTheorem, AuditTypes, FileTypes,
     QuoteTypes, TenantTypes, PTL

=============================================================================
