---------------------------- MODULE PubSubProofs ----------------------------
(***************************************************************************)
(* The Pub/Sub binding, for any number of requests, any poison and any     *)
(* number of deliveries: it is an implementation of the service, nothing   *)
(* it reports as emitted leaves custody, what Core stores is a record some *)
(* dispatch has reached, and custody is what it keeps the contract for.    *)
(***************************************************************************)
EXTENDS PubSub, SimServiceProofs

-----------------------------------------------------------------------------
LEMMA PubStepIsServiceStep == [PubNext]_pubVars => [Next]_serviceVars
<1> SUFFICES ASSUME [PubNext]_pubVars PROVE [Next]_serviceVars
  OBVIOUS
<1>1. CASE Environment
  BY <1>1 DEF Next
<1>2. ASSUME NEW r \in Requests, Resolve(r) \/ Decide(r) \/ Finish(r)
      PROVE  Next
  BY <1>2 DEF Next, Handle
<1>3. ASSUME NEW r \in Requests, Send(r) PROVE Next
  BY <1>3 DEF Next, Handle, Send
<1>4. ASSUME NEW r \in Requests, BrokerAccepts(r) \/ Deliver(r)
      PROVE  UNCHANGED serviceVars
  BY <1>4 DEF BrokerAccepts, Deliver, Acknowledged, Unacknowledged, Repeated
<1>5. ASSUME NEW r \in Requests, FutureResult(r) \/ FutureRaises(r) PROVE Next
  BY <1>5 DEF Next, PublishEnds, FutureResult, FutureRaises
<1>6. CASE UNCHANGED pubVars
  BY <1>6 DEF pubVars
<1> QED
  BY <1>1, <1>2, <1>3, <1>4, <1>5, <1>6 DEF PubNext

(* The service over a broker takes only the steps the service takes under  *)
(* an arbitrary publisher: what is proved of the service holds here.       *)
THEOREM PubSubImplementsService == PubSpec => Spec
<1>1. PubInit => Init
  BY DEF PubInit
<1> QED
  BY <1>1, PubStepIsServiceStep, PTL DEF PubSpec, Spec

-----------------------------------------------------------------------------
(* Where a request is says how many messages the topic has taken of it,    *)
(* and whether the client library is still at its last record.             *)
ClientOK ==
  \A r \in Requests :
    /\ client[r] # "idle" =>
         /\ pc[r] \in {"publishing", "answered", "killed"}
         /\ status[r] # 200
         /\ at[r] \in 1..Len(batch[r].records)
    /\ client[r] = "sending" => Len(topic[r]) = at[r] - 1
    /\ client[r] = "accepted" => Len(topic[r]) = at[r]
    /\ pc[r] = "emitting" => Len(topic[r]) = at[r] - 1
    /\ Begun(r) => Len(topic[r]) \in {at[r] - 1, at[r]}
    /\ ~Begun(r) => topic[r] = << >>
    /\ Len(topic[r]) <= Len(batch[r].records)

NoneRejected == \A r \in Requests : report[r].rejected = 0

TopicOK ==
  \A r \in Requests : \A i \in DOMAIN topic[r] :
    /\ InCustody(r, i)
    /\ topic[r][i].record = Records(r)[i]
    /\ topic[r][i].state = "pending" => topic[r][i].attempts < MaxDeliveries

RowsOK ==
  /\ \A row \in rows :
       /\ row.hash \notin Poison
       /\ \E r \in Requests : \E i \in DOMAIN topic[r] : row = topic[r][i].record
  /\ \A row1, row2 \in rows : row1.hash = row2.hash => row1 = row2

PubInv ==
  /\ ServiceInv
  /\ PubTypeOK
  /\ ClientOK
  /\ NoneRejected
  /\ TopicOK
  /\ RowsOK

-----------------------------------------------------------------------------
MessageSet == [record   : CanonicalRecord,
               state    : {"pending", "acknowledged", "dead"},
               attempts : 0..MaxDeliveries]

LEMMA TopicTypes ==
  ASSUME PubTypeOK, NEW r \in Requests
  PROVE  /\ topic[r] \in Seq(MessageSet)
         /\ Len(topic[r]) \in Nat
         /\ DOMAIN topic[r] = 1..Len(topic[r])
         /\ \A i \in DOMAIN topic[r] : topic[r][i] \in MessageSet
<1>1. topic[r] \in Seq(MessageSet)
  BY DEF PubTypeOK, MessageSet
<1>2. Len(topic[r]) \in Nat /\ DOMAIN topic[r] = 1..Len(topic[r])
  BY <1>1
<1>3. \A i \in DOMAIN topic[r] : topic[r][i] \in MessageSet
  BY <1>1, <1>2, ElementOfSeq
<1> QED
  BY <1>1, <1>2, <1>3

(* The messages of a request are of records it has reached.                *)
LEMMA MessagesReached ==
  ASSUME PubInv, NEW r \in Requests, NEW i \in DOMAIN topic[r]
  PROVE  /\ i \in 1..Len(batch[r].records)
         /\ i <= at[r]
         /\ topic[r][i].record = Records(r)[i]
         /\ topic[r][i].record \in CanonicalRecord
         /\ topic[r][i].record.hash \in Hashes
<1>1. TypeOK /\ PubTypeOK /\ ClientOK /\ TopicOK
  BY DEF PubInv, ServiceInv
<1>2. i \in 1..Len(topic[r]) /\ Len(topic[r]) \in Nat
  BY <1>1, TopicTypes
<1>3. Begun(r)
  <2>1. ~Begun(r) => Len(topic[r]) = 0
    BY <1>1 DEF ClientOK
  <2> QED
    BY <1>2, <2>1
<1>4. at[r] \in Nat /\ Len(batch[r].records) \in Nat
  BY <1>1, RequestTypes
<1>5. /\ Len(topic[r]) <= Len(batch[r].records)
      /\ Len(topic[r]) \in {at[r] - 1, at[r]}
  BY <1>1, <1>3 DEF ClientOK
<1>6. i \in 1..Len(batch[r].records) /\ i <= at[r]
  BY <1>2, <1>4, <1>5
<1>7. topic[r][i].record = Records(r)[i]
  BY <1>1 DEF TopicOK
<1> QED
  BY <1>1, <1>6, <1>7, RecordsOfRequest

(* A step of a thread or of the environment: nothing reaches the topic or  *)
(* Core, no record is rejected, and a batch that has messages stays.       *)
LEMMA ThreadStep ==
  ASSUME PubInv, ServiceInv', UNCHANGED <<topic, rows>>,
         client' \in [Requests -> {"idle", "sending", "accepted"}],
         \A r \in Requests : report'[r].rejected = report[r].rejected,
         \A r \in Requests : Begun(r) => Records(r)' = Records(r),
         ClientOK'
  PROVE  PubInv'
<1> USE DEF PubInv
<1>1. PubTypeOK'
  BY DEF PubTypeOK, ServiceInv
<1>2. NoneRejected'
  BY DEF NoneRejected
<1>3. \A r \in Requests : \A i \in DOMAIN topic[r] : Records(r)' = Records(r)
  <2> SUFFICES ASSUME NEW r \in Requests, NEW i \in DOMAIN topic[r]
               PROVE  Begun(r)
    OBVIOUS
  <2> QED
    BY DEF ClientOK
<1>4. TopicOK'
  <2>1. StoredHashes' = StoredHashes
    BY DEF StoredHashes
  <2> QED
    BY <1>3, <2>1 DEF TopicOK, InCustody
<1>5. RowsOK'
  BY DEF RowsOK
<1> QED
  BY <1>1, <1>2, <1>4, <1>5

(* The library has taken nothing of a request that is not publishing.      *)
LEMMA NotPublishing ==
  ASSUME PubInv, NEW r \in Requests, pc[r] \in {"new", "admitted", "emitting"}
  PROVE  client[r] = "idle"
BY DEF PubInv, ClientOK

(* A request is answered, with or without its client library giving up.    *)
LEMMA PubAnswerStep ==
  ASSUME PubInv, ServiceInv', NEW r \in Requests,
         NEW code \in {200, 404, 422, 500, 502, 503},
         code = 200 => client[r] = "idle",
         Answer(r, code),
         UNCHANGED <<body, batch, at, report, topic, rows>>,
         client' = client \/ client' = [client EXCEPT ![r] = "idle"]
  PROVE  PubInv'
<1> USE DEF PubInv
<1>1. /\ pc' = [pc EXCEPT ![r] = "answered"]
      /\ status' = [status EXCEPT ![r] = code]
      /\ TypeOK
  BY DEF Answer, ServiceInv
<1>2. /\ client' \in [Requests -> {"idle", "sending", "accepted"}]
      /\ \A s \in Requests : client'[s] # "idle" => client'[s] = client[s]
  <2>1. client \in [Requests -> {"idle", "sending", "accepted"}]
    BY DEF PubTypeOK
  <2> HIDE DEF PubInv
  <2>2. CASE client' = client
    BY <2>1, <2>2
  <2>3. CASE client' = [client EXCEPT ![r] = "idle"]
    BY <2>1, <2>3
  <2> QED
    BY <2>2, <2>3
<1>3. /\ pc'[r] = "answered" /\ status'[r] = code
      /\ \A s \in Requests \ {r} : pc'[s] = pc[s] /\ status'[s] = status[s]
  BY <1>1 DEF TypeOK
<1>4. client'[r] # "idle" => code # 200
  BY <1>2
<1>5. ClientOK'
  <2> SUFFICES ASSUME NEW s \in Requests
      PROVE /\ client'[s] # "idle" =>
                 /\ pc'[s] \in {"publishing", "answered", "killed"}
                 /\ status'[s] # 200
                 /\ at[s] \in 1..Len(batch[s].records)
            /\ client'[s] = "sending" => Len(topic[s]) = at[s] - 1
            /\ client'[s] = "accepted" => Len(topic[s]) = at[s]
            /\ pc'[s] = "emitting" => Len(topic[s]) = at[s] - 1
            /\ Begun(s) => Len(topic[s]) \in {at[s] - 1, at[s]}
            /\ ~Begun(s) => topic[s] = << >>
            /\ Len(topic[s]) <= Len(batch[s].records)
    BY DEF ClientOK, Begun
  <2> QED
    BY <1>2, <1>3, <1>4 DEF ClientOK
<1>6. \A s \in Requests : Records(s)' = Records(s)
  BY SameRecords
<1>7. \A s \in Requests : report'[s].rejected = report[s].rejected
  OBVIOUS
<1> QED
  BY <1>2, <1>5, <1>6, <1>7, ThreadStep

LEMMA PubBuildStep ==
  ASSUME PubInv, ServiceInv', NEW r \in Requests, Build(r),
         UNCHANGED <<custodyVars, rows>>
  PROVE  PubInv'
<1> USE DEF PubInv
<1>1. /\ at' = [at EXCEPT ![r] = 1]
      /\ batch' = [batch EXCEPT ![r] = BatchOf(body[r], today)]
      /\ pc' = [pc EXCEPT ![r] = "emitting"]
      /\ pc[r] = "admitted"
      /\ UNCHANGED <<body, report, status>>
      /\ TypeOK /\ TypeOK'
  BY DEF Build, ServiceInv
<1>2. at[r] = 0 /\ client[r] = "idle" /\ ~Begun(r) /\ topic[r] = << >>
  BY <1>1 DEF Stages, ServiceInv, ClientOK, Begun
<1>3. \A s \in Requests \ {r} :
        /\ batch'[s] = batch[s] /\ at'[s] = at[s] /\ pc'[s] = pc[s]
        /\ Begun(s)' = Begun(s)
        /\ Records(s)' = Records(s)
  BY <1>1 DEF TypeOK, Records, Begun
<1>4. /\ at'[r] = 1 /\ pc'[r] = "emitting" /\ Begun(r)'
      /\ Len(batch'[r].records) \in Nat
      /\ Len(topic[r]) = 0
  <2>1. at'[r] = 1 /\ pc'[r] = "emitting"
    BY <1>1 DEF TypeOK
  <2>2. Len(batch'[r].records) \in Nat
    <3>1. batch'[r] \in GeneratedBatch
      BY <1>1 DEF TypeOK
    <3> QED
      BY <3>1 DEF GeneratedBatch
  <2> QED
    BY <1>2, <2>1, <2>2 DEF Begun
<1>5. UNCHANGED <<client, topic>>
  BY DEF custodyVars
<1>6. ClientOK'
  <2> SUFFICES ASSUME NEW s \in Requests
      PROVE /\ client[s] # "idle" =>
                 /\ pc'[s] \in {"publishing", "answered", "killed"}
                 /\ status[s] # 200
                 /\ at'[s] \in 1..Len(batch'[s].records)
            /\ client[s] = "sending" => Len(topic[s]) = at'[s] - 1
            /\ client[s] = "accepted" => Len(topic[s]) = at'[s]
            /\ pc'[s] = "emitting" => Len(topic[s]) = at'[s] - 1
            /\ Begun(s)' => Len(topic[s]) \in {at'[s] - 1, at'[s]}
            /\ ~Begun(s)' => topic[s] = << >>
            /\ Len(topic[s]) <= Len(batch'[s].records)
    BY <1>1, <1>5 DEF ClientOK
  <2>1. CASE s = r
    BY <1>2, <1>4, <2>1
  <2>2. CASE s # r
    BY <1>3, <2>2 DEF ClientOK
  <2> QED
    BY <2>1, <2>2
<1>7. \A s \in Requests : Begun(s) => Records(s)' = Records(s)
  BY <1>2, <1>3
<1>8. client' \in [Requests -> {"idle", "sending", "accepted"}]
  BY <1>5 DEF PubTypeOK
<1>9. \A s \in Requests : report'[s].rejected = report[s].rejected
  BY <1>1
<1> QED
  BY <1>5, <1>6, <1>7, <1>8, <1>9, ThreadStep

LEMMA SendStep ==
  ASSUME PubInv, ServiceInv', NEW r \in Requests, Send(r)
  PROVE  PubInv'
<1> USE DEF PubInv
<1>1. /\ pc' = [pc EXCEPT ![r] = "publishing"]
      /\ pc[r] = "emitting" /\ at[r] <= Len(batch[r].records)
      /\ client' = [client EXCEPT ![r] = "sending"]
      /\ UNCHANGED <<body, batch, at, report, status, topic, rows>>
      /\ TypeOK
  BY DEF Send, Publish, ServiceInv
<1>2. at[r] \in 1..Len(batch[r].records) /\ status[r] = 0
  BY <1>1, RequestTypes DEF ServiceInv, Stages, Begun
<1>3. /\ pc'[r] = "publishing" /\ client'[r] = "sending"
      /\ \A s \in Requests \ {r} : pc'[s] = pc[s] /\ client'[s] = client[s]
  BY <1>1 DEF TypeOK, PubTypeOK
<1>4. ClientOK'
  <2> SUFFICES ASSUME NEW s \in Requests
      PROVE /\ client'[s] # "idle" =>
                 /\ pc'[s] \in {"publishing", "answered", "killed"}
                 /\ status[s] # 200
                 /\ at[s] \in 1..Len(batch[s].records)
            /\ client'[s] = "sending" => Len(topic[s]) = at[s] - 1
            /\ client'[s] = "accepted" => Len(topic[s]) = at[s]
            /\ pc'[s] = "emitting" => Len(topic[s]) = at[s] - 1
            /\ Begun(s) => Len(topic[s]) \in {at[s] - 1, at[s]}
            /\ ~Begun(s) => topic[s] = << >>
            /\ Len(topic[s]) <= Len(batch[s].records)
    BY <1>1 DEF ClientOK, Begun
  <2>1. CASE s = r
    BY <1>1, <1>2, <1>3, <2>1 DEF ClientOK
  <2>2. CASE s # r
    BY <1>3, <2>2 DEF ClientOK
  <2> QED
    BY <2>1, <2>2
<1>5. client' \in [Requests -> {"idle", "sending", "accepted"}]
  BY <1>1 DEF PubTypeOK
<1>6. \A s \in Requests : Records(s)' = Records(s)
  BY <1>1, SameRecords
<1>7. \A s \in Requests : report'[s].rejected = report[s].rejected
  BY <1>1
<1> QED
  BY <1>1, <1>4, <1>5, <1>6, <1>7, ThreadStep

LEMMA FutureResultStep ==
  ASSUME PubInv, ServiceInv', NEW r \in Requests, FutureResult(r)
  PROVE  PubInv'
<1> USE DEF PubInv
<1>1. /\ pc' = [pc EXCEPT ![r] = "emitting"]
      /\ at' = [at EXCEPT ![r] = @ + 1]
      /\ client' = [client EXCEPT ![r] = "idle"]
      /\ client[r] = "accepted"
      /\ UNCHANGED <<body, batch, status, topic, rows>>
      /\ TypeOK
  BY DEF FutureResult, PublishReturns, Tally, ServiceInv
<1>2. /\ pc'[r] = "emitting" /\ at'[r] = at[r] + 1 /\ client'[r] = "idle"
      /\ at[r] \in Nat /\ Begun(r)'
      /\ \A s \in Requests \ {r} :
           /\ pc'[s] = pc[s] /\ at'[s] = at[s] /\ client'[s] = client[s]
           /\ Begun(s)' = Begun(s)
  BY <1>1 DEF TypeOK, PubTypeOK, Begun
<1>3. \A s \in Requests : report'[s].rejected = report[s].rejected
  <2>1. report' = [report EXCEPT
          ![r] = [emitted       |-> @.emitted + 1,
                  rejected      |-> @.rejected + 0,
                  source_hashes |-> Append(@.source_hashes,
                                           Records(r)[at[r]].hash)]]
    BY DEF FutureResult, PublishReturns, Tally
  <2>2. report'[r].rejected = report[r].rejected + 0
    BY <1>1, <2>1 DEF TypeOK
  <2>3. report[r].rejected \in Nat
    BY <1>1, RequestTypes
  <2>4. \A s \in Requests \ {r} : report'[s] = report[s]
    BY <1>1, <2>1 DEF TypeOK
  <2> QED
    BY <2>2, <2>3, <2>4
<1>4. ClientOK'
  <2> SUFFICES ASSUME NEW s \in Requests
      PROVE /\ client'[s] # "idle" =>
                 /\ pc'[s] \in {"publishing", "answered", "killed"}
                 /\ status[s] # 200
                 /\ at'[s] \in 1..Len(batch[s].records)
            /\ client'[s] = "sending" => Len(topic[s]) = at'[s] - 1
            /\ client'[s] = "accepted" => Len(topic[s]) = at'[s]
            /\ pc'[s] = "emitting" => Len(topic[s]) = at'[s] - 1
            /\ Begun(s)' => Len(topic[s]) \in {at'[s] - 1, at'[s]}
            /\ ~Begun(s)' => topic[s] = << >>
            /\ Len(topic[s]) <= Len(batch[s].records)
    BY <1>1 DEF ClientOK
  <2>1. CASE s = r
    <3>1. Len(topic[r]) = at[r] /\ Len(topic[r]) <= Len(batch[r].records)
      BY <1>1 DEF ClientOK
    <3>2. Len(topic[r]) = at'[r] - 1
      BY <1>2, <3>1
    <3> QED
      BY <1>2, <2>1, <3>1, <3>2
  <2>2. CASE s # r
    BY <1>2, <2>2 DEF ClientOK
  <2> QED
    BY <2>1, <2>2
<1>5. client' \in [Requests -> {"idle", "sending", "accepted"}]
  BY <1>1 DEF PubTypeOK
<1>6. \A s \in Requests : Records(s)' = Records(s)
  BY <1>1, SameRecords
<1> QED
  BY <1>1, <1>3, <1>4, <1>5, <1>6, ThreadStep

LEMMA FutureRaisesStep ==
  ASSUME PubInv, ServiceInv', NEW r \in Requests, FutureRaises(r)
  PROVE  PubInv'
<1>1. /\ Answer(r, 500)
      /\ UNCHANGED <<body, batch, at, report, topic, rows>>
      /\ client' = client \/ client' = [client EXCEPT ![r] = "idle"]
  BY DEF FutureRaises, PublishRaisesOther
<1>2. 500 \in {200, 404, 422, 500, 502, 503} /\ (500 = 200 => client[r] = "idle")
  OBVIOUS
<1> QED
  BY <1>1, <1>2, PubAnswerStep

LEMMA PubServiceStep ==
  ASSUME PubInv, ServiceInv', NEW r \in Requests,
         Resolve(r) \/ Decide(r) \/ Finish(r), UNCHANGED <<custodyVars, rows>>
  PROVE  PubInv'
<1>1. pc[r] \in {"new", "admitted", "emitting"}
  BY DEF Resolve, Decide, Finish, RefuseGated, FailPublisher, Admit,
         FailGeneration, Unprocessable, Preview, NoPublisher, Build
<1>2. client[r] = "idle"
  BY <1>1, NotPublishing
<1>3. UNCHANGED <<client, topic, rows>>
  BY DEF custodyVars
<1>4. ASSUME NEW code \in {200, 404, 422, 500, 502, 503}, Answer(r, code),
             UNCHANGED <<body, batch, at, report>>
      PROVE  PubInv'
  BY <1>2, <1>3, <1>4, PubAnswerStep
<1>5. CASE Admit(r)
  <2>1. /\ pc' = [pc EXCEPT ![r] = "admitted"]
        /\ UNCHANGED <<body, batch, at, report, status>>
        /\ TypeOK
    BY <1>5 DEF Admit, PubInv, ServiceInv
  <2>2. pc'[r] = "admitted" /\ \A s \in Requests \ {r} : pc'[s] = pc[s]
    BY <2>1 DEF TypeOK
  <2>3. ClientOK'
    BY <1>2, <1>3, <2>1, <2>2 DEF ClientOK, Begun, PubInv
  <2>4. \A s \in Requests : Records(s)' = Records(s)
    BY <2>1, SameRecords
  <2>5. client' \in [Requests -> {"idle", "sending", "accepted"}]
    BY <1>3 DEF PubInv, PubTypeOK
  <2>6. \A s \in Requests : report'[s].rejected = report[s].rejected
    BY <2>1
  <2> QED
    BY <1>3, <2>3, <2>4, <2>5, <2>6, ThreadStep
<1>6. CASE Build(r)
  BY <1>6, PubBuildStep
<1>7. CASE RefuseGated(r) \/ FailPublisher(r)
  BY <1>4, <1>7 DEF RefuseGated, FailPublisher
<1>8. CASE FailGeneration(r) \/ Unprocessable(r) \/ Preview(r) \/ NoPublisher(r)
  BY <1>4, <1>8 DEF FailGeneration, Unprocessable, Preview, NoPublisher
<1>9. CASE Finish(r)
  BY <1>4, <1>9 DEF Finish
<1> QED
  BY <1>5, <1>6, <1>7, <1>8, <1>9 DEF Resolve, Decide

LEMMA PubEnvironmentStep ==
  ASSUME PubInv, ServiceInv', Environment, UNCHANGED <<custodyVars, rows>>
  PROVE  PubInv'
<1>1. /\ UNCHANGED <<body, batch, at, report, status>>
      /\ \/ pc' = pc
         \/ pc' = [r \in Requests |->
                     IF pc[r] \in InService THEN "killed" ELSE pc[r]]
  BY DEF Environment, Reconfigure, Midnight, Kill
<1>2. UNCHANGED <<client, topic, rows>>
  BY DEF custodyVars
<1>3. \A s \in Requests : pc'[s] = pc[s] \/ pc'[s] = "killed"
  BY <1>1
<1>4. ClientOK'
  BY <1>1, <1>2, <1>3 DEF ClientOK, Begun, PubInv
<1>5. \A s \in Requests : Records(s)' = Records(s)
  BY <1>1, SameRecords
<1>6. client' \in [Requests -> {"idle", "sending", "accepted"}]
  BY <1>2 DEF PubInv, PubTypeOK
<1>7. \A s \in Requests : report'[s].rejected = report[s].rejected
  BY <1>1
<1> QED
  BY <1>2, <1>4, <1>5, <1>6, <1>7, ThreadStep

-----------------------------------------------------------------------------
(* The broker takes the record on the wire, behind those before it.        *)
LEMMA BrokerAcceptsStep ==
  ASSUME PubInv, NEW r \in Requests, BrokerAccepts(r)
  PROVE  PubInv'
<1> DEFINE rec == OnWire(r)
           msg == Message(rec)
<1>1. /\ client[r] = "sending"
      /\ topic' = [topic EXCEPT ![r] = Append(@, msg)]
      /\ client' = [client EXCEPT ![r] = "accepted"]
      /\ UNCHANGED <<serviceVars, rows>>
  BY DEF BrokerAccepts
<1>2. TypeOK /\ PubTypeOK /\ ClientOK /\ TopicOK /\ RowsOK /\ NoneRejected
  BY DEF PubInv, ServiceInv
<1>3. /\ ServiceInv'
      /\ UNCHANGED <<pc, body, batch, at, report, status>>
  <2>1. ServiceInv'
    BY <1>1, StutterStep DEF PubInv
  <2> QED
    BY <1>1, <2>1 DEF serviceVars
<1>4. /\ at[r] \in 1..Len(batch[r].records)
      /\ Len(topic[r]) = at[r] - 1
      /\ at[r] \in Nat /\ Len(batch[r].records) \in Nat
  BY <1>1, <1>2, RequestTypes DEF ClientOK
<1>5. rec = Records(r)[at[r]] /\ rec \in CanonicalRecord
  BY <1>2, <1>4, RecordsOfRequest DEF OnWire
<1>6. /\ msg \in MessageSet /\ msg.record = rec /\ msg.state = "pending"
      /\ msg.attempts < MaxDeliveries
  BY <1>5, PubSubAssumption DEF Message, MessageSet
<1> HIDE DEF msg, rec
<1>7. topic[r] \in Seq(MessageSet) /\ Len(topic[r]) \in Nat
  BY <1>2, TopicTypes
<1>8. /\ topic'[r] = Append(topic[r], msg)
      /\ topic'[r] \in Seq(MessageSet)
      /\ Len(topic'[r]) = at[r]
      /\ DOMAIN topic'[r] = 1..at[r]
      /\ topic'[r][at[r]] = msg
      /\ \A i \in 1..at[r] - 1 : topic'[r][i] = topic[r][i]
  <2>1. topic'[r] = Append(topic[r], msg)
    BY <1>1, <1>2 DEF PubTypeOK
  <2> QED
    BY <1>4, <1>6, <1>7, <2>1
<1>9. \A s \in Requests \ {r} : topic'[s] = topic[s] /\ client'[s] = client[s]
  BY <1>1, <1>2 DEF PubTypeOK
<1>10. client'[r] = "accepted"
  BY <1>1, <1>2 DEF PubTypeOK
<1>11. \A s \in Requests : \A i \in DOMAIN topic[s] :
         i \in DOMAIN topic'[s] /\ topic'[s][i] = topic[s][i]
  <2>1. DOMAIN topic[r] = 1..at[r] - 1
    BY <1>2, <1>4, TopicTypes
  <2>2. \A i \in 1..at[r] - 1 : i \in 1..at[r]
    BY <1>4
  <2> QED
    BY <1>8, <1>9, <2>1, <2>2
<1>12. PubTypeOK'
  <2>1. \A s \in Requests : topic'[s] \in Seq(MessageSet)
    BY <1>2, <1>8, <1>9, TopicTypes
  <2>2. topic' \in [Requests -> Seq(MessageSet)]
    BY <1>1, <1>2, <2>1 DEF PubTypeOK
  <2>3. client' \in [Requests -> {"idle", "sending", "accepted"}]
    BY <1>1, <1>2 DEF PubTypeOK
  <2> QED
    BY <1>1, <1>2, <1>3, <2>2, <2>3 DEF PubTypeOK, ServiceInv, MessageSet
<1>13. ClientOK'
  <2> SUFFICES ASSUME NEW s \in Requests
      PROVE /\ client'[s] # "idle" =>
                 /\ pc[s] \in {"publishing", "answered", "killed"}
                 /\ status[s] # 200
                 /\ at[s] \in 1..Len(batch[s].records)
            /\ client'[s] = "sending" => Len(topic'[s]) = at[s] - 1
            /\ client'[s] = "accepted" => Len(topic'[s]) = at[s]
            /\ pc[s] = "emitting" => Len(topic'[s]) = at[s] - 1
            /\ Begun(s) => Len(topic'[s]) \in {at[s] - 1, at[s]}
            /\ ~Begun(s) => topic'[s] = << >>
            /\ Len(topic'[s]) <= Len(batch[s].records)
    BY <1>3 DEF ClientOK, Begun
  <2>1. CASE s = r
    <3>1. Begun(r) /\ at[r] <= Len(batch[r].records)
      BY <1>4 DEF Begun
    <3>2. /\ pc[r] \in {"publishing", "answered", "killed"}
          /\ status[r] # 200
      BY <1>1, <1>2 DEF ClientOK
    <3> QED
      BY <1>4, <1>8, <1>10, <2>1, <3>1, <3>2
  <2>2. CASE s # r
    BY <1>2, <1>9, <2>2 DEF ClientOK
  <2> QED
    BY <2>1, <2>2
<1>14. \A s \in Requests : Records(s)' = Records(s)
  BY <1>3, SameRecords
<1>15. TopicOK'
  <2> SUFFICES ASSUME NEW s \in Requests, NEW i \in DOMAIN topic'[s]
      PROVE  /\ \/ topic'[s][i].record.hash \in StoredHashes
                \/ topic'[s][i].state \in {"pending", "dead"}
             /\ topic'[s][i].record = Records(s)[i]
             /\ topic'[s][i].state = "pending" =>
                  topic'[s][i].attempts < MaxDeliveries
    BY <1>1, <1>14 DEF TopicOK, InCustody, StoredHashes
  <2>1. CASE s = r /\ i = at[r]
    BY <1>5, <1>6, <1>8, <2>1
  <2>2. CASE ~(s = r /\ i = at[r])
    <3>1. i \in DOMAIN topic[s] /\ topic'[s][i] = topic[s][i]
      <4>1. CASE s = r
        <5>1. i \in 1..at[r] - 1
          BY <1>4, <1>8, <2>2, <4>1
        <5>2. DOMAIN topic[r] = 1..at[r] - 1
          BY <1>2, <1>4, TopicTypes
        <5> QED
          BY <1>8, <4>1, <5>1, <5>2
      <4>2. CASE s # r
        BY <1>9, <4>2
      <4> QED
        BY <4>1, <4>2
    <3> QED
      BY <1>2, <3>1 DEF TopicOK, InCustody
  <2> QED
    BY <2>1, <2>2
<1>16. RowsOK'
  BY <1>1, <1>2, <1>11 DEF RowsOK
<1>17. NoneRejected'
  BY <1>2, <1>3 DEF NoneRejected
<1> QED
  BY <1>3, <1>12, <1>13, <1>15, <1>16, <1>17 DEF PubInv

(* The subscription delivers a message, for better or worse.               *)
LEMMA DeliveryStep ==
  ASSUME PubInv, NEW r \in Requests, NEW i \in DOMAIN topic[r],
         NEW msg \in MessageSet, msg.record = topic[r][i].record,
         topic' = [topic EXCEPT ![r] = [@ EXCEPT ![i] = msg]],
         UNCHANGED <<serviceVars, client>>,
         \/ UNCHANGED rows
         \/ /\ msg.record.hash \notin Poison
            /\ rows' = Upsert(msg.record),
         msg.state = "acknowledged" => rows' = Upsert(msg.record),
         msg.state = "pending" => msg.attempts < MaxDeliveries
  PROVE  PubInv'
<1>1. TypeOK /\ PubTypeOK /\ ClientOK /\ TopicOK /\ RowsOK /\ NoneRejected
  BY DEF PubInv, ServiceInv
<1>2. /\ ServiceInv'
      /\ UNCHANGED <<pc, body, batch, at, report, status>>
  <2>1. ServiceInv'
    BY StutterStep DEF PubInv
  <2> QED
    BY <2>1 DEF serviceVars
<1>3. /\ topic[r] \in Seq(MessageSet) /\ Len(topic[r]) \in Nat
      /\ i \in 1..Len(topic[r]) /\ DOMAIN topic[r] = 1..Len(topic[r])
  BY <1>1, TopicTypes
<1>4. /\ topic'[r] = [topic[r] EXCEPT ![i] = msg]
      /\ \A s \in Requests \ {r} : topic'[s] = topic[s]
  BY <1>1 DEF PubTypeOK
<1>5. /\ topic'[r] \in Seq(MessageSet)
      /\ Len(topic'[r]) = Len(topic[r])
      /\ DOMAIN topic'[r] = DOMAIN topic[r]
      /\ topic'[r][i] = msg
      /\ \A j \in DOMAIN topic[r] \ {i} : topic'[r][j] = topic[r][j]
  BY <1>3, <1>4, ExceptSeq
<1>6. \A s \in Requests :
        /\ DOMAIN topic'[s] = DOMAIN topic[s]
        /\ Len(topic'[s]) = Len(topic[s])
        /\ topic'[s] = << >> <=> topic[s] = << >>
        /\ \A j \in DOMAIN topic[s] :
             topic'[s][j].record = topic[s][j].record
  <2>1. topic'[r] # << >> /\ topic[r] # << >>
    BY <1>3, <1>5
  <2> QED
    BY <1>4, <1>5, <2>1
<1>7. msg.record \in CanonicalRecord
  BY DEF MessageSet
<1>8. /\ StoredHashes \subseteq StoredHashes'
      /\ rows' \subseteq rows \cup {msg.record}
      /\ msg.state = "acknowledged" => msg.record.hash \in StoredHashes'
  BY <1>7, UpsertRows DEF StoredHashes
<1>9. PubTypeOK'
  <2>1. \A s \in Requests : topic'[s] \in Seq(MessageSet)
    BY <1>1, <1>4, <1>5, TopicTypes
  <2>2. topic' \in [Requests -> Seq(MessageSet)]
    BY <1>1, <2>1 DEF PubTypeOK
  <2>3. rows' \subseteq CanonicalRecord
    BY <1>1, <1>7, <1>8 DEF PubTypeOK
  <2> QED
    BY <1>1, <1>2, <2>2, <2>3 DEF PubTypeOK, ServiceInv, MessageSet
<1>10. ClientOK'
  BY <1>1, <1>2, <1>6 DEF ClientOK, Begun
<1>11. \A s \in Requests : Records(s)' = Records(s)
  BY <1>2, SameRecords
<1>12. TopicOK'
  <2> SUFFICES ASSUME NEW s \in Requests, NEW j \in DOMAIN topic[s]
      PROVE  /\ \/ topic'[s][j].record.hash \in StoredHashes'
                \/ topic'[s][j].state \in {"pending", "dead"}
             /\ topic'[s][j].record = Records(s)[j]
             /\ topic'[s][j].state = "pending" =>
                  topic'[s][j].attempts < MaxDeliveries
    BY <1>6, <1>11 DEF TopicOK, InCustody
  <2>1. /\ topic[s][j].record = Records(s)[j] /\ InCustody(s, j)
        /\ topic[s][j].state = "pending" =>
             topic[s][j].attempts < MaxDeliveries
    BY <1>1 DEF TopicOK
  <2>2. CASE s = r /\ j = i
    <3>1. msg.state \in {"pending", "acknowledged", "dead"}
      BY DEF MessageSet
    <3> QED
      BY <1>5, <1>8, <2>1, <2>2, <3>1
  <2>3. CASE ~(s = r /\ j = i)
    <3>1. topic'[s][j] = topic[s][j]
      BY <1>4, <1>5, <2>3
    <3> QED
      BY <1>8, <2>1, <3>1 DEF InCustody
  <2> QED
    BY <2>2, <2>3
<1>13. RowsOK'
  <2>1. ASSUME NEW row \in rows'
        PROVE  /\ row.hash \notin Poison
               /\ \E s \in Requests : \E j \in DOMAIN topic[s] :
                    row = topic[s][j].record
    <3>1. CASE row \in rows
      BY <1>1, <3>1 DEF RowsOK
    <3>2. CASE row \notin rows
      <4>1. row = msg.record /\ msg.record.hash \notin Poison
        BY <1>8, <3>2
      <4> QED
        BY <4>1
    <3> QED
      BY <3>1, <3>2
  <2>2. \A row \in rows' : \E s \in Requests : \E j \in DOMAIN topic'[s] :
          row = topic'[s][j].record
    BY <1>6, <2>1
  <2>3. \A row1, row2 \in rows' : row1.hash = row2.hash => row1 = row2
    BY <1>1, <1>7, UpsertRows DEF RowsOK
  <2> QED
    BY <2>1, <2>2, <2>3 DEF RowsOK
<1>14. NoneRejected'
  BY <1>1, <1>2 DEF NoneRejected
<1> QED
  BY <1>2, <1>9, <1>10, <1>12, <1>13, <1>14 DEF PubInv

(* A message that has been tried once more is one.                         *)
LEMMA TriedMessage ==
  ASSUME NEW old \in MessageSet, old.attempts < MaxDeliveries
  PROVE  /\ Tried(old) \in MessageSet /\ Tried(old).record = old.record
         /\ Tried(old).state # "acknowledged"
         /\ Tried(old).state = "pending" => Tried(old).attempts < MaxDeliveries
<1>1. old.record \in CanonicalRecord /\ old.attempts \in 0..MaxDeliveries
  BY DEF MessageSet
<1>2. MaxDeliveries \in Nat /\ old.attempts + 1 \in 0..MaxDeliveries
  BY <1>1, PubSubAssumption
<1> QED
  BY <1>1, <1>2 DEF MessageSet, Tried

LEMMA DeliverStep ==
  ASSUME PubInv, NEW r \in Requests, Deliver(r)
  PROVE  PubInv'
<1>1. PICK i \in DOMAIN topic[r] :
        Acknowledged(r, i) \/ Unacknowledged(r, i) \/ Repeated(r, i)
  BY DEF Deliver
<1> DEFINE old == topic[r][i]
<1>2. /\ old \in MessageSet
      /\ old.record \in CanonicalRecord
      /\ old.attempts \in 0..MaxDeliveries
  <2>1. PubTypeOK
    BY DEF PubInv
  <2>2. old \in MessageSet
    BY <2>1, TopicTypes
  <2> HIDE DEF old
  <2> QED
    BY <2>2 DEF MessageSet
<1>3. topic \in [Requests -> Seq(MessageSet)]
  BY DEF PubInv, PubTypeOK, MessageSet
<1>4. CASE Acknowledged(r, i)
  <2> DEFINE msg == [old EXCEPT !.state = "acknowledged"]
  <2>1. /\ msg \in MessageSet /\ msg.record = old.record
        /\ msg.state = "acknowledged"
    <3> HIDE DEF old
    <3> QED
      BY <1>2 DEF MessageSet
  <2>2. topic' = [topic EXCEPT ![r] = [@ EXCEPT ![i] = msg]]
    BY <1>3, <1>4 DEF Acknowledged
  <2>3. /\ UNCHANGED <<serviceVars, client>>
        /\ old.record.hash \notin Poison
        /\ rows' = Upsert(old.record)
    BY <1>4 DEF Acknowledged, Poisonous
  <2> HIDE DEF msg
  <2> QED
    BY <2>1, <2>2, <2>3, DeliveryStep
<1>5. CASE Unacknowledged(r, i)
  <2> DEFINE msg == Tried(old)
  <2>1. old.attempts < MaxDeliveries
    BY <1>5 DEF Unacknowledged, Pending, PubInv, TopicOK
  <2>2. /\ msg \in MessageSet /\ msg.record = old.record
        /\ msg.state # "acknowledged"
        /\ msg.state = "pending" => msg.attempts < MaxDeliveries
    BY <1>2, <2>1, TriedMessage
  <2>3. topic' = [topic EXCEPT ![r] = [@ EXCEPT ![i] = msg]]
    BY <1>3, <1>5 DEF Unacknowledged
  <2>4. /\ UNCHANGED <<serviceVars, client>>
        /\ \/ UNCHANGED rows
           \/ old.record.hash \notin Poison /\ rows' = Upsert(old.record)
    BY <1>5 DEF Unacknowledged, Poisonous
  <2> HIDE DEF msg
  <2> QED
    BY <2>2, <2>3, <2>4, DeliveryStep
<1>6. CASE Repeated(r, i)
  <2> DEFINE msg == Message(old.record)
  <2>1. /\ msg \in MessageSet /\ msg.record = old.record
        /\ msg.state = "pending" /\ msg.attempts < MaxDeliveries
    <3> HIDE DEF old
    <3> QED
      BY <1>2, PubSubAssumption DEF MessageSet, Message
  <2>2. topic' = [topic EXCEPT ![r] = [@ EXCEPT ![i] = msg]]
    BY <1>3, <1>6 DEF Repeated
  <2>3. UNCHANGED <<serviceVars, client, rows>>
    BY <1>6 DEF Repeated
  <2> HIDE DEF msg
  <2> QED
    BY <2>1, <2>2, <2>3, DeliveryStep
<1> QED
  BY <1>1, <1>4, <1>5, <1>6

LEMMA PubInitial == PubInit => PubInv
<1> SUFFICES ASSUME PubInit PROVE PubInv
  OBVIOUS
<1>1. ServiceInv
  BY ServiceInit DEF PubInit
<1>2. /\ TypeOK /\ rows = {}
      /\ client = [r \in Requests |-> "idle"]
      /\ topic = [r \in Requests |-> << >>]
      /\ \A r \in Requests :
           /\ client[r] = "idle" /\ topic[r] = << >>
           /\ at[r] = 0 /\ pc[r] = "new" /\ report[r] = EmptyReport
  BY <1>1 DEF ServiceInv, PubInit, Init
<1>3. PubTypeOK
  <2>1. topic \in [Requests -> Seq(MessageSet)]
    BY <1>2
  <2> QED
    BY <1>2, <2>1 DEF PubTypeOK, MessageSet
<1>4. ClientOK
  <2>1. \A r \in Requests : Len(topic[r]) = 0 /\ Len(batch[r].records) \in Nat
    BY <1>2, RequestTypes
  <2> QED
    BY <1>2, <2>1 DEF ClientOK, Begun
<1>5. NoneRejected
  BY <1>2 DEF NoneRejected, EmptyReport
<1>6. TopicOK /\ RowsOK
  BY <1>2 DEF TopicOK, RowsOK
<1> QED
  BY <1>1, <1>3, <1>4, <1>5, <1>6 DEF PubInv

LEMMA PubStutterStep ==
  ASSUME PubInv, ServiceInv', UNCHANGED pubVars
  PROVE  PubInv'
<1>1. /\ UNCHANGED <<pc, body, batch, at, report, status>>
      /\ UNCHANGED <<client, topic, rows>>
  BY DEF pubVars, serviceVars, custodyVars
<1>2. ClientOK'
  BY <1>1 DEF PubInv, ClientOK, Begun
<1>3. \A s \in Requests : Records(s)' = Records(s)
  BY <1>1, SameRecords
<1>4. client' \in [Requests -> {"idle", "sending", "accepted"}]
  BY <1>1 DEF PubInv, PubTypeOK
<1>5. \A s \in Requests : report'[s].rejected = report[s].rejected
  BY <1>1
<1> QED
  BY <1>1, <1>2, <1>3, <1>4, <1>5, ThreadStep

LEMMA PubStep == PubInv /\ [PubNext]_pubVars => PubInv'
<1> SUFFICES ASSUME PubInv, [PubNext]_pubVars PROVE PubInv'
  OBVIOUS
<1>1. ServiceInv'
  BY PubStepIsServiceStep, ServiceStep DEF PubInv
<1>2. CASE Environment /\ UNCHANGED <<custodyVars, rows>>
  BY <1>1, <1>2, PubEnvironmentStep
<1>3. ASSUME NEW r \in Requests, Resolve(r) \/ Decide(r) \/ Finish(r),
             UNCHANGED <<custodyVars, rows>>
      PROVE  PubInv'
  BY <1>1, <1>3, PubServiceStep
<1>4. ASSUME NEW r \in Requests, Send(r) PROVE PubInv'
  BY <1>1, <1>4, SendStep
<1>5. ASSUME NEW r \in Requests, BrokerAccepts(r) PROVE PubInv'
  BY <1>5, BrokerAcceptsStep
<1>6. ASSUME NEW r \in Requests, FutureResult(r) PROVE PubInv'
  BY <1>1, <1>6, FutureResultStep
<1>7. ASSUME NEW r \in Requests, FutureRaises(r) PROVE PubInv'
  BY <1>1, <1>7, FutureRaisesStep
<1>8. ASSUME NEW r \in Requests, Deliver(r) PROVE PubInv'
  BY <1>8, DeliverStep
<1>9. CASE UNCHANGED pubVars
  BY <1>1, <1>9, PubStutterStep
<1> QED
  BY <1>2, <1>3, <1>4, <1>5, <1>6, <1>7, <1>8, <1>9 DEF PubNext

-----------------------------------------------------------------------------
(* The inductive invariant of the Pub/Sub binding: that of the service,    *)
(* how far the topic has followed each request, and where its messages and *)
(* Core's rows come from.                                                  *)
THEOREM PubInvariant == PubSpec => []PubInv
<1> QED
  BY PubInitial, PubStep, PTL DEF PubSpec

(* Every variable of the composition keeps its type: no message is tried   *)
(* more often than MaxDeliveries allows.                                   *)
THEOREM PubTypeCorrect == PubSpec => []PubTypeOK
<1>1. PubInv => PubTypeOK
  BY DEF PubInv
<1> QED
  BY <1>1, PubInvariant, PTL

(* Whatever the client library, the broker and Core do, and whenever the   *)
(* container dies, a record the report counts as emitted is stored, on its *)
(* way or in the dead letters, and nothing is reported as rejected.        *)
THEOREM EmissionStaysInCustody == PubSpec => []EmittedInCustody
<1>1. ASSUME PubInv, NEW r \in Requests
      PROVE  report[r].emitted <= Len(topic[r])
             /\ Len(topic[r]) <= report[r].emitted + 1
  <2>1. TypeOK /\ PubTypeOK /\ ClientOK /\ Stages /\ ReportAligned /\ NoneRejected
    BY <1>1 DEF PubInv, ServiceInv
  <2>2. /\ at[r] \in Nat /\ Len(topic[r]) \in Nat
        /\ report[r].emitted \in Nat /\ report[r].rejected = 0
    BY <2>1, RequestTypes, TopicTypes DEF NoneRejected
  <2>3. CASE Begun(r)
    <3>1. report[r].emitted + report[r].rejected = at[r] - 1
      BY <2>1, <2>3 DEF ReportAligned
    <3>2. Len(topic[r]) \in {at[r] - 1, at[r]}
      BY <2>1, <2>3 DEF ClientOK
    <3> QED
      BY <2>2, <3>1, <3>2
  <2>4. CASE ~Begun(r)
    <3>1. report[r] = EmptyReport /\ topic[r] = << >>
      BY <2>1, <2>4 DEF Stages, ClientOK
    <3> QED
      BY <3>1 DEF EmptyReport
  <2> QED
    BY <2>3, <2>4
<1>2. PubInv => EmittedInCustody
  BY <1>1 DEF PubInv, NoneRejected, TopicOK, EmittedInCustody
<1> QED
  BY <1>2, PubInvariant, PTL

(* However often the broker delivers, Core has one row per source_hash,    *)
(* none of them poison, each a record some dispatch had reached.           *)
THEOREM PubRowsAreTraceable == PubSpec => []RowsTraceable
<1>1. ASSUME PubInv, NEW row \in rows
      PROVE  \E r \in Requests : \E i \in 1..Len(batch[r].records) :
               i <= at[r] /\ row = Records(r)[i]
  <2>1. PICK r \in Requests : \E i \in DOMAIN topic[r] : row = topic[r][i].record
    BY <1>1 DEF PubInv, RowsOK
  <2>2. PICK i \in DOMAIN topic[r] : row = topic[r][i].record
    BY <2>1
  <2> QED
    BY <1>1, <2>2, MessagesReached
<1>2. PubInv => RowsTraceable
  BY <1>1 DEF PubInv, RowsOK, RowsTraceable
<1> QED
  BY <1>2, PubInvariant, PTL

-----------------------------------------------------------------------------
(* Custody is all the topic has ever taken: what is acknowledged is stored *)
(* and nothing else is stored.                                             *)
Taken(r) == {Records(r)[i].hash : i \in DOMAIN topic[r]}

AllTaken == UNION {Taken(r) : r \in Requests}

LEMMA CustodyIsTaken == PubInv => Custody = AllTaken
<1> SUFFICES ASSUME PubInv PROVE Custody = AllTaken
  OBVIOUS
<1>1. \A r \in Requests : \A i \in DOMAIN topic[r] :
        /\ topic[r][i].record = Records(r)[i]
        /\ \/ topic[r][i].record.hash \in StoredHashes
           \/ topic[r][i].state # "acknowledged"
  BY DEF PubInv, TopicOK, InCustody
<1>2. ASSUME NEW hash \in Custody PROVE hash \in AllTaken
  <2>1. CASE hash \in StoredHashes
    <3>1. PICK row \in rows : hash = row.hash
      BY <2>1 DEF StoredHashes
    <3>2. PICK r \in Requests : \E i \in DOMAIN topic[r] : row = topic[r][i].record
      BY DEF PubInv, RowsOK
    <3>3. PICK i \in DOMAIN topic[r] : row = topic[r][i].record
      BY <3>2
    <3> QED
      BY <1>1, <3>1, <3>3 DEF AllTaken, Taken
  <2>2. CASE hash \notin StoredHashes
    <3>1. PICK r \in Requests :
            hash \in {topic[r][i].record.hash :
                        i \in {j \in DOMAIN topic[r] : topic[r][j].state # "acknowledged"}}
      BY <1>2, <2>2 DEF Custody
    <3>2. PICK i \in DOMAIN topic[r] : hash = topic[r][i].record.hash
      BY <3>1
    <3> QED
      BY <1>1, <3>2 DEF AllTaken, Taken
  <2> QED
    BY <2>1, <2>2
<1>3. ASSUME NEW hash \in AllTaken PROVE hash \in Custody
  <2>1. PICK r \in Requests : hash \in Taken(r)
    BY <1>3 DEF AllTaken
  <2>2. PICK i \in DOMAIN topic[r] : hash = Records(r)[i].hash
    BY <2>1 DEF Taken
  <2>3. hash = topic[r][i].record.hash
    BY <1>1, <2>2
  <2>4. CASE hash \in StoredHashes
    BY <2>4 DEF Custody
  <2>5. CASE topic[r][i].state # "acknowledged"
    <3>1. hash \in {topic[r][j].record.hash :
                      j \in {k \in DOMAIN topic[r] : topic[r][k].state # "acknowledged"}}
      BY <2>3, <2>5
    <3> QED
      BY <3>1 DEF Custody
  <2> QED
    BY <1>1, <2>3, <2>4, <2>5
<1> QED
  BY <1>2, <1>3

LEMMA CustodyIsTakenNext == PubInv' => (Custody = AllTaken)'
BY CustodyIsTaken, PTL

LEMMA CustodyInit == PubInit => CustodyContract!Init
<1> SUFFICES ASSUME PubInit PROVE CustodyContract!Init
  OBVIOUS
<1>1. \A r \in Requests : at[r] = 0 /\ batch[r] = EmptyBatch
  BY DEF PubInit, Init
<1>2. \A r \in Requests : RunState(r) = "idle"
  BY <1>1 DEF RunState, Begun
<1>3. \A r \in Requests : Offered(r) = {}
  BY <1>1 DEF Offered, EmptyBatch
<1>4. Custody = {}
  <2>1. \A r \in Requests : DOMAIN topic[r] = {}
    BY DEF PubInit
  <2>2. StoredHashes = {}
    BY DEF PubInit, StoredHashes
  <2> QED
    BY <2>1, <2>2 DEF Custody
<1> QED
  BY <1>2, <1>3, <1>4 DEF CustodyContract!Init

(* A dispatch whose loop is through has handed over all its records.       *)
LEMMA LoopThroughTaken ==
  ASSUME PubInv, NEW r \in Requests, RunSucceeds(r)
  PROVE  Offered(r) \subseteq Custody
<1>1. Len(topic[r]) = at[r] - 1 /\ at[r] = Len(batch[r].records) + 1
  BY DEF PubInv, ClientOK, RunSucceeds
<1>2. Len(batch[r].records) \in Nat /\ DOMAIN topic[r] = 1..Len(topic[r])
  BY RequestTypes, TopicTypes DEF PubInv, ServiceInv
<1>3. DOMAIN topic[r] = 1..Len(batch[r].records)
  BY <1>1, <1>2
<1>4. Offered(r) = Taken(r)
  BY <1>3 DEF Offered, Taken
<1> QED
  BY <1>4, CustodyIsTaken DEF AllTaken

(* A step of the service is one of the contract or a stutter.              *)
LEMMA ServiceKeepsCustody ==
  ASSUME PubInv, RunsStep, UNCHANGED <<topic, rows>>
  PROVE  [CustodyContract!Next]_CustodyContract!contractVars
<1> USE DEF RunStates, Offers
<1>1. Custody' = Custody
  BY DEF Custody, StoredHashes
<1>2. CASE UNCHANGED <<RunStates, Offers>>
  BY <1>1, <1>2 DEF CustodyContract!contractVars
<1>3. ASSUME NEW r \in Requests, NEW ks \in SUBSET Hashes, RunBegins(r, ks)
      PROVE  CustodyContract!Next
  <2>1. CustodyContract!Begin(r, ks)
    BY <1>1, <1>3 DEF RunBegins, CustodyContract!Begin
  <2> QED
    BY <2>1 DEF CustodyContract!Next
<1>4. ASSUME NEW r \in Requests, RunSucceeds(r)
      PROVE  CustodyContract!Next
  <2>1. Offered(r) \subseteq Custody
    BY <1>4, LoopThroughTaken
  <2>2. CustodyContract!Succeed(r)
    BY <1>1, <1>4, <2>1 DEF RunSucceeds, CustodyContract!Succeed
  <2> QED
    BY <2>2 DEF CustodyContract!Next
<1>5. ASSUME NEW rs \in SUBSET Requests, RunsFail(rs)
      PROVE  CustodyContract!Next
  <2>1. CustodyContract!Fail(rs)
    BY <1>1, <1>5 DEF RunsFail, CustodyContract!Fail
  <2> QED
    BY <2>1 DEF CustodyContract!Next
<1> QED
  BY <1>2, <1>3, <1>4, <1>5 DEF RunsStep

(* Behind the service nothing happens to runs.                             *)
LEMMA RunsUnmoved ==
  ASSUME UNCHANGED serviceVars
  PROVE  /\ UNCHANGED RunStates /\ UNCHANGED Offers
         /\ \A r \in Requests : Records(r)' = Records(r)
<1>1. UNCHANGED <<pc, body, batch, at, status>>
  BY DEF serviceVars
<1>2. \A r \in Requests : RunState(r)' = RunState(r)
  BY <1>1 DEF RunState, Begun
<1> QED
  BY <1>1, <1>2, SameOffers, SameRecords DEF RunStates

(* What the broker takes is the record of a run that is running or has     *)
(* failed since.                                                           *)
LEMMA BrokerTakesCustody ==
  ASSUME PubInv, PubInv', NEW r \in Requests, BrokerAccepts(r)
  PROVE  CustodyContract!Next
<1> DEFINE hash == OnWire(r).hash
<1>1. /\ client[r] = "sending" /\ client'[r] = "accepted"
      /\ UNCHANGED serviceVars
      /\ \A s \in Requests \ {r} : topic'[s] = topic[s]
  BY DEF BrokerAccepts, PubInv, PubTypeOK
<1>2. /\ pc[r] \in {"publishing", "answered", "killed"} /\ status[r] # 200
      /\ at[r] \in 1..Len(batch[r].records)
      /\ Len(topic[r]) = at[r] - 1
      /\ Len(topic'[r]) = at[r]
  <2>1. at' = at
    BY <1>1 DEF serviceVars
  <2> QED
    BY <1>1, <2>1 DEF PubInv, ClientOK
<1>3. at[r] \in Nat
  BY RequestTypes DEF PubInv, ServiceInv
<1>4. /\ DOMAIN topic[r] = 1..at[r] - 1
      /\ DOMAIN topic'[r] = 1..at[r]
  <2>1. DOMAIN topic[r] = 1..Len(topic[r])
    BY TopicTypes DEF PubInv
  <2>2. DOMAIN topic'[r] = 1..Len(topic'[r])
    <3>1. topic'[r] \in Seq([record   : CanonicalRecord,
                             state    : {"pending", "acknowledged", "dead"},
                             attempts : 0..MaxDeliveries])
      BY DEF PubInv, PubTypeOK
    <3> QED
      BY <3>1
  <2> QED
    BY <1>2, <2>1, <2>2
<1>5. /\ UNCHANGED RunStates /\ UNCHANGED Offers
      /\ \A s \in Requests : Records(s)' = Records(s)
  BY <1>1, RunsUnmoved
<1>6. Taken(r)' = Taken(r) \cup {hash}
  <2>1. 1..at[r] = (1..at[r] - 1) \cup {at[r]}
    BY <1>3, <1>2
  <2> QED
    BY <1>4, <1>5, <2>1 DEF Taken, OnWire
<1>7. \A s \in Requests \ {r} : Taken(s)' = Taken(s)
  BY <1>1, <1>5 DEF Taken
<1>8. Custody' = Custody \cup {hash}
  <2>1. AllTaken' = AllTaken \cup {hash}
    BY <1>6, <1>7 DEF AllTaken
  <2> QED
    BY <2>1, CustodyIsTaken, CustodyIsTakenNext
<1>9. RunState(r) \in {"running", "failed"}
  BY <1>2, <1>3 DEF RunState, Begun
<1>10. hash \in Offered(r) /\ hash \in Hashes
  BY <1>2, RecordsOfRequest DEF Offered, OnWire, PubInv, ServiceInv
<1> HIDE DEF hash
<1>11. CustodyContract!Store(r, hash)
  BY <1>5, <1>8, <1>9, <1>10 DEF CustodyContract!Store, RunStates, Offers
<1> QED
  BY <1>10, <1>11 DEF CustodyContract!Next

(* A delivery moves a record from the broker to Core or the dead letters.  *)
LEMMA DeliveryKeepsCustody ==
  ASSUME PubInv, PubInv', NEW r \in Requests, Deliver(r)
  PROVE  UNCHANGED CustodyContract!contractVars
<1>1. UNCHANGED serviceVars
  BY DEF Deliver, Acknowledged, Unacknowledged, Repeated
<1>2. \A s \in Requests : DOMAIN topic'[s] = DOMAIN topic[s]
  BY DEF Deliver, Acknowledged, Unacknowledged, Repeated, PubInv, PubTypeOK
<1>3. /\ UNCHANGED RunStates /\ UNCHANGED Offers
      /\ \A s \in Requests : Records(s)' = Records(s)
  BY <1>1, RunsUnmoved
<1>4. Custody' = Custody
  <2>1. AllTaken' = AllTaken
    BY <1>2, <1>3 DEF AllTaken, Taken
  <2> QED
    BY <2>1, CustodyIsTaken, CustodyIsTakenNext
<1> QED
  BY <1>3, <1>4 DEF CustodyContract!contractVars, RunStates, Offers

LEMMA CustodyStep ==
  PubInv /\ PubInv' /\ [PubNext]_pubVars
    => [CustodyContract!Next]_CustodyContract!contractVars
<1> SUFFICES ASSUME PubInv, PubInv', [PubNext]_pubVars
             PROVE  [CustodyContract!Next]_CustodyContract!contractVars
  OBVIOUS
<1>1. RunsStep
  <2>1. ServiceInv /\ ServiceInv'
    BY DEF PubInv
  <2> QED
    BY <2>1, PubStepIsServiceStep, RunsOfService
<1>2. CASE UNCHANGED <<topic, rows>>
  BY <1>1, <1>2, ServiceKeepsCustody
<1>3. ASSUME NEW r \in Requests, BrokerAccepts(r)
      PROVE  [CustodyContract!Next]_CustodyContract!contractVars
  BY <1>3, BrokerTakesCustody
<1>4. ASSUME NEW r \in Requests, Deliver(r)
      PROVE  [CustodyContract!Next]_CustodyContract!contractVars
  BY <1>4, DeliveryKeepsCustody
<1>5. UNCHANGED <<topic, rows>> \/ \E r \in Requests : BrokerAccepts(r) \/ Deliver(r)
  BY DEF PubNext, pubVars, custodyVars, Send, FutureResult, FutureRaises
<1> QED
  BY <1>2, <1>3, <1>4, <1>5

(* The service over a broker keeps the contract of the connectors for      *)
(* custody: a run succeeds only when the broker has taken all it offered,  *)
(* and what it has taken it hands to Core or keeps.                        *)
THEOREM PubSubKeepsCustody == PubSpec => KeepsCustody
<1>1. PubInit => CustodyContract!Init
  BY CustodyInit
<1> QED
  BY <1>1, CustodyStep, PubInvariant, PTL
     DEF PubSpec, KeepsCustody, CustodyContract!Spec

=============================================================================
