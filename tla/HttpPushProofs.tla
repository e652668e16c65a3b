--------------------------- MODULE HttpPushProofs ---------------------------
(***************************************************************************)
(* The HTTP binding, for any number of requests and any poison: it is an   *)
(* implementation of the service, its reports say what Core has stored, it *)
(* keeps the contract of the connectors, and a dispatch that has succeeded *)
(* can be sent again.                                                      *)
(***************************************************************************)
EXTENDS HttpPush, SimServiceProofs, FiniteSetTheorems

-----------------------------------------------------------------------------
(* The service under a real publisher takes only steps the service takes   *)
(* under the abstract one, so whatever the service keeps is kept here.     *)
LEMMA HttpStepIsServiceStep == [HttpNext]_httpVars => [Next]_serviceVars
<1> SUFFICES ASSUME [HttpNext]_httpVars PROVE [Next]_serviceVars
  OBVIOUS
<1>1. CASE Environment
  BY <1>1 DEF Next
<1>2. ASSUME NEW r \in Requests, Resolve(r) \/ Decide(r) \/ Finish(r)
      PROVE  Next
  BY <1>2 DEF Next, Handle
<1>3. ASSUME NEW r \in Requests, Post(r) PROVE Next
  BY <1>3 DEF Next, Handle, Post
<1>4. ASSUME NEW r \in Requests, CoreAnswers(r) PROVE UNCHANGED serviceVars
  BY <1>4 DEF CoreAnswers, CoreAccepts, CoreRefuses, CoreFails
<1>5. ASSUME NEW r \in Requests, Respond(r) \/ TransportError(r) PROVE Next
  BY <1>5 DEF Next, PublishEnds, Respond, TransportError
<1>6. CASE UNCHANGED httpVars
  BY <1>6 DEF httpVars
<1> QED
  BY <1>1, <1>2, <1>3, <1>4, <1>5, <1>6 DEF HttpNext

THEOREM HttpImplementsService == HttpSpec => Spec
<1>1. HttpInit => Init
  BY DEF HttpInit
<1> QED
  BY <1>1, HttpStepIsServiceStep, PTL DEF HttpSpec, Spec

-----------------------------------------------------------------------------
(* A POST under way, or an answer to one, is that of the record at the     *)
(* position of its request, which has not succeeded; an answer of 2xx      *)
(* means the record has a row, one of 400 that it is poison.               *)
WireOK ==
  \A r \in Requests :
    /\ wire[r] # "idle" =>
         /\ pc[r] \in {"publishing", "answered", "killed"}
         /\ status[r] # 200
         /\ at[r] \in 1..Len(batch[r].records)
    /\ wire[r] = "2xx" =>
         OnWire(r).hash \in StoredHashes /\ OnWire(r).hash \notin Poison
    /\ wire[r] = "400" => OnWire(r).hash \in Poison

HttpInv ==
  /\ ServiceInv
  /\ HttpTypeOK
  /\ WireOK
  /\ ReportMatchesCore
  /\ RowsTraceable

-----------------------------------------------------------------------------
(* Steps that leave batches, positions, reports and Core's table alone,    *)
(* and at most forget a POST.                                              *)
LEMMA QuietStep ==
  ASSUME HttpInv, ServiceInv',
         UNCHANGED <<body, batch, at, report, rows, faulty>>,
         wire' \in [Requests -> Wire],
         \A r \in Requests :
           wire'[r] # "idle" =>
             /\ wire'[r] = wire[r]
             /\ pc'[r] \in {"publishing", "answered", "killed"}
             /\ status'[r] # 200
  PROVE  HttpInv'
<1> USE DEF HttpInv
<1>1. HttpTypeOK'
  BY DEF HttpTypeOK, ServiceInv
<1>2. \A r \in Requests : Records(r)' = Records(r)
  BY SameRecords
<1>3. \A r \in Requests : OnWire(r)' = OnWire(r)
  BY <1>2 DEF OnWire
<1>4. WireOK'
  BY <1>3 DEF WireOK, StoredHashes
<1>5. ReportMatchesCore'
  <2>1. StoredHashes' = StoredHashes /\ \A r \in Requests : Begun(r)' = Begun(r)
    BY DEF Begun, StoredHashes
  <2>2. UNCHANGED <<at, report>>
    OBVIOUS
  <2> HIDE DEF HttpInv
  <2>3. ReportMatchesCore
    BY DEF HttpInv
  <2> QED
    BY <1>2, <2>1, <2>2, <2>3 DEF ReportMatchesCore
<1>6. RowsTraceable'
  BY <1>2 DEF RowsTraceable
<1> QED
  BY <1>1, <1>4, <1>5, <1>6

LEMMA HttpBuildStep ==
  ASSUME HttpInv, ServiceInv', NEW r \in Requests, Build(r),
         UNCHANGED <<wire, rows, faulty>>
  PROVE  HttpInv'
<1> USE DEF HttpInv, ServiceInv
<1>1. /\ batch' = [batch EXCEPT ![r] = BatchOf(body[r], today)]
      /\ at' = [at EXCEPT ![r] = 1]
      /\ pc' = [pc EXCEPT ![r] = "emitting"]
      /\ pc[r] = "admitted"
      /\ UNCHANGED <<body, report, status>>
  BY DEF Build
<1>2. at[r] = 0 /\ report[r] = EmptyReport /\ wire[r] = "idle"
  BY <1>1 DEF Stages, WireOK, Begun
<1>3. \A s \in Requests \ {r} :
        /\ batch'[s] = batch[s] /\ at'[s] = at[s] /\ pc'[s] = pc[s]
        /\ Records(s)' = Records(s)
  BY <1>1 DEF TypeOK, Records
<1>4. HttpTypeOK'
  BY DEF HttpTypeOK
<1>5. WireOK'
  BY <1>1, <1>2, <1>3 DEF WireOK, StoredHashes, OnWire
<1>6. ReportMatchesCore'
  <2> SUFFICES ASSUME NEW s \in Requests, Begun(s)'
      PROVE  LET done == 1..at'[s] - 1
                 bad  == {i \in done : Records(s)'[i].hash \in Poison}
             IN  /\ report'[s].rejected = Cardinality(bad)
                 /\ \A i \in done \ bad : Records(s)'[i].hash \in StoredHashes
    BY DEF ReportMatchesCore, StoredHashes
  <2>1. CASE s # r
    BY <1>1, <1>3, <2>1 DEF ReportMatchesCore, Begun
  <2>2. CASE s = r
    <3>1. 1..at'[s] - 1 = {}
      BY <1>1, <2>2 DEF TypeOK
    <3>2. {i \in 1..at'[s] - 1 : Records(s)'[i].hash \in Poison} = {}
      BY <3>1
    <3>3. Cardinality({i \in 1..at'[s] - 1 : Records(s)'[i].hash \in Poison}) = 0
      BY <3>2, FS_EmptySet
    <3>4. report'[s].rejected = 0
      BY <1>1, <1>2, <2>2 DEF EmptyReport
    <3> QED
      BY <3>1, <3>3, <3>4
  <2> QED
    BY <2>1, <2>2
<1>7. RowsTraceable'
  <2>1. ASSUME NEW row \in rows
        PROVE  \E s \in Requests : \E i \in 1..Len(batch'[s].records) :
                 i <= at'[s] /\ row = Records(s)'[i]
    <3>1. PICK s \in Requests : \E i \in 1..Len(batch[s].records) :
                                  i <= at[s] /\ row = Records(s)[i]
      BY DEF RowsTraceable
    <3>2. s # r
      BY <1>2, <3>1, RequestTypes
    <3> QED
      BY <1>3, <3>1, <3>2
  <2> QED
    BY <2>1 DEF RowsTraceable
<1> QED
  BY <1>4, <1>5, <1>6, <1>7

LEMMA PostStep ==
  ASSUME HttpInv, ServiceInv', NEW r \in Requests, Post(r)
  PROVE  HttpInv'
<1> USE DEF HttpInv, ServiceInv
<1>1. /\ pc' = [pc EXCEPT ![r] = "publishing"]
      /\ pc[r] = "emitting"
      /\ at[r] <= Len(batch[r].records)
      /\ wire' = [wire EXCEPT ![r] = "sent"]
      /\ UNCHANGED <<body, batch, at, report, status, rows, faulty>>
  BY DEF Post, Publish
<1>2. at[r] \in 1..Len(batch[r].records) /\ status[r] = 0
  BY <1>1, RequestTypes DEF Stages, Begun
<1>3. HttpTypeOK'
  <2>1. wire' \in [Requests -> Wire]
    BY <1>1 DEF HttpTypeOK, Wire
  <2> QED
    BY <1>1, <2>1 DEF HttpTypeOK
<1>4. \A s \in Requests : Records(s)' = Records(s) /\ OnWire(s)' = OnWire(s)
  BY <1>1, SameRecords DEF OnWire
<1>5. WireOK'
  <2>1. \A s \in Requests \ {r} : wire'[s] = wire[s] /\ pc'[s] = pc[s]
    BY <1>1 DEF HttpTypeOK, TypeOK
  <2>2. wire'[r] = "sent" /\ pc'[r] = "publishing"
    BY <1>1 DEF HttpTypeOK, TypeOK
  <2> QED
    BY <1>1, <1>2, <1>4, <2>1, <2>2 DEF WireOK, StoredHashes
<1>6. ReportMatchesCore'
  BY <1>1, <1>4 DEF ReportMatchesCore, Begun, StoredHashes
<1>7. RowsTraceable'
  BY <1>1, <1>4 DEF RowsTraceable
<1> QED
  BY <1>3, <1>5, <1>6, <1>7

(* Core deals with a POST, for better or worse.                            *)
LEMMA CoreStep ==
  ASSUME HttpInv, NEW r \in Requests, CoreAnswers(r)
  PROVE  HttpInv'
<1> USE DEF HttpInv, ServiceInv
<1> DEFINE rec == OnWire(r)
<1>1. wire[r] = "sent" /\ UNCHANGED serviceVars
  BY DEF CoreAnswers, CoreAccepts, CoreRefuses, CoreFails
<1>2. /\ rows' = rows \/ (rows' = Upsert(rec) /\ rec.hash \notin Poison)
      /\ \E answer \in {"2xx", "400", "other"} :
           /\ wire' = [wire EXCEPT ![r] = answer]
           /\ answer = "2xx" => rows' = Upsert(rec) /\ rec.hash \notin Poison
           /\ answer = "400" => rec.hash \in Poison
  BY DEF CoreAnswers, CoreAccepts, CoreRefuses, CoreFails
<1>3. PICK answer \in {"2xx", "400", "other"} :
        /\ wire' = [wire EXCEPT ![r] = answer]
        /\ answer = "2xx" => rows' = Upsert(rec) /\ rec.hash \notin Poison
        /\ answer = "400" => rec.hash \in Poison
  BY <1>2
<1>4. /\ at[r] \in 1..Len(batch[r].records)
      /\ pc[r] \in {"publishing", "answered", "killed"} /\ status[r] # 200
  BY <1>1 DEF WireOK
<1>5. rec = Records(r)[at[r]] /\ rec \in CanonicalRecord
  BY <1>4, RecordsOfRequest DEF OnWire
<1>6. /\ UNCHANGED <<pc, body, batch, at, report, status, faulty>>
      /\ ServiceInv'
  <2>1. ServiceInv'
    BY <1>1, StutterStep
  <2>2. UNCHANGED faulty
    BY DEF CoreAnswers, CoreAccepts, CoreRefuses, CoreFails
  <2> QED
    BY <1>1, <2>1, <2>2 DEF serviceVars
<1>7. \A s \in Requests : Records(s)' = Records(s) /\ OnWire(s)' = OnWire(s)
  BY <1>6, SameRecords DEF OnWire
<1>8. StoredHashes \subseteq StoredHashes'
  BY <1>2, <1>5, UpsertRows DEF StoredHashes
<1> HIDE DEF rec
<1>9. HttpTypeOK'
  <2>1. rows' \subseteq CanonicalRecord
    BY <1>2, <1>5, UpsertRows DEF HttpTypeOK
  <2>2. wire' \in [Requests -> Wire]
    BY <1>3 DEF HttpTypeOK, Wire
  <2> QED
    BY <1>6, <2>1, <2>2 DEF HttpTypeOK
<1>10. WireOK'
  <2>1. \A s \in Requests \ {r} : wire'[s] = wire[s]
    BY <1>3 DEF HttpTypeOK
  <2>2. wire'[r] = answer
    BY <1>3 DEF HttpTypeOK
  <2>3. answer = "2xx" => rec.hash \in StoredHashes'
    BY <1>3, <1>5, UpsertRows DEF StoredHashes
  <2>4. rec = OnWire(r)
    BY DEF rec
  <2> QED
    BY <1>3, <1>4, <1>6, <1>7, <1>8, <2>1, <2>2, <2>3, <2>4 DEF WireOK
<1>11. ReportMatchesCore'
  BY <1>6, <1>7, <1>8 DEF ReportMatchesCore, Begun
<1>12. RowsTraceable'
  <2>1. ASSUME NEW row \in rows'
        PROVE  /\ row.hash \notin Poison
               /\ \E s \in Requests : \E i \in 1..Len(batch[s].records) :
                    i <= at[s] /\ row = Records(s)[i]
    <3>1. CASE row \in rows
      BY <3>1 DEF RowsTraceable
    <3>2. CASE row \notin rows
      <4>1. row = rec /\ rec.hash \notin Poison
        BY <1>2, <1>5, <3>2, UpsertRows
      <4>2. at[r] <= at[r]
        BY RequestTypes
      <4> QED
        BY <1>4, <1>5, <4>1, <4>2
    <3> QED
      BY <3>1, <3>2
  <2>2. \A row1, row2 \in rows' : row1.hash = row2.hash => row1 = row2
    BY <1>2, <1>5, UpsertRows DEF RowsTraceable
  <2> QED
    BY <1>6, <1>7, <2>1, <2>2 DEF RowsTraceable
<1> QED
  BY <1>6, <1>9, <1>10, <1>11, <1>12

(* One more position, in the set or not.                                   *)
LEMMA CountUpTo ==
  ASSUME NEW Q, NEW n \in Nat \ {0}
  PROVE  /\ n \in Q => Cardinality((1..n) \cap Q)
                         = Cardinality((1..n - 1) \cap Q) + 1
         /\ n \notin Q => (1..n) \cap Q = (1..n - 1) \cap Q
<1>1. IsFiniteSet((1..n - 1) \cap Q)
  <2>1. IsFiniteSet(1..n - 1)
    BY FS_Interval
  <2> QED
    BY <2>1, FS_Subset
<1>2. 1..n = (1..n - 1) \cup {n} /\ n \notin 1..n - 1
  OBVIOUS
<1>3. ASSUME n \in Q
      PROVE  Cardinality((1..n) \cap Q) = Cardinality((1..n - 1) \cap Q) + 1
  <2>1. (1..n) \cap Q = ((1..n - 1) \cap Q) \cup {n}
    BY <1>2, <1>3
  <2>2. n \notin (1..n - 1) \cap Q
    BY <1>2
  <2> QED
    BY <1>1, <2>1, <2>2, FS_AddElement
<1>4. ASSUME n \notin Q PROVE (1..n) \cap Q = (1..n - 1) \cap Q
  BY <1>2, <1>4
<1> QED
  BY <1>3, <1>4

(* The loop goes on after a response of 2xx (refused is 0) or of 400       *)
(* (refused is 1), and the report goes on saying the truth.                *)
LEMMA RespondStep ==
  ASSUME HttpInv, ServiceInv', NEW r \in Requests, pc[r] = "publishing",
         NEW sent \in Nat, NEW refused \in {0, 1}, Tally(r, sent, refused),
         wire[r] = IF refused = 0 THEN "2xx" ELSE "400",
         wire' = [wire EXCEPT ![r] = "idle"],
         UNCHANGED <<rows, faulty>>
  PROVE  HttpInv'
<1> USE DEF HttpInv, ServiceInv
<1>1. /\ at' = [at EXCEPT ![r] = @ + 1]
      /\ pc' = [pc EXCEPT ![r] = "emitting"]
      /\ report'[r].rejected = report[r].rejected + refused
      /\ \A s \in Requests \ {r} : report'[s] = report[s]
      /\ UNCHANGED <<body, batch, status>>
  BY DEF Tally, TypeOK
<1>2. \A s \in Requests : Records(s)' = Records(s)
  BY <1>1, SameRecords
<1>3. /\ at[r] \in 1..Len(batch[r].records) /\ at[r] \in Nat \ {0}
      /\ IF refused = 0
         THEN /\ Records(r)[at[r]].hash \in StoredHashes
              /\ Records(r)[at[r]].hash \notin Poison
         ELSE Records(r)[at[r]].hash \in Poison
  <2>1. at[r] \in 1..Len(batch[r].records) /\ at[r] \in Nat
    BY RequestTypes DEF WireOK
  <2> QED
    BY <2>1 DEF WireOK, OnWire
<1>4. HttpTypeOK'
  <2>1. wire' \in [Requests -> Wire]
    BY DEF HttpTypeOK, Wire
  <2> QED
    BY <2>1 DEF HttpTypeOK
<1>5. \A s \in Requests \ {r} :
        /\ wire'[s] = wire[s] /\ pc'[s] = pc[s] /\ at'[s] = at[s]
        /\ OnWire(s)' = OnWire(s)
  BY <1>1, <1>2 DEF HttpTypeOK, TypeOK, OnWire
<1>6. wire'[r] = "idle" /\ at'[r] = at[r] + 1
  BY <1>1 DEF HttpTypeOK, TypeOK
<1>7. WireOK'
  BY <1>1, <1>5, <1>6 DEF WireOK, StoredHashes
<1>8. ReportMatchesCore'
  <2> SUFFICES ASSUME NEW s \in Requests, Begun(s)'
      PROVE  LET done == 1..at'[s] - 1
                 bad  == {i \in done : Records(s)[i].hash \in Poison}
             IN  /\ report'[s].rejected = Cardinality(bad)
                 /\ \A i \in done \ bad : Records(s)[i].hash \in StoredHashes
    BY <1>2 DEF ReportMatchesCore, StoredHashes
  <2>1. CASE s # r
    BY <1>1, <1>5, <2>1 DEF ReportMatchesCore, Begun
  <2>2. CASE s = r
    <3> DEFINE Q == {i \in Nat : Records(r)[i].hash \in Poison}
               n == at[r]
    <3>1. \A k \in Nat : {i \in 1..k : Records(r)[i].hash \in Poison} = (1..k) \cap Q
      OBVIOUS
    <3>2. n - 1 \in Nat /\ n \in Nat \ {0} /\ at'[r] - 1 = n
      BY <1>3, <1>6
    <3>3. /\ report[r].rejected = Cardinality((1..n - 1) \cap Q)
          /\ \A i \in (1..n - 1) \ Q : Records(r)[i].hash \in StoredHashes
      <4>1. {i \in 1..n - 1 : Records(r)[i].hash \in Poison} = (1..n - 1) \cap Q
        BY <3>1, <3>2
      <4>2. Begun(r)
        BY <3>2 DEF Begun
      <4>3. /\ report[r].rejected
                 = Cardinality({i \in 1..n - 1 : Records(r)[i].hash \in Poison})
            /\ \A i \in (1..n - 1) \ {j \in 1..n - 1 : Records(r)[j].hash \in Poison} :
                 Records(r)[i].hash \in StoredHashes
        BY <4>2 DEF ReportMatchesCore
      <4> QED
        BY <4>1, <4>3
    <3>4. n \in Q <=> refused = 1
      BY <1>3, <3>2
    <3>5. report'[r].rejected = Cardinality((1..n) \cap Q)
      <4>1. CASE refused = 0
        <5>1. report'[r].rejected = report[r].rejected
          <6>1. PICK k \in Nat : k = report[r].rejected
            BY RequestTypes
          <6>2. k + refused = k
            BY <4>1
          <6> QED
            BY <1>1, <6>1, <6>2
        <5>2. n \notin Q
          BY <3>4, <4>1
        <5>3. (1..n) \cap Q = (1..n - 1) \cap Q
          <6> HIDE DEF Q, n
          <6> QED
            BY <3>2, <5>2, CountUpTo
        <5>4. report[r].rejected = Cardinality((1..n - 1) \cap Q)
          BY <3>3
        <5> HIDE DEF Q, n
        <5> QED
          BY <5>1, <5>3, <5>4
      <4>2. CASE refused = 1
        BY <1>1, <3>2, <3>3, <3>4, <4>2, CountUpTo
      <4> QED
        BY <4>1, <4>2
    <3>6. \A i \in (1..n) \ Q : Records(r)[i].hash \in StoredHashes
      <4> SUFFICES ASSUME NEW i \in (1..n) \ Q
                   PROVE  Records(r)[i].hash \in StoredHashes
        OBVIOUS
      <4>1. CASE i = n
        BY <1>3, <3>4, <4>1
      <4>2. CASE i # n
        <5>1. i \in (1..n - 1) \ Q
          BY <3>2, <4>2
        <5> QED
          BY <3>3, <5>1
      <4> QED
        BY <4>1, <4>2
    <3>7. {i \in 1..n : Records(r)[i].hash \in Poison} = (1..n) \cap Q
      BY <3>1, <3>2
    <3> HIDE DEF Q, n
    <3> QED
      BY <2>2, <3>2, <3>5, <3>6, <3>7
  <2> QED
    BY <2>1, <2>2
<1>9. RowsTraceable'
  <2>1. \A s \in Requests : at[s] <= at'[s] /\ at[s] \in Nat /\ at'[s] \in Nat
    BY <1>5, <1>6, RequestTypes
  <2>2. ASSUME NEW row \in rows
        PROVE  \E s \in Requests : \E i \in 1..Len(batch[s].records) :
                 i <= at'[s] /\ row = Records(s)[i]
    <3>1. PICK s \in Requests : \E i \in 1..Len(batch[s].records) :
                                  i <= at[s] /\ row = Records(s)[i]
      BY DEF RowsTraceable
    <3>2. PICK i \in 1..Len(batch[s].records) : i <= at[s] /\ row = Records(s)[i]
      BY <3>1
    <3>3. i <= at'[s]
      BY <2>1, <3>2, RequestTypes
    <3> QED
      BY <3>2, <3>3
  <2> QED
    BY <1>1, <1>2, <2>2 DEF RowsTraceable
<1> QED
  BY <1>4, <1>7, <1>8, <1>9

(* Answering a request leaves everything Core-related alone, or forgets    *)
(* the POST whose response is being dealt with.                            *)
LEMMA HttpAnswerStep ==
  ASSUME HttpInv, ServiceInv', NEW r \in Requests,
         NEW code \in {200, 404, 422, 500, 502, 503},
         code = 200 => wire[r] = "idle",
         Answer(r, code),
         UNCHANGED <<body, batch, at, report, rows, faulty>>,
         wire' = wire \/ wire' = [wire EXCEPT ![r] = "idle"]
  PROVE  HttpInv'
<1> USE DEF HttpInv
<1>1. /\ pc' = [pc EXCEPT ![r] = "answered"]
      /\ status' = [status EXCEPT ![r] = code]
  BY DEF Answer
<1>2. wire \in [Requests -> Wire] /\ wire' \in [Requests -> Wire]
  BY DEF HttpTypeOK, Wire
<1>3. \A s \in Requests :
        wire'[s] # "idle" =>
          /\ wire'[s] = wire[s]
          /\ pc'[s] \in {"publishing", "answered", "killed"}
          /\ status'[s] # 200
  <2> SUFFICES ASSUME NEW s \in Requests, wire'[s] # "idle"
      PROVE  /\ wire'[s] = wire[s]
             /\ pc'[s] \in {"publishing", "answered", "killed"}
             /\ status'[s] # 200
    OBVIOUS
  <2>1. wire'[s] = wire[s]
    BY <1>2
  <2>2. pc[s] \in {"publishing", "answered", "killed"} /\ status[s] # 200
    BY <2>1 DEF WireOK
  <2>3. CASE s = r
    BY <1>1, <2>1, <2>3 DEF ServiceInv, TypeOK
  <2>4. CASE s # r
    BY <1>1, <2>1, <2>2, <2>4 DEF ServiceInv, TypeOK
  <2> QED
    BY <2>3, <2>4
<1> QED
  BY <1>2, <1>3, QuietStep

(* The service's own steps: resolution, decision, end of the loop.         *)
LEMMA HttpServiceStep ==
  ASSUME HttpInv, ServiceInv', NEW r \in Requests,
         Resolve(r) \/ Decide(r) \/ Finish(r), UNCHANGED <<wire, rows, faulty>>
  PROVE  HttpInv'
<1> USE DEF HttpInv
<1>1. pc[r] \in {"new", "admitted", "emitting"}
  BY DEF Resolve, Decide, Finish, RefuseGated, FailPublisher, Admit,
         FailGeneration, Unprocessable, Preview, NoPublisher, Build
<1>2. wire[r] = "idle"
  BY <1>1 DEF WireOK
<1>3. CASE RefuseGated(r)
  BY <1>3, HttpAnswerStep DEF RefuseGated
<1>4. CASE FailPublisher(r)
  BY <1>4, HttpAnswerStep DEF FailPublisher
<1>5. CASE Admit(r)
  <2>1. /\ pc' = [pc EXCEPT ![r] = "admitted"]
        /\ UNCHANGED <<body, batch, at, report, status>>
    BY <1>5 DEF Admit
  <2>2. \A s \in Requests :
          wire'[s] # "idle" =>
            /\ wire'[s] = wire[s]
            /\ pc'[s] \in {"publishing", "answered", "killed"}
            /\ status'[s] # 200
    BY <1>2, <2>1 DEF WireOK, ServiceInv, TypeOK
  <2>3. wire' \in [Requests -> Wire]
    BY DEF HttpTypeOK
  <2> QED
    BY <2>1, <2>2, <2>3, QuietStep
<1>6. CASE FailGeneration(r)
  BY <1>6, HttpAnswerStep DEF FailGeneration
<1>7. CASE Unprocessable(r)
  BY <1>7, HttpAnswerStep DEF Unprocessable
<1>8. CASE Preview(r)
  BY <1>2, <1>8, HttpAnswerStep DEF Preview
<1>9. CASE NoPublisher(r)
  BY <1>9, HttpAnswerStep DEF NoPublisher
<1>10. CASE Build(r)
  BY <1>10, HttpBuildStep
<1>11. CASE Finish(r)
  BY <1>2, <1>11, HttpAnswerStep DEF Finish
<1> QED
  BY <1>3, <1>4, <1>5, <1>6, <1>7, <1>8, <1>9, <1>10, <1>11
     DEF Resolve, Decide

LEMMA HttpEnvironmentStep ==
  ASSUME HttpInv, ServiceInv', Environment, UNCHANGED <<wire, rows, faulty>>
  PROVE  HttpInv'
<1> USE DEF HttpInv
<1>1. /\ UNCHANGED <<body, batch, at, report, status>>
      /\ \/ pc' = pc
         \/ pc' = [r \in Requests |->
                     IF pc[r] \in InService THEN "killed" ELSE pc[r]]
  BY DEF Environment, Reconfigure, Midnight, Kill
<1>2. \A s \in Requests :
        wire'[s] # "idle" =>
          /\ wire'[s] = wire[s]
          /\ pc'[s] \in {"publishing", "answered", "killed"}
          /\ status'[s] # 200
  BY <1>1 DEF WireOK
<1>3. wire' \in [Requests -> Wire]
  BY DEF HttpTypeOK
<1> QED
  BY <1>1, <1>2, <1>3, QuietStep

LEMMA HttpRespondStep ==
  ASSUME HttpInv, ServiceInv', NEW r \in Requests, Respond(r)
  PROVE  HttpInv'
<1>1. wire' = [wire EXCEPT ![r] = "idle"] /\ UNCHANGED <<rows, faulty>>
  BY DEF Respond
<1>2. CASE wire[r] = "2xx" /\ PublishReturns(r)
  <2>1. pc[r] = "publishing" /\ Tally(r, 1, 0)
    BY <1>2 DEF PublishReturns
  <2> QED
    BY <1>1, <1>2, <2>1, RespondStep
<1>3. CASE wire[r] = "400" /\ PublishRaisesPoison(r)
  <2>1. pc[r] = "publishing" /\ Tally(r, 0, 1)
    BY <1>3 DEF PublishRaisesPoison
  <2>2. wire[r] = IF 1 = 0 THEN "2xx" ELSE "400"
    BY <1>3
  <2> QED
    BY <1>1, <2>1, <2>2, RespondStep
<1>4. CASE wire[r] = "other" /\ PublishRaisesPushError(r)
  <2>1. /\ Answer(r, 502)
        /\ UNCHANGED <<body, batch, at, report>>
    BY <1>4 DEF PublishRaisesPushError
  <2>2. UNCHANGED <<body, batch, at, report, rows, faulty>>
    BY <1>1, <2>1
  <2>3. wire' = wire \/ wire' = [wire EXCEPT ![r] = "idle"]
    BY <1>1
  <2>4. 502 \in {200, 404, 422, 500, 502, 503} /\ (502 = 200 => wire[r] = "idle")
    OBVIOUS
  <2> QED
    BY <2>1, <2>2, <2>3, <2>4, HttpAnswerStep
<1> QED
  BY <1>2, <1>3, <1>4 DEF Respond

LEMMA HttpTransportStep ==
  ASSUME HttpInv, ServiceInv', NEW r \in Requests, TransportError(r)
  PROVE  HttpInv'
BY HttpAnswerStep DEF TransportError, PublishRaisesOther

LEMMA HttpInitial == HttpInit => HttpInv
<1> SUFFICES ASSUME HttpInit PROVE HttpInv
  OBVIOUS
<1>1. ServiceInv
  BY ServiceInit DEF HttpInit
<1>2. TypeOK /\ \A r \in Requests : at[r] = 0 /\ wire[r] = "idle"
  BY <1>1 DEF ServiceInv, HttpInit, Init
<1>3. HttpTypeOK
  BY <1>2 DEF HttpInit, HttpTypeOK, Wire
<1>4. WireOK /\ ReportMatchesCore /\ RowsTraceable
  BY <1>2 DEF HttpInit, WireOK, ReportMatchesCore, RowsTraceable, Begun
<1> QED
  BY <1>1, <1>3, <1>4 DEF HttpInv

LEMMA HttpStep == HttpInv /\ [HttpNext]_httpVars => HttpInv'
<1> SUFFICES ASSUME HttpInv, [HttpNext]_httpVars PROVE HttpInv'
  OBVIOUS
<1>1. ServiceInv'
  BY HttpStepIsServiceStep, ServiceStep DEF HttpInv
<1>2. CASE Environment /\ UNCHANGED <<wire, rows, faulty>>
  BY <1>1, <1>2, HttpEnvironmentStep
<1>3. ASSUME NEW r \in Requests,
             (Resolve(r) \/ Decide(r) \/ Finish(r)) /\ UNCHANGED <<wire, rows, faulty>>
      PROVE  HttpInv'
  BY <1>1, <1>3, HttpServiceStep
<1>4. ASSUME NEW r \in Requests, Post(r) PROVE HttpInv'
  BY <1>1, <1>4, PostStep
<1>5. ASSUME NEW r \in Requests, CoreAnswers(r) PROVE HttpInv'
  BY <1>5, CoreStep
<1>6. ASSUME NEW r \in Requests, Respond(r) PROVE HttpInv'
  BY <1>1, <1>6, HttpRespondStep
<1>7. ASSUME NEW r \in Requests, TransportError(r) PROVE HttpInv'
  BY <1>1, <1>7, HttpTransportStep
<1>8. CASE UNCHANGED httpVars
  <2>1. /\ UNCHANGED <<wire, rows, faulty, body, batch, at, report, pc, status>>
    BY <1>8 DEF httpVars, serviceVars
  <2>2. wire' \in [Requests -> Wire]
    BY <2>1 DEF HttpInv, HttpTypeOK
  <2>3. \A s \in Requests :
          wire'[s] # "idle" =>
            /\ wire'[s] = wire[s]
            /\ pc'[s] \in {"publishing", "answered", "killed"}
            /\ status'[s] # 200
    BY <2>1 DEF HttpInv, WireOK
  <2> QED
    BY <1>1, <2>1, <2>2, <2>3, QuietStep
<1> QED
  BY <1>2, <1>3, <1>4, <1>5, <1>6, <1>7, <1>8 DEF HttpNext

-----------------------------------------------------------------------------
(* The inductive invariant of the HTTP binding: that of the service, what  *)
(* is on the wire, and what Core's table has to do with the reports.       *)
THEOREM HttpInvariant == HttpSpec => []HttpInv
<1> QED
  BY HttpInitial, HttpStep, PTL DEF HttpSpec

(* Every variable of the composition keeps its type: the wire carries one  *)
(* of the answers publish distinguishes, Core stores canonical records.    *)
THEOREM HttpTypeCorrect == HttpSpec => []HttpTypeOK
<1>1. HttpInv => HttpTypeOK
  BY DEF HttpInv
<1> QED
  BY <1>1, HttpInvariant, PTL

(* Whatever Core and the network do, the rejected count of a report is the *)
(* number of its poison records and everything else it counts has a row.   *)
THEOREM ReportsAreTrue == HttpSpec => []ReportMatchesCore
<1>1. HttpInv => ReportMatchesCore
  BY DEF HttpInv
<1> QED
  BY <1>1, HttpInvariant, PTL

(* Every row at Core is a record some dispatch had reached, and there is   *)
(* one row per source_hash.                                                *)
THEOREM RowsAreTraceable == HttpSpec => []RowsTraceable
<1>1. HttpInv => RowsTraceable
  BY DEF HttpInv
<1> QED
  BY <1>1, HttpInvariant, PTL

-----------------------------------------------------------------------------
(* At position n every record before n that is not poison has a row, so    *)
(* once the loop is through all of them have.                              *)
LEMMA DoneMeansStored ==
  ASSUME HttpInv, NEW r \in Requests, Begun(r),
         at[r] = Len(batch[r].records) + 1
  PROVE  Offered(r) \ Poison \subseteq StoredHashes
<1> USE DEF HttpInv
<1>1. Len(batch[r].records) \in Nat
  BY RequestTypes DEF HttpTypeOK
<1>2. at[r] - 1 = Len(batch[r].records)
  BY <1>1
<1>3. \A i \in 1..at[r] - 1 :
        Records(r)[i].hash \notin Poison => Records(r)[i].hash \in StoredHashes
  BY DEF ReportMatchesCore
<1> QED
  BY <1>2, <1>3 DEF Offered

LEMMA SuccessMeansDone ==
  ASSUME HttpInv, NEW r \in Requests, Begun(r), status[r] = 200
  PROVE  at[r] = Len(batch[r].records) + 1
BY DEF HttpInv, ServiceInv, Stages

(* Only Core adds rows, one at a time, of a record that is on the wire and *)
(* is neither poison nor stored.                                           *)
LEMMA NewRow ==
  ASSUME HttpInv, [HttpNext]_httpVars, NEW row \in rows', row \notin rows
  PROVE  row.hash \notin Poison /\ row.hash \notin StoredHashes
<1>1. CASE UNCHANGED rows
  BY <1>1
<1>2. ASSUME NEW r \in Requests, rows' = Upsert(OnWire(r)),
             OnWire(r).hash \notin Poison
      PROVE  row.hash \notin Poison /\ row.hash \notin StoredHashes
  BY <1>2 DEF Upsert
<1>3. ASSUME NEW r \in Requests, CoreAnswers(r)
      PROVE  rows' = rows \/ (/\ rows' = Upsert(OnWire(r))
                              /\ OnWire(r).hash \notin Poison)
  BY <1>3 DEF CoreAnswers, CoreAccepts, CoreRefuses, CoreFails
<1>4. UNCHANGED rows \/ \E r \in Requests : CoreAnswers(r)
  BY DEF HttpNext, httpVars, Post, Respond, TransportError
<1> QED
  BY <1>1, <1>2, <1>3, <1>4

(* Sending a succeeded run again is safe: no later step of any request     *)
(* adds a row under one of its source hashes.                              *)
THEOREM RetriesAddNothing == HttpSpec => RetryAddsNothing
<1>1. ASSUME HttpInv, [HttpNext]_httpVars
      PROVE  [\A r \in Requests : Begun(r) /\ status[r] = 200 =>
                \A row \in rows' \ rows : row.hash \notin Offered(r)]_httpVars
  BY <1>1, NewRow, DoneMeansStored, SuccessMeansDone
<1> QED
  BY <1>1, HttpInvariant, PTL DEF HttpSpec, RetryAddsNothing

-----------------------------------------------------------------------------
LEMMA ContractInit == HttpInit => Contract!Init
<1> SUFFICES ASSUME HttpInit PROVE Contract!Init
  OBVIOUS
<1>1. \A r \in Requests : at[r] = 0 /\ batch[r] = EmptyBatch
  BY DEF HttpInit, Init
<1>2. \A r \in Requests : RunState(r) = "idle"
  BY <1>1 DEF RunState, Begun
<1>3. \A r \in Requests : Offered(r) = {}
  BY <1>1 DEF Offered, EmptyBatch
<1>4. StoredHashes = {}
  BY DEF HttpInit, StoredHashes
<1> QED
  BY <1>2, <1>3, <1>4 DEF Contract!Init

(* A step of the service is one of the contract or a stutter: a run        *)
(* succeeds only with all it must have stored.                             *)
LEMMA ServiceKeepsContract ==
  ASSUME HttpInv, RunsStep, UNCHANGED rows
  PROVE  [Contract!Next]_Contract!contractVars
<1> USE DEF RunStates, Offers
<1>1. StoredHashes' = StoredHashes
  BY DEF StoredHashes
<1>2. CASE UNCHANGED <<RunStates, Offers>>
  BY <1>1, <1>2 DEF Contract!contractVars
<1>3. ASSUME NEW r \in Requests, NEW ks \in SUBSET Hashes, RunBegins(r, ks)
      PROVE  Contract!Next
  <2>1. Contract!Begin(r, ks)
    BY <1>1, <1>3 DEF RunBegins, Contract!Begin
  <2> QED
    BY <2>1 DEF Contract!Next
<1>4. ASSUME NEW r \in Requests, RunSucceeds(r)
      PROVE  Contract!Next
  <2>1. Offered(r) \ Poison \subseteq StoredHashes
    BY <1>4, DoneMeansStored DEF RunSucceeds
  <2>2. Contract!Succeed(r)
    BY <1>1, <1>4, <2>1 DEF RunSucceeds, Contract!Succeed
  <2> QED
    BY <2>2 DEF Contract!Next
<1>5. ASSUME NEW rs \in SUBSET Requests, RunsFail(rs)
      PROVE  Contract!Next
  <2>1. Contract!Fail(rs)
    BY <1>1, <1>5 DEF RunsFail, Contract!Fail
  <2> QED
    BY <2>1 DEF Contract!Next
<1> QED
  BY <1>2, <1>3, <1>4, <1>5 DEF RunsStep

(* Core stores a record of a run that is running or has failed since.      *)
LEMMA CoreStores ==
  ASSUME HttpInv, NEW r \in Requests, CoreAnswers(r)
  PROVE  [Contract!Next]_Contract!contractVars
<1> USE DEF HttpInv, ServiceInv
<1> DEFINE rec == OnWire(r)
<1>1. /\ wire[r] = "sent"
      /\ UNCHANGED <<pc, body, batch, at, status>>
      /\ rows' = rows \/ (rows' = Upsert(rec) /\ rec.hash \notin Poison)
  BY DEF CoreAnswers, CoreAccepts, CoreRefuses, CoreFails, serviceVars
<1>2. UNCHANGED RunStates /\ UNCHANGED Offers
  <2>1. \A s \in Requests : RunState(s)' = RunState(s)
    BY <1>1 DEF RunState, Begun
  <2> QED
    BY <1>1, <2>1, SameOffers DEF RunStates
<1>3. CASE rows' = rows
  <2>1. StoredHashes' = StoredHashes
    BY <1>3 DEF StoredHashes
  <2> QED
    BY <1>2, <2>1 DEF Contract!contractVars, RunStates, Offers
<1>4. CASE rows' = Upsert(rec) /\ rec.hash \notin Poison
  <2>1. /\ at[r] \in 1..Len(batch[r].records)
        /\ pc[r] \in {"publishing", "answered", "killed"} /\ status[r] # 200
    BY <1>1 DEF WireOK
  <2>2. RunState(r) \in {"running", "failed"}
    BY <2>1 DEF RunState, Begun
  <2>3. rec.hash \in Offered(r) /\ rec \in CanonicalRecord /\ rec.hash \in Hashes
    BY <2>1, RecordsOfRequest DEF Offered, OnWire
  <2>4. StoredHashes' = StoredHashes \cup {rec.hash}
    BY <1>4, <2>3, UpsertRows DEF StoredHashes
  <2> HIDE DEF rec
  <2>5. Contract!Store(r, rec.hash)
    BY <1>2, <1>4, <2>2, <2>3, <2>4 DEF Contract!Store, RunStates, Offers
  <2> QED
    BY <2>3, <2>5 DEF Contract!Next
<1> QED
  BY <1>1, <1>3, <1>4

LEMMA ContractStep ==
  HttpInv /\ HttpInv' /\ [HttpNext]_httpVars
    => [Contract!Next]_Contract!contractVars
<1> SUFFICES ASSUME HttpInv, HttpInv', [HttpNext]_httpVars
             PROVE  [Contract!Next]_Contract!contractVars
  OBVIOUS
<1>1. RunsStep
  <2>1. ServiceInv /\ ServiceInv'
    BY DEF HttpInv
  <2> QED
    BY <2>1, HttpStepIsServiceStep, RunsOfService
<1>2. CASE UNCHANGED rows
  BY <1>1, <1>2, ServiceKeepsContract
<1>3. ASSUME NEW r \in Requests, CoreAnswers(r)
      PROVE  [Contract!Next]_Contract!contractVars
  BY <1>3, CoreStores
<1>4. UNCHANGED rows \/ \E r \in Requests : CoreAnswers(r)
  BY DEF HttpNext, httpVars, Post, Respond, TransportError
<1> QED
  BY <1>2, <1>3, <1>4

-----------------------------------------------------------------------------
(* The dispatch service over HTTP keeps the connectors' contract: a run    *)
(* succeeds only when all it offered but the poison is stored, and nothing *)
(* is ever stored that a run in progress or failed has not offered.        *)
THEOREM HttpKeepsContract == HttpSpec => KeepsContract
<1>1. HttpInit => Contract!Init
  BY ContractInit
<1> QED
  BY <1>1, ContractStep, HttpInvariant, PTL
     DEF HttpSpec, KeepsContract, Contract!Spec

=============================================================================
