-------------------------- MODULE SimServiceProofs --------------------------
(***************************************************************************)
(* Stamping, for every batch: what FirstSeen finds, that stamped records   *)
(* are canonical records, and that within a batch equal hashes mean the    *)
(* same record under the same message id.                                  *)
(*                                                                         *)
(* Safety of the dispatch service, for any number of requests and for any  *)
(* bodies, settings, presets and batches the assumptions of SimService     *)
(* allow: the invariants the runs check, from one inductive invariant.     *)
(* And what every binding needs: facts about Core's table, and what a step *)
(* of the service is to the runs of IngestionContract.                     *)
(***************************************************************************)
EXTENDS CoreTable, Loops

(* first_seen resolves a record to the first one of the batch equal to it. *)
LEMMA FirstSeenIsFirst ==
  ASSUME NEW records \in Seq(SimRecord), NEW i \in 1..Len(records)
  PROVE  /\ FirstSeen(records, i) \in 1..i
         /\ records[FirstSeen(records, i)] = records[i]
         /\ \A k \in 1..i :
              records[k] = records[i] => FirstSeen(records, i) <= k
<1> DEFINE T == {j \in 1..i : records[j] = records[i]}
<1>1. T \subseteq Nat /\ i \in T
  OBVIOUS
<1>2. PICK x \in T : \A y \in T : x <= y
  BY <1>1, LeastElement
<1>3. /\ x \in 1..i
      /\ records[x] = records[i]
      /\ \A k \in 1..i : records[k] = records[i] => x <= k
  BY <1>2
<1> HIDE DEF T
<1> QED
  BY <1>3 DEF FirstSeen

LEMMA SimRecordFields ==
  ASSUME NEW rec \in SimRecord
  PROVE  /\ rec.type \in SimTypes
         /\ rec.payload \in Payloads
         /\ rec.type = TypeOf[rec.payload]
         /\ SourceHash(rec) \in Hashes
  BY DigestAssumption DEF SimRecord, SourceHash

LEMMA StampType ==
  ASSUME NEW records \in Seq(SimRecord), NEW id \in BatchIds,
         NEW i \in 1..Len(records)
  PROVE  /\ Stamp(records, id, i) \in CanonicalRecord
         /\ Stamp(records, id, i).hash = SourceHash(records[i])
         /\ Stamp(records, id, i).type = records[i].type
         /\ Stamp(records, id, i).mid.index = FirstSeen(records, i)
<1>1. records[i] \in SimRecord
  OBVIOUS
<1>2. FirstSeen(records, i) \in Nat \ {0}
  BY FirstSeenIsFirst
<1> QED
  BY <1>1, <1>2, SimRecordFields DEF Stamp, CanonicalRecord, MessageId

(* The stamped batch is aligned with the generated one.                    *)
LEMMA BuiltRecords ==
  ASSUME NEW records \in Seq(SimRecord), NEW id \in BatchIds
  PROVE  /\ BuildCanonicalRecords(records, id) \in Seq(CanonicalRecord)
         /\ Len(BuildCanonicalRecords(records, id)) = Len(records)
         /\ \A i \in 1..Len(records) :
              /\ BuildCanonicalRecords(records, id)[i] = Stamp(records, id, i)
              /\ BuildCanonicalRecords(records, id)[i] \in CanonicalRecord
              /\ BuildCanonicalRecords(records, id)[i].hash
                   = SourceHash(records[i])
<1>1. \A i \in 1..Len(records) : Stamp(records, id, i) \in CanonicalRecord
  BY StampType
<1>2. BuildCanonicalRecords(records, id) \in Seq(CanonicalRecord)
  BY <1>1 DEF BuildCanonicalRecords
<1>3. Len(BuildCanonicalRecords(records, id)) = Len(records)
  BY DEF BuildCanonicalRecords
<1>4. \A i \in 1..Len(records) :
        BuildCanonicalRecords(records, id)[i] = Stamp(records, id, i)
  BY DEF BuildCanonicalRecords
<1> QED
  BY <1>1, <1>2, <1>3, <1>4, StampType

(* Equal payloads mean equal records: a payload has one record type.       *)
LEMMA HashDeterminesRecord ==
  ASSUME NEW rec1 \in SimRecord, NEW rec2 \in SimRecord,
         SourceHash(rec1) = SourceHash(rec2)
  PROVE  rec1 = rec2
<1>1. rec1.payload = rec2.payload
  BY DigestAssumption, SimRecordFields DEF SourceHash
<1>2. rec1.type = rec2.type
  BY <1>1, SimRecordFields
<1> QED
  BY <1>1, <1>2 DEF SimRecord

LEMMA FirstSeenOfEqual ==
  ASSUME NEW records \in Seq(SimRecord),
         NEW i \in 1..Len(records), NEW j \in 1..Len(records),
         records[i] = records[j]
  PROVE  FirstSeen(records, i) = FirstSeen(records, j)
<1>1. FirstSeen(records, i) \in 1..i /\ FirstSeen(records, j) \in 1..j
  BY FirstSeenIsFirst
<1>2. CASE i <= j
  <2>1. FirstSeen(records, i) \in 1..j
    BY <1>1, <1>2
  <2>2. FirstSeen(records, j) <= FirstSeen(records, i)
    BY <2>1, FirstSeenIsFirst
  <2>3. FirstSeen(records, j) \in 1..i
    BY <1>1, <2>2
  <2>4. FirstSeen(records, i) <= FirstSeen(records, j)
    BY <2>3, FirstSeenIsFirst
  <2> QED
    BY <1>1, <2>2, <2>4
<1>3. CASE j <= i
  <2>1. FirstSeen(records, j) \in 1..i
    BY <1>1, <1>3
  <2>2. FirstSeen(records, i) <= FirstSeen(records, j)
    BY <2>1, FirstSeenIsFirst
  <2>3. FirstSeen(records, i) \in 1..j
    BY <1>1, <2>2
  <2>4. FirstSeen(records, j) <= FirstSeen(records, i)
    BY <2>3, FirstSeenIsFirst
  <2> QED
    BY <1>1, <2>2, <2>4
<1> QED
  BY <1>2, <1>3

(* Within a batch, one hash is one record under one message id, and one    *)
(* message id is one hash (docstring of build_canonical_records).          *)
THEOREM StampedCollisionsAreDuplicates ==
  ASSUME NEW records \in Seq(SimRecord), NEW id \in BatchIds,
         NEW i \in 1..Len(records), NEW j \in 1..Len(records)
  PROVE  LET built == BuildCanonicalRecords(records, id)
         IN  /\ built[i].hash = built[j].hash => built[i] = built[j]
             /\ built[i].mid = built[j].mid => built[i].hash = built[j].hash
<1>1. /\ BuildCanonicalRecords(records, id)[i] = Stamp(records, id, i)
      /\ BuildCanonicalRecords(records, id)[j] = Stamp(records, id, j)
  BY BuiltRecords
<1>2. records[i] \in SimRecord /\ records[j] \in SimRecord
  OBVIOUS
<1>3. ASSUME Stamp(records, id, i).hash = Stamp(records, id, j).hash
      PROVE  Stamp(records, id, i) = Stamp(records, id, j)
  <2>1. SourceHash(records[i]) = SourceHash(records[j])
    BY <1>3, StampType
  <2>2. records[i] = records[j]
    BY <1>2, <2>1, HashDeterminesRecord
  <2> QED
    BY <2>2, FirstSeenOfEqual DEF Stamp
<1>4. ASSUME Stamp(records, id, i).mid = Stamp(records, id, j).mid
      PROVE  Stamp(records, id, i).hash = Stamp(records, id, j).hash
  <2>1. FirstSeen(records, i) = FirstSeen(records, j)
    BY <1>4, StampType
  <2>2. records[i] = records[j]
    BY <2>1, FirstSeenIsFirst
  <2> QED
    BY <2>2, StampType
<1> QED
  BY <1>1, <1>3, <1>4

-----------------------------------------------------------------------------
(* What the place of a request says about the rest of its state: it passed *)
(* the gate under the settings it carries, the loop position is in range,  *)
(* a response exists only once answered, and a response of 200 to an       *)
(* emission means the loop has run to its end.                             *)
Stages ==
  \A r \in Requests :
    /\ pc[r] \in {"new", "admitted"} => at[r] = 0
    /\ pc[r] = "admitted" => /\ GateOpen(conf[r])
                             /\ PublisherConstructible(conf[r])
    /\ pc[r] # "answered" => status[r] = 0
    /\ pc[r] \in {"emitting", "publishing"} => Begun(r)
    /\ pc[r] = "publishing" => at[r] <= Len(batch[r].records)
    /\ ~Begun(r) => report[r] = EmptyReport
    /\ at[r] <= Len(batch[r].records) + 1
    /\ batch[r].marks \subseteq 1..Len(batch[r].records)
    /\ Begun(r) /\ status[r] = 200 => at[r] = Len(batch[r].records) + 1

ServiceInv ==
  /\ TypeOK
  /\ Stages
  /\ ReportAligned
  /\ ManifestResolved
  /\ OnlySanctionedEmission

-----------------------------------------------------------------------------
(* The batch of an accepted body is one: its records are typed and its     *)
(* ground truth names positions of its own.                                *)
LEMMA AcceptedBatch ==
  ASSUME NEW b \in Bodies, NEW day \in Days, Processable(b)
  PROVE  /\ BatchOf(b, day) \in GeneratedBatch
         /\ BatchOf(b, day).marks \subseteq 1..Len(BatchOf(b, day).records)
<1>1. b \in DispatchRequest
  BY ServiceAssumption
<1>2. CASE b.mode = "auto"
  <2>1. b.preset \in Registry /\ <<b.preset, b.params>> \notin Raising
    BY <1>2, <1>1 DEF Processable, GenerationRaises
  <2>2. <<b.preset, b.params, day>> \in GeneratorInputs
    BY <2>1, <1>1 DEF GeneratorInputs, DispatchRequest
  <2>3. BatchOf(b, day) = Generate[<<b.preset, b.params, day>>]
    BY <1>2 DEF BatchOf
  <2> QED
    BY <2>2, <2>3, GeneratorAssumption
<1>3. CASE b.mode # "auto"
  <2> DEFINE rec(i) == [type    |-> b.items[i].type,
                        payload |-> Validated[b.items[i].type,
                                              b.items[i].content]]
  <2>1. b.items \in Seq([type : RecordTypes, content : Contents])
    BY <1>1 DEF DispatchRequest
  <2>2. \A i \in 1..Len(b.items) : ValidItem(b.items[i])
    BY <1>3, <2>1 DEF Processable
  <2>3. \A i \in 1..Len(b.items) : rec(i) \in SimRecord
    <3> SUFFICES ASSUME NEW i \in 1..Len(b.items) PROVE rec(i) \in SimRecord
      OBVIOUS
    <3>1. b.items[i] \in [type : RecordTypes, content : Contents]
      BY <2>1, ElementOfSeq
    <3>2. b.items[i].type \in SimTypes /\ b.items[i].content \in Contents
      BY <2>2, <3>1 DEF ValidItem
    <3>3. Validated[b.items[i].type, b.items[i].content] \in Payloads
      BY <2>2, <3>2, ServiceAssumption DEF ValidItem
    <3>4. TypeOf[Validated[b.items[i].type, b.items[i].content]]
            = b.items[i].type
      BY <3>2, <3>3, ServiceAssumption
    <3> QED
      BY <3>2, <3>3, <3>4 DEF SimRecord
  <2>4. BatchOf(b, day) = [records |-> [i \in 1..Len(b.items) |-> rec(i)],
                           marks |-> {}]
    BY <1>3 DEF BatchOf, ManualBatch
  <2>5. Len(b.items) \in Nat
    BY <2>1
  <2>6. [i \in 1..Len(b.items) |-> rec(i)] \in Seq(SimRecord)
    <3> HIDE DEF rec
    <3> QED
      BY <2>3, <2>5
  <2> HIDE DEF rec
  <2> QED
    BY <2>4, <2>6 DEF GeneratedBatch
<1> QED
  BY <1>2, <1>3

LEMMA RequestTypes ==
  ASSUME TypeOK, NEW r \in Requests
  PROVE  /\ batch[r].records \in Seq(SimRecord)
         /\ Len(batch[r].records) \in Nat
         /\ batch[r].marks \subseteq Nat
         /\ body[r].batch_id \in BatchIds
         /\ at[r] \in Nat
         /\ report[r] \in Report
         /\ report[r].emitted \in Nat
         /\ report[r].rejected \in Nat
         /\ report[r].source_hashes \in Seq(Hashes)
<1>1. batch[r] \in GeneratedBatch /\ report[r] \in Report /\ at[r] \in Nat
  BY DEF TypeOK
<1>2. batch[r].records \in Seq(SimRecord) /\ batch[r].marks \subseteq Nat
  BY <1>1 DEF GeneratedBatch
<1>3. Len(batch[r].records) \in Nat
  BY <1>2, LenProperties
<1>4. body[r].batch_id \in BatchIds
  <2>1. body[r] \in Bodies
    BY DEF TypeOK
  <2>2. body[r] \in DispatchRequest
    BY <2>1, ServiceAssumption
  <2> QED
    BY <2>2 DEF DispatchRequest
<1> QED
  BY <1>1, <1>2, <1>3, <1>4 DEF Report

(* The stamped records of a request are aligned with its batch.            *)
LEMMA RecordsOfRequest ==
  ASSUME TypeOK, NEW r \in Requests
  PROVE  /\ Records(r) \in Seq(CanonicalRecord)
         /\ Len(Records(r)) = Len(batch[r].records)
         /\ \A i \in 1..Len(batch[r].records) :
              /\ Records(r)[i] \in CanonicalRecord
              /\ Records(r)[i].hash = SourceHash(batch[r].records[i])
              /\ Records(r)[i].hash \in Hashes
<1>1. batch[r].records \in Seq(SimRecord) /\ body[r].batch_id \in BatchIds
  BY RequestTypes
<1>2. \A rec \in CanonicalRecord : rec.hash \in Hashes
  BY DEF CanonicalRecord
<1>3. /\ Records(r) \in Seq(CanonicalRecord)
      /\ Len(Records(r)) = Len(batch[r].records)
      /\ \A i \in 1..Len(batch[r].records) :
           /\ Records(r)[i] \in CanonicalRecord
           /\ Records(r)[i].hash = SourceHash(batch[r].records[i])
  BY <1>1, BuiltRecords DEF Records
<1> QED
  BY <1>2, <1>3

LEMMA SameRecords ==
  ASSUME UNCHANGED <<batch, body>>, NEW r \in Requests
  PROVE  Records(r)' = Records(r)
BY DEF Records

(* Core's table after a record arrives has its hash, nothing less than     *)
(* before, and still one row per hash.                                     *)
LEMMA UpsertRows ==
  ASSUME NEW rec \in CanonicalRecord
  PROVE  /\ rows \subseteq Upsert(rec)
         /\ Upsert(rec) \subseteq rows \cup {rec}
         /\ {row.hash : row \in Upsert(rec)} = StoredHashes \cup {rec.hash}
         /\ (\A row1, row2 \in rows : row1.hash = row2.hash => row1 = row2)
              => (\A row1, row2 \in Upsert(rec) :
                    row1.hash = row2.hash => row1 = row2)
<1>1. CASE rec.hash \in StoredHashes
  BY <1>1 DEF Upsert, StoredHashes
<1>2. CASE rec.hash \notin StoredHashes
  BY <1>2 DEF Upsert, StoredHashes
<1> QED
  BY <1>1, <1>2

(* A response that is no success of an emission, whatever the place of the *)
(* request and whatever the status.                                        *)
LEMMA AnswerStep ==
  ASSUME ServiceInv, NEW r \in Requests,
         NEW code \in {200, 404, 422, 500, 502, 503},
         code = 200 => ~Begun(r),
         Answer(r, code),
         UNCHANGED <<settings, today, body, conf, batch, at, report, manifest>>
  PROVE  ServiceInv'
<1> USE DEF ServiceInv
<1>1. /\ pc' = [pc EXCEPT ![r] = "answered"]
      /\ status' = [status EXCEPT ![r] = code]
  BY DEF Answer
<1>2. TypeOK'
  BY <1>1 DEF TypeOK
<1>3. Stages'
  BY <1>1 DEF TypeOK, Stages, Begun
<1>4. ReportAligned'
  BY DEF ReportAligned, Begun
<1>5. ManifestResolved'
  BY <1>1 DEF TypeOK, ManifestResolved, Begun
<1>6. OnlySanctionedEmission'
  BY DEF OnlySanctionedEmission, Begun
<1> QED
  BY <1>2, <1>3, <1>4, <1>5, <1>6

(* One more outcome in the report, and on to the next record.              *)
LEMMA TallyStep ==
  ASSUME ServiceInv, NEW r \in Requests, pc[r] = "publishing",
         NEW sent \in Nat, NEW refused \in Nat, sent + refused = 1,
         Tally(r, sent, refused)
  PROVE  ServiceInv'
<1> USE DEF ServiceInv
<1> DEFINE hash == Records(r)[at[r]].hash
           next == [emitted       |-> report[r].emitted + sent,
                    rejected      |-> report[r].rejected + refused,
                    source_hashes |-> Append(report[r].source_hashes, hash)]
<1>1. /\ report' = [report EXCEPT ![r] = next]
      /\ at' = [at EXCEPT ![r] = @ + 1]
      /\ pc' = [pc EXCEPT ![r] = "emitting"]
      /\ UNCHANGED <<settings, today, body, conf, batch, status, manifest>>
  BY DEF Tally
<1>2. Begun(r) /\ at[r] \in 1..Len(batch[r].records)
  BY RequestTypes DEF Stages, Begun
<1>3. hash \in Hashes /\ hash = SourceHash(batch[r].records[at[r]])
  BY <1>2, RecordsOfRequest
<1> HIDE DEF hash
<1>4. Append(report[r].source_hashes, hash) \in Seq(Hashes)
  BY <1>3, RequestTypes, AppendProperties
<1>5. /\ next \in Report
      /\ next.emitted = report[r].emitted + sent
      /\ next.rejected = report[r].rejected + refused
      /\ next.source_hashes = Append(report[r].source_hashes, hash)
  BY <1>4, RequestTypes DEF Report
<1> HIDE DEF next
<1>6. TypeOK'
  BY <1>1, <1>5 DEF TypeOK, InService
<1>7. Stages'
  <2>1. at[r] + 1 <= Len(batch[r].records) + 1 /\ at[r] + 1 > 0
    BY <1>2
  <2>2. status[r] = 0
    BY DEF Stages
  <2> QED
    BY <1>1, <2>1, <2>2 DEF TypeOK, Stages, Begun
<1>8. ReportAligned'
  <2> SUFFICES ASSUME NEW s \in Requests, Begun(s)'
               PROVE  /\ report'[s].emitted + report'[s].rejected = at'[s] - 1
                      /\ Len(report'[s].source_hashes) = at'[s] - 1
                      /\ \A i \in 1..at'[s] - 1 :
                           report'[s].source_hashes[i]
                             = SourceHash(batch[s].records[i])
    BY <1>1 DEF ReportAligned
  <2>1. CASE s # r
    BY <1>1, <2>1 DEF TypeOK, ReportAligned, Begun
  <2>2. CASE s = r
    <3>1. report'[r] = next /\ at'[r] = at[r] + 1
      BY <1>1 DEF TypeOK
    <3>2. /\ report[r].emitted + report[r].rejected = at[r] - 1
          /\ Len(report[r].source_hashes) = at[r] - 1
          /\ \A i \in 1..at[r] - 1 :
               report[r].source_hashes[i] = SourceHash(batch[r].records[i])
      BY <1>2 DEF ReportAligned
    <3>3. /\ Len(next.source_hashes) = at[r]
          /\ next.source_hashes[at[r]] = hash
          /\ \A i \in 1..at[r] - 1 :
               next.source_hashes[i] = report[r].source_hashes[i]
      <4>1. report[r].source_hashes \in Seq(Hashes) /\ at[r] \in Nat
        BY RequestTypes
      <4> QED
        BY <4>1, <1>3, <1>5, <3>2, AppendProperties
    <3>4. /\ report[r].emitted \in Nat /\ report[r].rejected \in Nat
          /\ at[r] \in Nat
      BY RequestTypes
    <3>5. next.emitted + next.rejected = at[r]
      <4>1. PICK a \in Nat, b \in Nat :
              a = report[r].emitted /\ b = report[r].rejected
        BY <3>4
      <4>2. a + b = at[r] - 1
        BY <3>2, <4>1
      <4>3. (a + sent) + (b + refused) = at[r]
        BY <3>4, <4>2
      <4> QED
        BY <4>1, <4>3, <1>5, Zenon
    <3>6. \A i \in 1..at[r] : i = at[r] \/ i \in 1..at[r] - 1
      BY <3>4
    <3>7. \A i \in 1..at[r] :
            next.source_hashes[i] = SourceHash(batch[r].records[i])
      BY <1>3, <3>2, <3>3, <3>6
    <3>8. at'[r] - 1 = at[r]
      BY <3>1, <3>4
    <3> QED
      BY <2>2, <3>1, <3>3, <3>5, <3>7, <3>8
  <2> QED
    BY <2>1, <2>2
<1>9. ManifestResolved'
  BY <1>1, <1>2 DEF TypeOK, Stages, ManifestResolved, Begun
<1>10. OnlySanctionedEmission'
  BY <1>1, <1>2 DEF TypeOK, OnlySanctionedEmission, Begun
<1> QED
  BY <1>6, <1>7, <1>8, <1>9, <1>10

LEMMA AdmitStep ==
  ASSUME ServiceInv, NEW r \in Requests, Admit(r)
  PROVE  ServiceInv'
<1> USE DEF ServiceInv
<1>1. /\ pc' = [pc EXCEPT ![r] = "admitted"]
      /\ conf' = [conf EXCEPT ![r] = settings]
      /\ UNCHANGED <<settings, today, body, batch, at, report, status, manifest>>
  BY DEF Admit
<1>2. /\ pc[r] = "new" /\ at[r] = 0 /\ ~Begun(r)
      /\ GateOpen(settings) /\ PublisherConstructible(settings)
  BY DEF Admit, Stages, Begun
<1>3. TypeOK'
  BY <1>1 DEF TypeOK, InService
<1>4. Stages'
  BY <1>1, <1>2 DEF TypeOK, Stages, Begun
<1>5. ReportAligned' /\ ManifestResolved'
  BY <1>1 DEF ReportAligned, ManifestResolved, Begun
<1>6. OnlySanctionedEmission'
  BY <1>1, <1>2 DEF TypeOK, OnlySanctionedEmission, Begun
<1> QED
  BY <1>3, <1>4, <1>5, <1>6

(* Emission begins only here, under the gate, cap, mode and binding that   *)
(* OnlySanctionedEmission remembers.                                       *)
LEMMA BuildStep ==
  ASSUME ServiceInv, NEW r \in Requests, Build(r)
  PROVE  ServiceInv'
<1> USE DEF ServiceInv
<1> DEFINE built == BatchOf(body[r], today)
<1>1. /\ batch' = [batch EXCEPT ![r] = built]
      /\ at' = [at EXCEPT ![r] = 1]
      /\ pc' = [pc EXCEPT ![r] = "emitting"]
      /\ UNCHANGED <<settings, today, body, conf, report, status, manifest>>
  BY DEF Build
<1>2. body[r] \in Bodies /\ today \in Days
  BY DEF TypeOK
<1>3. /\ pc[r] = "admitted" /\ ~body[r].dry_run /\ Binding(conf[r]) # "none"
      /\ Processable(body[r])
      /\ Len(built.records) <= conf[r].max_records_per_run
      /\ GateOpen(conf[r]) /\ PublisherConstructible(conf[r])
  BY DEF Build, Acceptable, Stages
<1>4. built \in GeneratedBatch /\ built.marks \subseteq 1..Len(built.records)
  BY <1>2, <1>3, AcceptedBatch
<1> HIDE DEF built
<1>5. Len(built.records) \in Nat
  <2>1. built.records \in Seq(SimRecord)
    BY <1>4 DEF GeneratedBatch
  <2> QED
    BY <2>1, LenProperties
<1>6. ~Begun(r) /\ status[r] = 0 /\ report[r] = EmptyReport
  BY <1>3 DEF Stages, Begun
<1>7. TypeOK'
  BY <1>1, <1>4 DEF TypeOK, InService
<1>8. Stages'
  BY <1>1, <1>4, <1>5, <1>6 DEF TypeOK, Stages, Begun
<1>9. ReportAligned'
  <2> SUFFICES ASSUME NEW s \in Requests, Begun(s)'
               PROVE  /\ report[s].emitted + report[s].rejected = at'[s] - 1
                      /\ Len(report[s].source_hashes) = at'[s] - 1
                      /\ \A i \in 1..at'[s] - 1 :
                           report[s].source_hashes[i]
                             = SourceHash(batch'[s].records[i])
    BY <1>1 DEF ReportAligned
  <2>1. CASE s # r
    BY <1>1, <2>1 DEF TypeOK, ReportAligned, Begun
  <2>2. CASE s = r
    BY <1>1, <1>6, <2>2 DEF TypeOK, EmptyReport
  <2> QED
    BY <2>1, <2>2
<1>10. ManifestResolved'
  BY <1>1, <1>6 DEF TypeOK, ManifestResolved, Begun
<1>11. OnlySanctionedEmission'
  BY <1>1, <1>3 DEF TypeOK, OnlySanctionedEmission, Begun
<1> QED
  BY <1>7, <1>8, <1>9, <1>10, <1>11

LEMMA PublishStep ==
  ASSUME ServiceInv, NEW r \in Requests, Publish(r)
  PROVE  ServiceInv'
<1> USE DEF ServiceInv
<1>1. /\ pc' = [pc EXCEPT ![r] = "publishing"]
      /\ pc[r] = "emitting" /\ at[r] <= Len(batch[r].records)
      /\ UNCHANGED <<settings, today, body, conf, batch, at, report, status,
                     manifest>>
  BY DEF Publish
<1>2. TypeOK'
  BY <1>1 DEF TypeOK, InService
<1>3. Stages'
  BY <1>1 DEF TypeOK, Stages, Begun
<1>4. ReportAligned' /\ ManifestResolved' /\ OnlySanctionedEmission'
  BY <1>1 DEF ReportAligned, ManifestResolved, OnlySanctionedEmission, Begun
<1> QED
  BY <1>2, <1>3, <1>4

(* The loop has run to its end, so every position the ground truth names   *)
(* has its hash in the report.                                             *)
LEMMA FinishStep ==
  ASSUME ServiceInv, NEW r \in Requests, Finish(r)
  PROVE  ServiceInv'
<1> USE DEF ServiceInv
<1> DEFINE marks == batch[r].marks
           hashes == report[r].source_hashes
           enriched == EnrichGroundTruth(marks, hashes)
<1>1. /\ manifest' = [manifest EXCEPT ![r] = enriched]
      /\ pc' = [pc EXCEPT ![r] = "answered"]
      /\ status' = [status EXCEPT ![r] = 200]
      /\ UNCHANGED <<settings, today, body, conf, batch, at, report>>
  BY DEF Finish, Answer
<1>2. Begun(r) /\ at[r] = Len(batch[r].records) + 1
  <2>1. at[r] > Len(batch[r].records) /\ at[r] <= Len(batch[r].records) + 1
    BY DEF Finish, Stages
  <2> QED
    BY <2>1, RequestTypes DEF Finish, Stages
<1>3. /\ Len(hashes) = Len(batch[r].records)
      /\ \A i \in 1..Len(batch[r].records) :
           hashes[i] = SourceHash(batch[r].records[i])
  <2>1. /\ Len(hashes) = at[r] - 1
        /\ \A i \in 1..at[r] - 1 : hashes[i] = SourceHash(batch[r].records[i])
    BY <1>2 DEF ReportAligned
  <2>2. at[r] - 1 = Len(batch[r].records)
    <3>1. Len(batch[r].records) \in Nat
      BY RequestTypes
    <3> QED
      BY <1>2, <3>1
  <2> QED
    BY <2>1, <2>2
<1>4. marks \subseteq 1..Len(batch[r].records) /\ marks \subseteq Nat
  BY RequestTypes DEF Stages
<1>5. \A i \in marks : hashes[i] \in Hashes
  BY <1>3, <1>4, RequestTypes, ElementOfSeq
<1>6. enriched = {[index |-> i, hash |-> SourceHash(batch[r].records[i])] :
                    i \in marks}
  <2>1. marks \cap 1..Len(hashes) = marks
    BY <1>3, <1>4
  <2>2. \A i \in marks : hashes[i] = SourceHash(batch[r].records[i])
    BY <1>3, <1>4
  <2> QED
    BY <2>1, <2>2 DEF EnrichGroundTruth
<1>7. enriched \in SUBSET [index : Nat, hash : Hashes]
  <2>1. \A i \in marks : SourceHash(batch[r].records[i]) \in Hashes
    BY <1>3, <1>4, <1>5
  <2> QED
    BY <1>4, <1>6, <2>1
<1> HIDE DEF enriched, hashes
<1>8. TypeOK'
  BY <1>1, <1>7 DEF TypeOK
<1>9. Stages'
  BY <1>1, <1>2 DEF TypeOK, Stages, Begun
<1>10. ReportAligned' /\ OnlySanctionedEmission'
  BY <1>1 DEF ReportAligned, OnlySanctionedEmission, Begun
<1>11. ManifestResolved'
  BY <1>1, <1>6 DEF TypeOK, ManifestResolved, Begun
<1> QED
  BY <1>8, <1>9, <1>10, <1>11

LEMMA EnvironmentStep ==
  ASSUME ServiceInv, Environment
  PROVE  ServiceInv'
<1> USE DEF ServiceInv
<1>1. /\ UNCHANGED <<body, conf, batch, at, report, status, manifest>>
      /\ settings' \in Settings /\ today' \in Days
      /\ \/ pc' = pc
         \/ pc' = [r \in Requests |->
                     IF pc[r] \in InService THEN "killed" ELSE pc[r]]
  BY DEF Environment, Reconfigure, Midnight, Kill, TypeOK
<1>2. TypeOK'
  BY <1>1 DEF TypeOK
<1>3. Stages'
  BY <1>1 DEF Stages, Begun, InService
<1>4. ReportAligned' /\ ManifestResolved' /\ OnlySanctionedEmission'
  BY <1>1 DEF ReportAligned, ManifestResolved, OnlySanctionedEmission, Begun
<1> QED
  BY <1>2, <1>3, <1>4

LEMMA StutterStep ==
  ASSUME ServiceInv, UNCHANGED serviceVars
  PROVE  ServiceInv'
BY DEF ServiceInv, serviceVars, TypeOK, Stages, ReportAligned, ManifestResolved,
       OnlySanctionedEmission, Begun

LEMMA ServiceInit == Init => ServiceInv
<1> SUFFICES ASSUME Init PROVE ServiceInv
  OBVIOUS
<1>1. NoSettings \in Settings
  BY ServiceAssumption DEF NoSettings
<1>2. EmptyReport \in Report /\ EmptyBatch \in GeneratedBatch
  BY DEF EmptyReport, Report, EmptyBatch, GeneratedBatch
<1>3. TypeOK
  BY <1>1, <1>2 DEF Init, TypeOK
<1>4. Stages
  BY DEF Init, Stages, Begun, EmptyBatch
<1>5. ReportAligned /\ ManifestResolved /\ OnlySanctionedEmission
  BY DEF Init, ReportAligned, ManifestResolved, OnlySanctionedEmission, Begun
<1> QED
  BY <1>3, <1>4, <1>5 DEF ServiceInv

LEMMA ServiceStep == ServiceInv /\ [Next]_serviceVars => ServiceInv'
<1> SUFFICES ASSUME ServiceInv, [Next]_serviceVars PROVE ServiceInv'
  OBVIOUS
<1>1. CASE Environment
  BY <1>1, EnvironmentStep
<1>2. ASSUME NEW r \in Requests, Resolve(r) PROVE ServiceInv'
  <2>1. CASE RefuseGated(r)
    BY <2>1, AnswerStep DEF RefuseGated
  <2>2. CASE FailPublisher(r)
    BY <2>2, AnswerStep DEF FailPublisher
  <2> QED
    BY <1>2, <2>1, <2>2, AdmitStep DEF Resolve
<1>3. ASSUME NEW r \in Requests, Decide(r) PROVE ServiceInv'
  <2>1. CASE FailGeneration(r)
    BY <2>1, AnswerStep DEF FailGeneration
  <2>2. CASE Unprocessable(r)
    BY <2>2, AnswerStep DEF Unprocessable
  <2>3. CASE Preview(r)
    <3>1. ~Begun(r)
      BY <2>3 DEF Preview, ServiceInv, Stages, Begun
    <3> QED
      BY <2>3, <3>1, AnswerStep DEF Preview
  <2>4. CASE NoPublisher(r)
    BY <2>4, AnswerStep DEF NoPublisher
  <2> QED
    BY <1>3, <2>1, <2>2, <2>3, <2>4, BuildStep DEF Decide
<1>4. ASSUME NEW r \in Requests, Publish(r) \/ Finish(r) PROVE ServiceInv'
  BY <1>4, PublishStep, FinishStep
<1>5. ASSUME NEW r \in Requests, PublishEnds(r) PROVE ServiceInv'
  <2>1. CASE PublishReturns(r)
    BY <2>1, TallyStep DEF PublishReturns
  <2>2. CASE PublishRaisesPoison(r)
    BY <2>2, TallyStep DEF PublishRaisesPoison
  <2>3. CASE PublishRaisesPushError(r)
    BY <2>3, AnswerStep DEF PublishRaisesPushError
  <2>4. CASE PublishRaisesOther(r)
    BY <2>4, AnswerStep DEF PublishRaisesOther
  <2> QED
    BY <1>5, <2>1, <2>2, <2>3, <2>4 DEF PublishEnds
<1>6. CASE UNCHANGED serviceVars
  BY <1>6, StutterStep
<1> QED
  BY <1>1, <1>2, <1>3, <1>4, <1>5, <1>6 DEF Next, Handle

-----------------------------------------------------------------------------
(* The inductive invariant of the service.                                 *)
THEOREM ServiceInvariant == Spec => []ServiceInv
<1> QED
  BY ServiceInit, ServiceStep, PTL DEF Spec

(* Every variable keeps its type: at[r] stays a position, a status is one  *)
(* the handler can give, a listed hash is a hash.                          *)
THEOREM TypeCorrect == Spec => []TypeOK
<1>1. ServiceInv => TypeOK
  BY DEF ServiceInv
<1> QED
  BY <1>1, ServiceInvariant, PTL

(* The report lists the hash of record i at position i, rejected or not.   *)
THEOREM ReportStaysAligned == Spec => []ReportAligned
<1>1. ServiceInv => ReportAligned
  BY DEF ServiceInv
<1> QED
  BY <1>1, ServiceInvariant, PTL

(* The manifest of an emission answered 200 resolves every position its    *)
(* ground truth names, to the hash of the record generated there.          *)
THEOREM ManifestIsResolved == Spec => []ManifestResolved
<1>1. ServiceInv => ManifestResolved
  BY DEF ServiceInv
<1> QED
  BY <1>1, ServiceInvariant, PTL

(* No request reaches a publisher but through the gate, the cap, the mode  *)
(* and the binding of the settings it was admitted under.                  *)
THEOREM EmissionIsSanctioned == Spec => []OnlySanctionedEmission
<1>1. ServiceInv => OnlySanctionedEmission
  BY DEF ServiceInv
<1> QED
  BY <1>1, ServiceInvariant, PTL

(* Within the batch of any request, equal hashes are true duplicates.      *)
THEOREM NoAccidentalCollision == Spec => []CollisionsAreTrueDuplicates
<1>1. TypeOK => CollisionsAreTrueDuplicates
  <2> SUFFICES ASSUME TypeOK, NEW r \in Requests,
                      NEW i \in 1..Len(batch[r].records),
                      NEW j \in 1..Len(batch[r].records)
               PROVE  /\ Records(r)[i].hash = Records(r)[j].hash =>
                           Records(r)[i] = Records(r)[j]
                      /\ Records(r)[i].mid = Records(r)[j].mid =>
                           Records(r)[i].hash = Records(r)[j].hash
    BY DEF CollisionsAreTrueDuplicates
  <2>1. batch[r].records \in Seq(SimRecord)
    BY RequestTypes
  <2>2. body[r].batch_id \in BatchIds
    BY RequestTypes
  <2> QED
    BY <2>1, <2>2, StampedCollisionsAreDuplicates DEF Records
<1> QED
  BY <1>1, TypeCorrect, PTL

-----------------------------------------------------------------------------
(* Requests as runs of IngestionContract: what a step of the service does  *)
(* to the state of the runs and to what they offer, whichever the binding. *)
RunStates == [r \in Requests |-> RunState(r)]
Offers == [r \in Requests |-> Offered(r)]

RunBegins(r, ks) ==
  /\ RunState(r) = "idle"
  /\ RunStates' = [RunStates EXCEPT ![r] = "running"]
  /\ Offers' = [Offers EXCEPT ![r] = ks]

RunSucceeds(r) ==
  /\ Begun(r) /\ pc[r] = "emitting" /\ at[r] = Len(batch[r].records) + 1
  /\ RunState(r) = "running"
  /\ RunStates' = [RunStates EXCEPT ![r] = "succeeded"]
  /\ UNCHANGED Offers

RunsFail(rs) ==
  /\ \A r \in rs : RunState(r) = "running"
  /\ RunStates' = [r \in Requests |-> IF r \in rs THEN "failed" ELSE RunState(r)]
  /\ UNCHANGED Offers

RunsStep ==
  \/ UNCHANGED <<RunStates, Offers>>
  \/ \E r \in Requests : \E ks \in SUBSET Hashes : RunBegins(r, ks)
  \/ \E r \in Requests : RunSucceeds(r)
  \/ \E rs \in SUBSET Requests : RunsFail(rs)

LEMMA SameOffers ==
  ASSUME UNCHANGED <<batch, body>>
  PROVE  UNCHANGED Offers
<1>1. \A r \in Requests : Offered(r)' = Offered(r)
  BY DEF Offered, Records
<1> QED
  BY <1>1 DEF Offers

LEMMA RunsStay ==
  ASSUME UNCHANGED <<batch, body>>,
         \A r \in Requests : RunState(r)' = RunState(r)
  PROVE  RunsStep
<1>1. UNCHANGED RunStates
  BY DEF RunStates
<1> QED
  BY <1>1, SameOffers DEF RunsStep

(* Building the records is where a run begins.                             *)
LEMMA BuildBegins ==
  ASSUME ServiceInv, ServiceInv', NEW r \in Requests, Build(r)
  PROVE  RunsStep
<1> USE DEF ServiceInv
<1>1. /\ batch' = [batch EXCEPT ![r] = BatchOf(body[r], today)]
      /\ at' = [at EXCEPT ![r] = 1]
      /\ pc' = [pc EXCEPT ![r] = "emitting"]
      /\ pc[r] = "admitted"
      /\ UNCHANGED <<body, status>>
  BY DEF Build
<1>2. \A s \in Requests \ {r} :
        Offered(s)' = Offered(s) /\ RunState(s)' = RunState(s)
  BY <1>1 DEF TypeOK, Offered, Records, RunState, Begun
<1>3. RunState(r) = "idle"
  BY <1>1 DEF Stages, RunState, Begun
<1>4. RunState(r)' = "running"
  BY <1>1 DEF TypeOK, RunState, Begun
<1>5. Offered(r)' \in SUBSET Hashes
  <2>1. batch'[r].records \in Seq(SimRecord) /\ body[r].batch_id \in BatchIds
    <3>1. batch'[r] \in GeneratedBatch
      BY DEF TypeOK
    <3> QED
      BY <3>1, RequestTypes DEF GeneratedBatch
  <2>2. \A i \in 1..Len(batch'[r].records) :
          Records(r)'[i] \in CanonicalRecord
    BY <1>1, <2>1, BuiltRecords DEF Records
  <2>3. \A i \in 1..Len(batch'[r].records) : Records(r)'[i].hash \in Hashes
    BY <2>2 DEF CanonicalRecord
  <2> QED
    BY <2>3 DEF Offered
<1>6. RunStates' = [RunStates EXCEPT ![r] = "running"]
  BY <1>2, <1>4 DEF RunStates
<1>7. Offers' = [Offers EXCEPT ![r] = Offered(r)']
  BY <1>2 DEF Offers
<1> QED
  BY <1>3, <1>5, <1>6, <1>7 DEF RunsStep, RunBegins

(* An answer other than 200 fails a run, a preview is none.                *)
LEMMA AnswerFails ==
  ASSUME ServiceInv, NEW r \in Requests,
         NEW code \in {200, 404, 422, 500, 502, 503},
         Answer(r, code), UNCHANGED <<body, batch, at>>,
         Begun(r) => pc[r] = "publishing" /\ code # 200
  PROVE  RunsStep
<1> USE DEF ServiceInv
<1>1. /\ pc' = [pc EXCEPT ![r] = "answered"]
      /\ status' = [status EXCEPT ![r] = code]
  BY DEF Answer
<1>2. \A s \in Requests \ {r} : RunState(s)' = RunState(s)
  BY <1>1 DEF TypeOK, RunState, Begun
<1>3. CASE Begun(r)
  <2>1. RunState(r) = "running" /\ RunState(r)' = "failed"
    BY <1>1, <1>3 DEF TypeOK, RunState, Begun
  <2> DEFINE rs == {r}
  <2>2. /\ rs \in SUBSET Requests
        /\ \A s \in rs : RunState(s) = "running"
        /\ \A s \in Requests :
             RunState(s)' = IF s \in rs THEN "failed" ELSE RunState(s)
    BY <1>2, <2>1
  <2> HIDE DEF rs
  <2>3. RunStates' = [s \in Requests |-> IF s \in rs THEN "failed" ELSE RunState(s)]
    BY <2>2 DEF RunStates
  <2>4. RunsFail(rs)
    BY <2>2, <2>3, SameOffers DEF RunsFail
  <2> QED
    BY <2>2, <2>4 DEF RunsStep
<1>4. CASE ~Begun(r)
  <2>1. RunState(r)' = RunState(r)
    BY <1>4 DEF RunState, Begun
  <2> QED
    BY <1>2, <2>1, RunsStay
<1> QED
  BY <1>3, <1>4

(* A run succeeds when its loop is through.                                *)
LEMMA FinishSucceeds ==
  ASSUME ServiceInv, NEW r \in Requests, Finish(r)
  PROVE  RunsStep
<1> USE DEF ServiceInv
<1>1. /\ pc' = [pc EXCEPT ![r] = "answered"]
      /\ status' = [status EXCEPT ![r] = 200]
      /\ pc[r] = "emitting" /\ at[r] > Len(batch[r].records)
      /\ UNCHANGED <<body, batch, at>>
  BY DEF Finish, Answer
<1>2. Begun(r) /\ at[r] = Len(batch[r].records) + 1
  <2>1. Begun(r) /\ at[r] <= Len(batch[r].records) + 1
    BY <1>1 DEF Stages
  <2> QED
    BY <1>1, <2>1, RequestTypes
<1>3. RunState(r) = "running" /\ RunState(r)' = "succeeded"
  BY <1>1, <1>2 DEF TypeOK, RunState, Begun
<1>4. \A s \in Requests \ {r} : RunState(s)' = RunState(s)
  BY <1>1 DEF TypeOK, RunState, Begun
<1>5. RunStates' = [RunStates EXCEPT ![r] = "succeeded"]
  BY <1>3, <1>4 DEF RunStates
<1>6. UNCHANGED Offers
  BY <1>1, SameOffers
<1>7. RunSucceeds(r)
  BY <1>1, <1>2, <1>3, <1>5, <1>6 DEF RunSucceeds
<1> QED
  BY <1>7 DEF RunsStep

(* The container dies: every run it was serving fails at once.             *)
LEMMA EnvironmentFails ==
  ASSUME ServiceInv, Environment
  PROVE  RunsStep
<1> USE DEF ServiceInv
<1>1. UNCHANGED <<body, batch, at, status>>
  BY DEF Environment, Reconfigure, Midnight, Kill
<1>2. CASE pc' = pc
  <2>1. \A r \in Requests : RunState(r)' = RunState(r)
    BY <1>1, <1>2 DEF RunState, Begun
  <2> QED
    BY <1>1, <2>1, RunsStay
<1>3. CASE pc' = [r \in Requests |->
                    IF pc[r] \in InService THEN "killed" ELSE pc[r]]
  <2> DEFINE rs == {r \in Requests : RunState(r) = "running"}
  <2>1. ASSUME NEW r \in Requests
        PROVE  RunState(r)' = IF RunState(r) = "running" THEN "failed"
                              ELSE RunState(r)
    <3>1. pc'[r] = IF pc[r] \in InService THEN "killed" ELSE pc[r]
      BY <1>3
    <3>2. pc[r] \in InService => status[r] = 0
      BY DEF Stages, InService
    <3>3. pc[r] = "admitted" => ~Begun(r)
      BY DEF Stages, Begun
    <3> QED
      BY <1>1, <3>1, <3>2, <3>3 DEF RunState, Begun, InService
  <2>2. \A r \in Requests :
          RunState(r)' = IF r \in rs THEN "failed" ELSE RunState(r)
    BY <2>1
  <2>3. rs \in SUBSET Requests /\ \A r \in rs : RunState(r) = "running"
    OBVIOUS
  <2> HIDE DEF rs
  <2>4. RunStates' = [r \in Requests |-> IF r \in rs THEN "failed" ELSE RunState(r)]
    BY <2>2 DEF RunStates
  <2>5. RunsFail(rs)
    BY <1>1, <2>3, <2>4, SameOffers DEF RunsFail
  <2> QED
    BY <2>3, <2>5 DEF RunsStep
<1> QED
  BY <1>2, <1>3 DEF Environment, Reconfigure, Midnight, Kill

(* Nothing begins, ends or fails while the loop goes on.                   *)
LEMMA LoopStays ==
  ASSUME ServiceInv, NEW r \in Requests, UNCHANGED <<body, batch, status>>,
         pc[r] \in {"emitting", "publishing"},
         NEW place \in {"emitting", "publishing"},
         pc' = [pc EXCEPT ![r] = place],
         at' = at \/ at' = [at EXCEPT ![r] = @ + 1]
  PROVE  RunsStep
<1>1. TypeOK /\ at[r] \in Nat
  BY RequestTypes DEF ServiceInv
<1>2. pc'[r] = place /\ \A s \in Requests \ {r} : pc'[s] = pc[s]
  BY <1>1 DEF TypeOK
<1>3. at'[r] \in {at[r], at[r] + 1} /\ \A s \in Requests \ {r} : at'[s] = at[s]
  BY <1>1 DEF TypeOK
<1>4. Begun(r) /\ Begun(r)'
  <2>1. Begun(r)
    BY DEF ServiceInv, Stages
  <2> QED
    BY <1>1, <1>3, <2>1 DEF Begun
<1>5. RunState(r)' = RunState(r)
  BY <1>2, <1>4 DEF RunState
<1>6. \A s \in Requests \ {r} : RunState(s)' = RunState(s)
  BY <1>2, <1>3 DEF RunState, Begun
<1> QED
  BY <1>5, <1>6, RunsStay

LEMMA RunsOfService ==
  ServiceInv /\ ServiceInv' /\ [Next]_serviceVars => RunsStep
<1> SUFFICES ASSUME ServiceInv, ServiceInv', [Next]_serviceVars
             PROVE  RunsStep
  OBVIOUS
<1>1. CASE Environment
  BY <1>1, EnvironmentFails
<1>2. ASSUME NEW r \in Requests, Resolve(r) PROVE RunsStep
  <2>1. pc[r] = "new" /\ ~Begun(r)
    BY <1>2 DEF Resolve, RefuseGated, FailPublisher, Admit, ServiceInv, Stages, Begun
  <2>2. CASE RefuseGated(r)
    BY <2>1, <2>2, AnswerFails DEF RefuseGated
  <2>3. CASE FailPublisher(r)
    BY <2>1, <2>3, AnswerFails DEF FailPublisher
  <2>4. CASE Admit(r)
    <3>1. /\ UNCHANGED <<body, batch, status>> /\ at' = at
          /\ \A s \in Requests \ {r} : pc'[s] = pc[s]
      BY <2>4 DEF Admit, ServiceInv, TypeOK
    <3>2. \A s \in Requests : RunState(s)' = RunState(s)
      BY <2>1, <3>1 DEF RunState, Begun
    <3> QED
      BY <3>1, <3>2, RunsStay
  <2> QED
    BY <1>2, <2>2, <2>3, <2>4 DEF Resolve
<1>3. ASSUME NEW r \in Requests, Decide(r) PROVE RunsStep
  <2>1. pc[r] = "admitted" /\ ~Begun(r)
    BY <1>3 DEF Decide, FailGeneration, Unprocessable, Preview, NoPublisher,
                Build, ServiceInv, Stages, Begun
  <2>2. CASE FailGeneration(r)
    BY <2>1, <2>2, AnswerFails DEF FailGeneration
  <2>3. CASE Unprocessable(r)
    BY <2>1, <2>3, AnswerFails DEF Unprocessable
  <2>4. CASE Preview(r)
    BY <2>1, <2>4, AnswerFails DEF Preview
  <2>5. CASE NoPublisher(r)
    BY <2>1, <2>5, AnswerFails DEF NoPublisher
  <2>6. CASE Build(r)
    BY <2>6, BuildBegins
  <2> QED
    BY <1>3, <2>2, <2>3, <2>4, <2>5, <2>6 DEF Decide
<1>4. ASSUME NEW r \in Requests, Publish(r) PROVE RunsStep
  BY <1>4, LoopStays DEF Publish
<1>5. ASSUME NEW r \in Requests, Finish(r) PROVE RunsStep
  BY <1>5, FinishSucceeds
<1>6. ASSUME NEW r \in Requests, PublishEnds(r) PROVE RunsStep
  <2>1. CASE PublishReturns(r) \/ PublishRaisesPoison(r)
    BY <2>1, LoopStays DEF PublishReturns, PublishRaisesPoison, Tally
  <2>2. CASE PublishRaisesPushError(r)
    BY <2>2, AnswerFails DEF PublishRaisesPushError
  <2>3. CASE PublishRaisesOther(r)
    BY <2>3, AnswerFails DEF PublishRaisesOther
  <2> QED
    BY <1>6, <2>1, <2>2, <2>3 DEF PublishEnds
<1>7. CASE UNCHANGED serviceVars
  <2>1. UNCHANGED <<pc, body, batch, at, status>>
    BY <1>7 DEF serviceVars
  <2>2. \A r \in Requests : RunState(r)' = RunState(r)
    BY <2>1 DEF RunState, Begun
  <2> QED
    BY <2>1, <2>2, RunsStay
<1> QED
  BY <1>1, <1>2, <1>3, <1>4, <1>5, <1>6, <1>7 DEF Next, Handle
=============================================================================
