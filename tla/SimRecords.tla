----------------------------- MODULE SimRecords -----------------------------
(***************************************************************************)
(* The records of the simulation connector and the stamping that turns a   *)
(* generated batch into canonical records: canonical_payload_bytes and     *)
(* build_canonical_records of sim_service/emitter.py, source_hash and      *)
(* stamp of kernel/provenance.py, and enrich_ground_truth.                 *)
(*                                                                         *)
(* A payload is an opaque value: what the pipeline tells apart is only     *)
(* whether two payloads have the same canonical JSON.  The fields that no  *)
(* decision depends on (event_id, trace_id, tenant_id, timestamps, the     *)
(* constant provenance tags) are left out of a canonical record.           *)
(***************************************************************************)
EXTENDS Integers, Sequences

CONSTANTS
  SimTypes,    \* keys of SIM_MODELS: the Phase-1 record types
  Payloads,    \* payload dicts, up to equality of their canonical JSON
  TypeOf,      \* the record type whose model has the fields of the payload
  Hashes,      \* SHA-256 digests
  Digest,      \* payload -> digest of its canonical JSON bytes
  BatchIds     \* batch ids the console chooses

(***************************************************************************)
(* SimBankAccount, SimCashFlow and SimErpEntry share no set of fields, so  *)
(* a payload belongs to one record type; SHA-256 over key-sorted JSON is   *)
(* taken to be free of collisions.                                         *)
(***************************************************************************)
ASSUME TypeOfAssumption == TypeOf \in [Payloads -> SimTypes]
ASSUME DigestAssumption ==
  /\ Digest \in [Payloads -> Hashes]
  /\ \A p, q \in Payloads : Digest[p] = Digest[q] => p = q

-----------------------------------------------------------------------------
(* A sim-json record: one (record_type, payload) pair of a GeneratedBatch. *)
SimRecord == {rec \in [type : SimTypes, payload : Payloads] :
                rec.type = TypeOf[rec.payload]}

(* What a generator returns: the records, and the positions its ground     *)
(* truth names through record_index / record_indices.                      *)
GeneratedBatch == [records : Seq(SimRecord), marks : SUBSET Nat]

EmptyBatch == [records |-> << >>, marks |-> {}]

(* `batch_id:i`, the source_message_id.                                    *)
MessageId == [batch : BatchIds, index : Nat \ {0}]

CanonicalRecord == [hash : Hashes, type : SimTypes, mid : MessageId]

-----------------------------------------------------------------------------
(* Faults of stamping and enrichment that the properties must tell from    *)
(* the code: the canonical bytes unhashed, every record under its own      *)
(* position, the last hash out of reach of the manifest.                   *)
FaultUnhashed(rec) == rec.payload

FaultOwnPosition(records, i) == i

FaultLastUnresolved(marks, hashes) ==
  {[index |-> i, hash |-> hashes[i]] : i \in marks \cap 1..Len(hashes) - 1}

(* source_hash of a record: SHA-256 of the canonical JSON of its payload.  *)
(* The record type is not hashed.                                          *)
SourceHash(rec) == Digest[rec.payload]

(* first_seen.setdefault(key, ...): the position of the first record of    *)
(* the batch with the key (record_type, canonical bytes) of the i-th.      *)
FirstSeen(records, i) ==
  CHOOSE j \in 1..i :
    /\ records[j] = records[i]
    /\ \A k \in 1..i : records[k] = records[i] => j <= k

Stamp(records, batchId, i) ==
  [hash |-> SourceHash(records[i]),
   type |-> records[i].type,
   mid  |-> [batch |-> batchId, index |-> FirstSeen(records, i)]]

BuildCanonicalRecords(records, batchId) ==
  [i \in 1..Len(records) |-> Stamp(records, batchId, i)]

(* enrich_ground_truth: every position the ground truth names is resolved  *)
(* to the hash the report lists at that position, if it lists one.         *)
EnrichGroundTruth(marks, hashes) ==
  {[index |-> i, hash |-> hashes[i]] : i \in marks \cap 1..Len(hashes)}
=============================================================================
