----------------------------- MODULE SimService -----------------------------
(***************************************************************************)
(* The simulation connector service (sim_service/api.py, emitter.py,       *)
(* settings.py): POST /sim/v1/dispatch from the G1 gate to the response.   *)
(*                                                                         *)
(* FastAPI runs the synchronous handler of each request on a thread of its *)
(* pool, so any number of dispatches interleave.  They share nothing but   *)
(* what they read from outside (the settings, the Paris date) and what the *)
(* publisher does on the other side of the PublisherPort; here that        *)
(* publisher may return or raise anything, and the modules that extend     *)
(* this one put a real binding behind the port.                            *)
(***************************************************************************)
EXTENDS SimRecords

CONSTANTS
  Requests,    \* the HTTP requests of a behaviour; a retry is another one
  Bodies,      \* request bodies the console may send
  PresetIds,   \* preset ids a body may name, registered or not
  Registry,    \* registered presets, all of phase 1
  Params,      \* (params, seed, target_label) of a body
  Raising,     \* (preset, params) on which the generator raises
  RecordTypes, \* record types a manual body may name, allowed or not
  Contents,    \* payload objects of a manual body
  Validated,   \* (type, content) -> payload after model_validate, model_dump
  Malformed,   \* what Validated returns when the model rejects the content
  Days,        \* Europe/Paris dates
  Generate,    \* (preset, params, day) -> GeneratedBatch: a pure function
  Settings     \* settings the environment may hold

VARIABLES
  settings,    \* what get_settings() would read now
  today,       \* datetime.now(tz=_PARIS).date()
  pc,          \* where the thread of a request is
  body,        \* the DispatchRequest
  conf,        \* the SimSettings the handler of a request was given
  batch,       \* GeneratedBatch of a request that emits
  at,          \* position of the emit loop; 0 before records are built
  report,      \* EmitReport of the emit loop
  status,      \* HTTP status of the response, 0 before there is one
  manifest     \* enriched ground truth of the response

serviceVars == <<settings, today, pc, body, conf, batch, at, report, status,
                 manifest>>

-----------------------------------------------------------------------------
DispatchRequest ==
  [mode     : {"auto", "manual"},
   preset   : PresetIds,
   params   : Params,
   items    : Seq([type : RecordTypes, content : Contents]),
   dry_run  : BOOLEAN,
   batch_id : BatchIds]

(* The SimSettings fields that decide something; topic stands for          *)
(* gcp_project and canonical_topic both set, core_url for core_ingest_url  *)
(* set, and sdk for the publisher being constructible: the optional library *)
(* of the binding installed and, for Pub/Sub, credentials found.           *)
SimSettings ==
  [enabled : BOOLEAN, environment : {"dev", "production"}, topic : BOOLEAN,
   core_url : BOOLEAN, sdk : BOOLEAN, max_records_per_run : Nat]

ASSUME ServiceAssumption ==
  /\ Bodies \subseteq DispatchRequest
  /\ Settings \subseteq SimSettings /\ Settings # {}
  /\ Registry \subseteq PresetIds
  /\ SimTypes \subseteq RecordTypes
  /\ Malformed \notin Payloads
  /\ Validated \in [SimTypes \X Contents -> Payloads \cup {Malformed}]
  /\ \A t \in SimTypes, c \in Contents :
       Validated[t, c] \in Payloads => TypeOf[Validated[t, c]] = t

(* An infinity for an integer parameter (int raises OverflowError) and a   *)
(* NaN ratio (no clamp stops it) raise; all else is coerced and generates. *)
GeneratorInputs ==
  {k \in Registry \X Params \X Days : <<k[1], k[2]>> \notin Raising}

(* Every generator returns at least one record, and its ground truth names *)
(* positions of its own batch.                                             *)
ASSUME GeneratorAssumption ==
  /\ Days \subseteq Nat
  /\ Generate \in [GeneratorInputs -> GeneratedBatch]
  /\ \A k \in GeneratorInputs :
       /\ Generate[k].records # << >>
       /\ Generate[k].marks \subseteq 1..Len(Generate[k].records)

-----------------------------------------------------------------------------
(* sim_gate                                                                *)
GateOpen(s) == s.enabled /\ s.environment # "production"

(* get_publisher                                                           *)
Binding(s) == IF s.topic THEN "pubsub" ELSE IF s.core_url THEN "http" ELSE "none"

(* Both publishers import an optional library when they are constructed,   *)
(* and the Pub/Sub client looks for credentials.                           *)
PublisherConstructible(s) == Binding(s) # "none" => s.sdk

(* The 422 conditions of _generate_auto and _validate_manual.              *)
ValidItem(item) ==
  /\ item.type \in SimTypes
  /\ Validated[item.type, item.content] # Malformed

GenerationRaises(b) ==
  b.mode = "auto" /\ b.preset \in Registry /\ <<b.preset, b.params>> \in Raising

Processable(b) ==
  \/ b.mode = "auto" /\ b.preset \in Registry /\ ~GenerationRaises(b)
  \/ /\ b.mode = "manual"
     /\ b.items # << >>
     /\ \A i \in DOMAIN b.items : ValidItem(b.items[i])

(* The batch those functions return for a body they accept.                *)
ManualBatch(items) ==
  [records |-> [i \in 1..Len(items) |->
                  [type    |-> items[i].type,
                   payload |-> Validated[items[i].type, items[i].content]]],
   marks   |-> {}]

BatchOf(b, day) ==
  IF b.mode = "auto" THEN Generate[b.preset, b.params, day]
                     ELSE ManualBatch(b.items)

(* Fault: the handler reads the settings anew for its cap.                 *)
FaultFreshCap(r) ==
  /\ Processable(body[r])
  /\ Len(BatchOf(body[r], today).records) <= settings.max_records_per_run

Acceptable(r) ==
  /\ Processable(body[r])
  /\ Len(BatchOf(body[r], today).records) <= conf[r].max_records_per_run

(* The list build_canonical_records hands to emit.                         *)
Records(r) == BuildCanonicalRecords(batch[r].records, body[r].batch_id)

(* Before its dependencies are resolved a request has no settings.         *)
NoSettings == CHOOSE s \in Settings : TRUE

EmptyReport == [emitted |-> 0, rejected |-> 0, source_hashes |-> << >>]

-----------------------------------------------------------------------------
Init ==
  /\ settings \in Settings
  /\ today \in Days
  /\ pc = [r \in Requests |-> "new"]
  /\ body \in [Requests -> Bodies]
  /\ conf = [r \in Requests |-> NoSettings]
  /\ batch = [r \in Requests |-> EmptyBatch]
  /\ at = [r \in Requests |-> 0]
  /\ report = [r \in Requests |-> EmptyReport]
  /\ status = [r \in Requests |-> 0]
  /\ manifest = [r \in Requests |-> {}]

Answer(r, code) ==
  /\ pc' = [pc EXCEPT ![r] = "answered"]
  /\ status' = [status EXCEPT ![r] = code]

(* The dependencies of the route, resolved before the handler runs: the    *)
(* settings are read once and shared by gate, publisher and handler.       *)
RefuseGated(r) ==
  /\ pc[r] = "new"
  /\ ~GateOpen(settings)
  /\ Answer(r, 404)
  /\ UNCHANGED <<settings, today, body, conf, batch, at, report, manifest>>

FailPublisher(r) ==
  /\ pc[r] = "new"
  /\ GateOpen(settings)
  /\ ~PublisherConstructible(settings)
  /\ Answer(r, 500)
  /\ UNCHANGED <<settings, today, body, conf, batch, at, report, manifest>>

Admit(r) ==
  /\ pc[r] = "new"
  /\ GateOpen(settings)
  /\ PublisherConstructible(settings)
  /\ conf' = [conf EXCEPT ![r] = settings]
  /\ pc' = [pc EXCEPT ![r] = "admitted"]
  /\ UNCHANGED <<settings, today, body, batch, at, report, status, manifest>>

(* The handler up to the emit loop: generate or validate against the date  *)
(* of this instant, cap, dry run, publisher, build.                        *)
FailGeneration(r) ==
  /\ pc[r] = "admitted"
  /\ GenerationRaises(body[r])
  /\ Answer(r, 500)
  /\ UNCHANGED <<settings, today, body, conf, batch, at, report, manifest>>

Unprocessable(r) ==
  /\ pc[r] = "admitted"
  /\ ~GenerationRaises(body[r])
  /\ ~Acceptable(r)
  /\ Answer(r, 422)
  /\ UNCHANGED <<settings, today, body, conf, batch, at, report, manifest>>

Preview(r) ==
  /\ pc[r] = "admitted"
  /\ Acceptable(r)
  /\ body[r].dry_run
  /\ Answer(r, 200)
  /\ UNCHANGED <<settings, today, body, conf, batch, at, report, manifest>>

NoPublisher(r) ==
  /\ pc[r] = "admitted"
  /\ Acceptable(r)
  /\ ~body[r].dry_run
  /\ Binding(conf[r]) = "none"
  /\ Answer(r, 503)
  /\ UNCHANGED <<settings, today, body, conf, batch, at, report, manifest>>

Build(r) ==
  /\ pc[r] = "admitted"
  /\ Acceptable(r)
  /\ ~body[r].dry_run
  /\ Binding(conf[r]) # "none"
  /\ batch' = [batch EXCEPT ![r] = BatchOf(body[r], today)]
  /\ at' = [at EXCEPT ![r] = 1]
  /\ pc' = [pc EXCEPT ![r] = "emitting"]
  /\ UNCHANGED <<settings, today, body, conf, report, status, manifest>>

-----------------------------------------------------------------------------
(* emit: one publisher.publish(record) after the other.                    *)
Publish(r) ==
  /\ pc[r] = "emitting"
  /\ at[r] <= Len(batch[r].records)
  /\ pc' = [pc EXCEPT ![r] = "publishing"]
  /\ UNCHANGED <<settings, today, body, conf, batch, at, report, status,
                 manifest>>

(* The rest of the loop body once publish has returned or raised           *)
(* PoisonRecordError: count it, list its hash, go to the next record.      *)
Tally(r, sent, refused) ==
  /\ report' = [report EXCEPT
       ![r] = [emitted       |-> @.emitted + sent,
               rejected      |-> @.rejected + refused,
               source_hashes |-> Append(@.source_hashes,
                                        Records(r)[at[r]].hash)]]
  /\ at' = [at EXCEPT ![r] = @ + 1]
  /\ pc' = [pc EXCEPT ![r] = "emitting"]
  /\ UNCHANGED <<settings, today, body, conf, batch, status, manifest>>

(* Faults of the except branches: the hash of a rejected record is not     *)
(* listed, a rejected record is published again, a record that failed is   *)
(* counted as rejected and skipped.                                        *)
FaultRejectedUnlisted(r) ==
  /\ pc[r] = "publishing"
  /\ report' = [report EXCEPT ![r].rejected = @ + 1]
  /\ at' = [at EXCEPT ![r] = @ + 1]
  /\ pc' = [pc EXCEPT ![r] = "emitting"]
  /\ UNCHANGED <<settings, today, body, conf, batch, status, manifest>>

FaultRejectedRetried(r) ==
  /\ pc[r] = "publishing"
  /\ pc' = [pc EXCEPT ![r] = "emitting"]
  /\ UNCHANGED <<settings, today, body, conf, batch, at, report, status,
                 manifest>>

FaultFailedSkipped(r) ==
  /\ pc[r] = "publishing"
  /\ Tally(r, 0, 1)

PublishReturns(r) ==
  /\ pc[r] = "publishing"
  /\ Tally(r, 1, 0)

PublishRaisesPoison(r) ==
  /\ pc[r] = "publishing"
  /\ Tally(r, 0, 1)

(* Any other HttpPushError ends the loop; dispatch answers 502 and the     *)
(* report is lost to the caller.                                           *)
PublishRaisesPushError(r) ==
  /\ pc[r] = "publishing"
  /\ Answer(r, 502)
  /\ UNCHANGED <<settings, today, body, conf, batch, at, report, manifest>>

(* Nothing catches an exception of another class.                          *)
PublishRaisesOther(r) ==
  /\ pc[r] = "publishing"
  /\ Answer(r, 500)
  /\ UNCHANGED <<settings, today, body, conf, batch, at, report, manifest>>

Finish(r) ==
  /\ pc[r] = "emitting"
  /\ at[r] > Len(batch[r].records)
  /\ manifest' = [manifest EXCEPT
       ![r] = EnrichGroundTruth(batch[r].marks, report[r].source_hashes)]
  /\ Answer(r, 200)
  /\ UNCHANGED <<settings, today, body, conf, batch, at, report>>

-----------------------------------------------------------------------------
(* The environment: an operator changes the settings, the date rolls over  *)
(* in Paris, the container is killed with every request it is serving.     *)
Reconfigure ==
  /\ settings' \in Settings \ {settings}
  /\ UNCHANGED <<today, pc, body, conf, batch, at, report, status, manifest>>

Midnight ==
  /\ today + 1 \in Days
  /\ today' = today + 1
  /\ UNCHANGED <<settings, pc, body, conf, batch, at, report, status, manifest>>

InService == {"admitted", "emitting", "publishing"}

Kill ==
  /\ \E r \in Requests : pc[r] \in InService
  /\ pc' = [r \in Requests |-> IF pc[r] \in InService THEN "killed" ELSE pc[r]]
  /\ UNCHANGED <<settings, today, body, conf, batch, at, report, status,
                 manifest>>

Environment == Reconfigure \/ Midnight \/ Kill

Resolve(r) == RefuseGated(r) \/ FailPublisher(r) \/ Admit(r)

Decide(r) ==
  \/ FailGeneration(r) \/ Unprocessable(r) \/ Preview(r)
  \/ NoPublisher(r) \/ Build(r)

(* Steps of the handler that do not wait for the publisher.                *)
Handle(r) == Decide(r) \/ Publish(r) \/ Finish(r)

PublishEnds(r) ==
  \/ PublishReturns(r) \/ PublishRaisesPoison(r)
  \/ PublishRaisesPushError(r) \/ PublishRaisesOther(r)

Next ==
  \/ Environment
  \/ \E r \in Requests : Resolve(r) \/ Handle(r) \/ PublishEnds(r)

(* A thread that can run does run, and a publish call ends: the HTTP       *)
(* client has a timeout of 10 s, the Pub/Sub future one of 30 s.           *)
Fairness == \A r \in Requests : /\ WF_serviceVars(Handle(r))
                                /\ WF_serviceVars(PublishEnds(r))

Spec == Init /\ [][Next]_serviceVars
FairSpec == Spec /\ Fairness

-----------------------------------------------------------------------------
Report == [emitted : Nat, rejected : Nat, source_hashes : Seq(Hashes)]

TypeOK ==
  /\ settings \in Settings
  /\ today \in Days
  /\ pc \in [Requests -> InService \cup {"new", "answered", "killed"}]
  /\ body \in [Requests -> Bodies]
  /\ conf \in [Requests -> Settings]
  /\ batch \in [Requests -> GeneratedBatch]
  /\ at \in [Requests -> Nat]
  /\ report \in [Requests -> Report]
  /\ status \in [Requests -> {0, 200, 404, 422, 500, 502, 503}]
  /\ manifest \in [Requests -> SUBSET [index : Nat, hash : Hashes]]

(* A request that has built its records, whatever became of it since.      *)
Begun(r) == at[r] > 0

(* The report stays aligned with the batch: after n records it counts n    *)
(* outcomes and lists, at position i, the hash of record i - also of a     *)
(* record Core rejected.  Positions are what the ground truth speaks of.   *)
ReportAligned ==
  \A r \in Requests : Begun(r) =>
    /\ report[r].emitted + report[r].rejected = at[r] - 1
    /\ Len(report[r].source_hashes) = at[r] - 1
    /\ \A i \in 1..at[r] - 1 :
         report[r].source_hashes[i] = SourceHash(batch[r].records[i])

(* The manifest of a finished emission names, for every position of the    *)
(* generator's ground truth, the source_hash of the record generated at    *)
(* that position, whatever was rejected on the way: none is missing, none  *)
(* is shifted.                                                             *)
ManifestResolved ==
  \A r \in Requests : Begun(r) /\ status[r] = 200 =>
    manifest[r] = {[index |-> i, hash |-> SourceHash(batch[r].records[i])] :
                     i \in batch[r].marks}

(* Nothing reaches a publisher except for a request that asked to emit and *)
(* that the gate, the cap and the publisher binding let through under the  *)
(* settings it was admitted with, however they change while it emits.      *)
OnlySanctionedEmission ==
  \A r \in Requests : Begun(r) =>
    /\ GateOpen(conf[r])
    /\ Binding(conf[r]) # "none" /\ PublisherConstructible(conf[r])
    /\ ~body[r].dry_run
    /\ Len(batch[r].records) <= conf[r].max_records_per_run

(* Within a batch, records with one source_hash are one record type under  *)
(* one source_message_id, and records with different hashes have different *)
(* message ids: a hash collision at Core is a true duplicate and not an    *)
(* accident (docstring of build_canonical_records).                        *)
CollisionsAreTrueDuplicates ==
  \A r \in Requests : \A i, j \in 1..Len(batch[r].records) :
    /\ Records(r)[i].hash = Records(r)[j].hash => Records(r)[i] = Records(r)[j]
    /\ Records(r)[i].mid = Records(r)[j].mid =>
         Records(r)[i].hash = Records(r)[j].hash

(* Every dispatch that passes its dependencies is answered, unless the     *)
(* container dies under it: no outcome of the publisher, and no number of  *)
(* poison records, keeps a request forever.                                *)
DispatchIsAnswered ==
  \A r \in Requests : pc[r] = "admitted" ~> pc[r] \in {"answered", "killed"}

-----------------------------------------------------------------------------
(* What the documents say and the code does not do.                        *)

(* ARCHITECTURE.md, build order 1bis: identical (preset, params, seed)     *)
(* give identical payloads and source_hashes.                              *)
SameInputsSameHashes ==
  \A r, s \in Requests :
    /\ Begun(r) /\ Begun(s)
    /\ body[r].mode = "auto" /\ body[s].mode = "auto"
    /\ body[r].preset = body[s].preset /\ body[r].params = body[s].params
    => batch[r].records = batch[s].records
=============================================================================
