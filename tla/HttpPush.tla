------------------------------ MODULE HttpPush ------------------------------
(***************************************************************************)
(* The simulation service bound to Core by HttpPushPublisher               *)
(* (kernel/http_push.py): publish is one POST to Core's ingestion          *)
(* endpoint, and the status of the response decides what the emit loop     *)
(* sees.  Core and the network between are external: Core dedupes on       *)
(* source_hash, answers 400 for poison, and under faults answers another   *)
(* status, lets a POST outlive the client's timeout or never receives it.  *)
(***************************************************************************)
EXTENDS CoreTable, FiniteSets

VARIABLES
  wire,     \* the last POST of a request, or Core's answer to it
  faulty    \* whether Core and the network may fail in this behaviour

httpVars == <<serviceVars, wire, rows, faulty>>

ASSUME HttpAssumption == \A s \in Settings : Binding(s) # "pubsub"

-----------------------------------------------------------------------------
HttpInit ==
  /\ Init
  /\ wire = [r \in Requests |-> "idle"]
  /\ rows = {}
  /\ faulty \in BOOLEAN

(* self._client.post(...): the call blocks the thread until Respond or     *)
(* TransportError.                                                         *)
Post(r) ==
  /\ Publish(r)
  /\ wire' = [wire EXCEPT ![r] = "sent"]
  /\ UNCHANGED <<rows, faulty>>

(* Core: POST /events/canonical.                                           *)
CoreAccepts(r) ==
  /\ wire[r] = "sent"
  /\ OnWire(r).hash \notin Poison
  /\ rows' = Upsert(OnWire(r))
  /\ wire' = [wire EXCEPT ![r] = "2xx"]
  /\ UNCHANGED <<serviceVars, faulty>>

CoreRefuses(r) ==
  /\ wire[r] = "sent"
  /\ OnWire(r).hash \in Poison
  /\ wire' = [wire EXCEPT ![r] = "400"]
  /\ UNCHANGED <<serviceVars, rows, faulty>>

(* Any other status, from Core or a proxy before it; a row may have been   *)
(* committed nevertheless.                                                 *)
CoreFails(r) ==
  /\ faulty
  /\ wire[r] = "sent"
  /\ \/ UNCHANGED rows
     \/ OnWire(r).hash \notin Poison /\ rows' = Upsert(OnWire(r))
  /\ wire' = [wire EXCEPT ![r] = "other"]
  /\ UNCHANGED <<serviceVars, faulty>>

(* Faults of the classification: only 400 is an error, and 400 is as fatal *)
(* as any other.                                                           *)
FaultErrorIsSuccess(r) ==
  /\ \/ wire[r] \in {"2xx", "other"} /\ PublishReturns(r)
     \/ wire[r] = "400" /\ PublishRaisesPoison(r)
  /\ wire' = [wire EXCEPT ![r] = "idle"]
  /\ UNCHANGED <<rows, faulty>>

FaultPoisonIsFatal(r) ==
  /\ \/ wire[r] = "2xx" /\ PublishReturns(r)
     \/ wire[r] \in {"400", "other"} /\ PublishRaisesPushError(r)
  /\ wire' = [wire EXCEPT ![r] = "idle"]
  /\ UNCHANGED <<rows, faulty>>

(* publish after the POST: 400 raises PoisonRecordError, anything else     *)
(* that is not 2xx HttpPushError.                                          *)
Respond(r) ==
  /\ \/ wire[r] = "2xx" /\ PublishReturns(r)
     \/ wire[r] = "400" /\ PublishRaisesPoison(r)
     \/ wire[r] = "other" /\ PublishRaisesPushError(r)
  /\ wire' = [wire EXCEPT ![r] = "idle"]
  /\ UNCHANGED <<rows, faulty>>

(* httpx raises: no connection, or no answer within timeout_s.  Nothing    *)
(* wraps the exception.  The POST may still be on its way.                 *)
TransportError(r) ==
  /\ faulty
  /\ PublishRaisesOther(r)
  /\ \/ UNCHANGED wire
     \/ wire[r] = "sent" /\ wire' = [wire EXCEPT ![r] = "idle"]
  /\ UNCHANGED <<rows, faulty>>

CoreAnswers(r) == CoreAccepts(r) \/ CoreRefuses(r) \/ CoreFails(r)

HttpNext ==
  \/ Environment /\ UNCHANGED <<wire, rows, faulty>>
  \/ \E r \in Requests :
       \/ (Resolve(r) \/ Decide(r) \/ Finish(r)) /\ UNCHANGED <<wire, rows, faulty>>
       \/ Post(r) \/ CoreAnswers(r) \/ Respond(r) \/ TransportError(r)

(* Threads run, a POST ends within the client's timeout, and Core handles  *)
(* what reaches it.                                                        *)
HttpFairness ==
  \A r \in Requests :
    /\ WF_httpVars((Decide(r) \/ Finish(r)) /\ UNCHANGED <<wire, rows, faulty>>)
    /\ WF_httpVars(Post(r))
    /\ WF_httpVars(CoreAnswers(r))
    /\ WF_httpVars(Respond(r) \/ TransportError(r))

HttpSpec == HttpInit /\ [][HttpNext]_httpVars
HttpFairSpec == HttpSpec /\ HttpFairness

-----------------------------------------------------------------------------
Wire == {"idle", "sent", "2xx", "400", "other"}

HttpTypeOK ==
  /\ TypeOK
  /\ wire \in [Requests -> Wire]
  /\ rows \subseteq CanonicalRecord
  /\ faulty \in BOOLEAN

(* The report speaks the truth about Core: the records counted as rejected *)
(* are the poison ones, and every other record before the position of the  *)
(* loop has a row - so a response of 200 means everything but the poison   *)
(* is stored.                                                              *)
ReportMatchesCore ==
  \A r \in Requests : Begun(r) =>
    LET done == 1..at[r] - 1
        bad  == {i \in done : Records(r)[i].hash \in Poison}
    IN  /\ report[r].rejected = Cardinality(bad)
        /\ \A i \in done \ bad : Records(r)[i].hash \in StoredHashes

(* Once a dispatch has answered 200, nothing adds a row for one of its     *)
(* records any more: sending the run again, under any batch id, is safe.   *)
RetryAddsNothing ==
  [][\A r \in Requests : Begun(r) /\ status[r] = 200 =>
       \A row \in rows' \ rows : row.hash \notin Offered(r)]_httpVars

(* A poison record never blocks the stream (docstring of                   *)
(* PoisonRecordError): without faults every emission that begins is        *)
(* answered 200 unless the container dies, wherever its poison records.    *)
PoisonNeverBlocks ==
  \A r \in Requests :
    pc[r] = "emitting" /\ ~faulty ~> status[r] = 200 \/ pc[r] = "killed"

-----------------------------------------------------------------------------
(* The service over HTTP keeps the contract of the connectors.             *)
Contract == INSTANCE IngestionContract WITH
  Runs    <- Requests,
  Keys    <- Hashes,
  stored  <- StoredHashes,
  state   <- [r \in Requests |-> RunState(r)],
  offered <- [r \in Requests |-> Offered(r)]

KeepsContract == Contract!Spec

-----------------------------------------------------------------------------
(* What the documents say and the code does not do.                        *)

(* HttpPushError is documented as "Transport/server failure": a dispatch   *)
(* whose emission fails on the way to Core would then answer 502.          *)
FailedEmissionIs502 ==
  \A r \in Requests : Begun(r) /\ pc[r] = "answered" => status[r] \in {200, 502}
=============================================================================
