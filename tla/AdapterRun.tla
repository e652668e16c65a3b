----------------------------- MODULE AdapterRun -----------------------------
(***************************************************************************)
(* Live adapters: run_adapter (kernel/runner.py) extracts, stamps and      *)
(* publishes the records of one connector, under with_backoff              *)
(* (kernel/retry.py), the retry the kernel offers for idempotent pulls.    *)
(* The scheduler that composes the two is not in the repository: a job is  *)
(* with_backoff around run_adapter, and jobs run side by side.             *)
(*                                                                         *)
(* The publisher of an environment is one of two bindings over a transport *)
(* that may fail, HttpPush and PubSub in little.  Over HTTP a return of    *)
(* publish means that Core has the record, and poison raises.  Over Pub/Sub *)
(* a return means that the broker has it, poison or not; the subscription  *)
(* delivers it, or dead-letters it, later.  Under faults publish raises    *)
(* whether or not the record has been sent; what has been sent arrives     *)
(* later.                                                                  *)
(***************************************************************************)
EXTENDS Integers, Sequences

CONSTANTS
  Jobs,       \* with_backoff(lambda: run_adapter(...)), one per connector
  Feeds,      \* what extract() of a connector may yield
  RawTypes,   \* record types of RawRecords, free-form
  Canonical,  \* the CanonicalRecordType enum
  Data,       \* payload dicts
  Bytes,      \* raw bytes a record was cut from
  Keys,       \* SHA-256 digests
  Digest,     \* source_hash of raw bytes
  Poison,     \* keys of the records Core finds invalid
  Attempts,   \* attempts of with_backoff
  Retryable,  \* exception classes of with_backoff
  Faults      \* whether the transport may fail

VARIABLES
  pc,         \* where the job is
  feeds,      \* what extract() yielded, one entry per attempt
  at,         \* position in the extraction of the current attempt
  published,  \* run_adapter's count
  last,       \* the exception with_backoff holds
  binding,    \* the publisher of the environment, one for all its jobs
  flight,     \* records sent whose publish has raised before they arrived
  broker,     \* records in the broker's hands: pending, or dead-lettered
  rows        \* canonical records at Core

jobVars == <<pc, feeds, at, published, last>>
adapterVars == <<jobVars, binding, flight, broker, rows>>

-----------------------------------------------------------------------------
RawRecord == [type : RawTypes, payload : Data, bytes : Bytes]

(* extract() is a generator: it may raise after what it has yielded.       *)
Feed == [records : Seq(RawRecord), raises : BOOLEAN]

Errors == {"validation", "poison", "transport", "extraction"}

ASSUME AdapterAssumption ==
  /\ Feeds \subseteq Feed /\ Feeds # {}
  /\ Canonical \subseteq RawTypes
  /\ Digest \in [Bytes -> Keys]
  /\ Poison \subseteq Keys
  /\ Attempts \in Nat \ {0}
  /\ Retryable \subseteq Errors
  /\ Faults \in BOOLEAN

Row == [key : Keys, type : Canonical, payload : Data]

(* The current attempt of a job that has begun one.                        *)
Attempt(j) == Len(feeds[j])
Current(j) == feeds[j][Attempt(j)]

(* source_hash: of the raw bytes, not of the payload.                      *)
Key(raw) == Digest[raw.bytes]

(* CanonicalRecord(...) of run_adapter; the record type goes through cast, *)
(* which changes nothing.                                                  *)
Stamped(raw) == [key |-> Key(raw), type |-> raw.type, payload |-> raw.payload]

StoredKeys == {row.key : row \in rows}

Upsert(rec) == IF rec.key \in StoredKeys THEN rows ELSE rows \cup {rec}

Bindings == {"http", "pubsub"}

(* A record arrives: at Core, or at the broker in front of it.             *)
Arrives(rec) ==
  \/ binding = "http" /\ rows' = Upsert(rec) /\ UNCHANGED broker
  \/ binding = "pubsub" /\ broker' = broker \cup {rec} /\ UNCHANGED rows

(* What a caller may count on after a return: over HTTP, where no broker   *)
(* holds anything, a row; over Pub/Sub, a row, a delivery to come or a dead *)
(* letter.                                                                 *)
Taken == {rec.key : rec \in rows \cup broker}

-----------------------------------------------------------------------------
Init ==
  /\ pc = [j \in Jobs |-> "new"]
  /\ feeds = [j \in Jobs |-> << >>]
  /\ at = [j \in Jobs |-> 1]
  /\ published = [j \in Jobs |-> 0]
  /\ last = [j \in Jobs |-> "none"]
  /\ binding \in Bindings
  /\ flight = {}
  /\ broker = {}
  /\ rows = {}

(* Fault: the count of the failed attempt goes on.                         *)
FaultCountGoesOn(j, feed) ==
  /\ pc[j] \in {"new", "sleeping"}
  /\ pc' = [pc EXCEPT ![j] = "running"]
  /\ feeds' = [feeds EXCEPT ![j] = Append(@, feed)]
  /\ at' = [at EXCEPT ![j] = 1]
  /\ UNCHANGED <<published, last, binding, flight, broker, rows>>

(* fn() of with_backoff, the first time or after its sleep: extract() is   *)
(* called anew, on whatever the source has by now, and the count starts    *)
(* over.                                                                   *)
Call(j, feed) ==
  /\ pc[j] \in {"new", "sleeping"}
  /\ pc' = [pc EXCEPT ![j] = "running"]
  /\ feeds' = [feeds EXCEPT ![j] = Append(@, feed)]
  /\ at' = [at EXCEPT ![j] = 1]
  /\ published' = [published EXCEPT ![j] = 0]
  /\ UNCHANGED <<last, binding, flight, broker, rows>>

(* Faults: one attempt too many, an exception caught inside the loop.      *)
FaultOneAttemptMore(j, error) ==
  /\ last' = [last EXCEPT ![j] = error]
  /\ pc' = [pc EXCEPT
       ![j] = IF error \in Retryable /\ Attempt(j) <= Attempts
              THEN "sleeping" ELSE "raised"]
  /\ UNCHANGED <<feeds, at, published>>

FaultCaughtInside(j, error) ==
  /\ last' = [last EXCEPT ![j] = error]
  /\ UNCHANGED <<pc, feeds, at, published>>

(* An exception leaves run_adapter: with_backoff sleeps before the next    *)
(* attempt, or raises it when it is not retryable or the attempts are used *)
(* up.                                                                     *)
Raise(j, error) ==
  /\ last' = [last EXCEPT ![j] = error]
  /\ pc' = [pc EXCEPT
       ![j] = IF error \in Retryable /\ Attempt(j) < Attempts
              THEN "sleeping" ELSE "raised"]
  /\ UNCHANGED <<feeds, at, published>>

(* The next record of the extraction, if there is one.                     *)
Yields(j) == pc[j] = "running" /\ at[j] <= Len(Current(j).records)
Yielded(j) == Current(j).records[at[j]]

(* What publish sends and the other side takes: at most the next record.   *)
(* Core refuses poison to the sender's face, a broker does not look.       *)
Sendable(j) ==
  {Stamped(raw) : raw \in {x \in {Yielded(j)} :
                             /\ x.type \in Canonical
                             /\ binding = "http" => Key(x) \notin Poison}}

(* Faults: a record of any type goes out, a record whose publish failed is *)
(* passed over.                                                            *)
FaultUnvalidated(j) ==
  /\ Yields(j)
  /\ Yielded(j).type \notin Canonical
  /\ Arrives(Stamped(Yielded(j)))
  /\ at' = [at EXCEPT ![j] = @ + 1]
  /\ published' = [published EXCEPT ![j] = @ + 1]
  /\ UNCHANGED <<pc, feeds, last, binding, flight>>

FaultPassesOver(j) ==
  /\ Faults
  /\ Yields(j)
  /\ flight' = flight \cup Sendable(j)
  /\ at' = [at EXCEPT ![j] = @ + 1]
  /\ published' = [published EXCEPT ![j] = @ + 1]
  /\ UNCHANGED <<pc, feeds, last, binding, broker, rows>>

(* pydantic refuses a record type outside the enum, before publish.        *)
FailValidation(j) ==
  /\ Yields(j)
  /\ Yielded(j).type \notin Canonical
  /\ Raise(j, "validation")
  /\ UNCHANGED <<binding, flight, broker, rows>>

(* publish returns: Core has answered 2xx, or the broker has acknowledged. *)
Publish(j) ==
  /\ Yields(j)
  /\ Sendable(j) # {}
  /\ Arrives(Stamped(Yielded(j)))
  /\ at' = [at EXCEPT ![j] = @ + 1]
  /\ published' = [published EXCEPT ![j] = @ + 1]
  /\ UNCHANGED <<pc, feeds, last, binding, flight>>

(* Over HTTP Core answers 400, publish raises and nothing here catches it: *)
(* the stream ends.                                                        *)
RaisePoison(j) ==
  /\ binding = "http"
  /\ Yields(j)
  /\ Yielded(j).type \in Canonical
  /\ Key(Yielded(j)) \in Poison
  /\ Raise(j, "poison")
  /\ UNCHANGED <<binding, flight, broker, rows>>

(* The POST fails or times out, or the future of the broker's client does. *)
(* The record has not been sent, or it has and arrives all the same, at    *)
(* once or later.                                                          *)
RaiseTransport(j) ==
  /\ Faults
  /\ Yields(j)
  /\ Yielded(j).type \in Canonical
  /\ Raise(j, "transport")
  /\ flight' \in {flight, flight \cup Sendable(j)}
  /\ UNCHANGED <<binding, broker, rows>>

RaiseExtraction(j) ==
  /\ pc[j] = "running"
  /\ at[j] > Len(Current(j).records)
  /\ Current(j).raises
  /\ Raise(j, "extraction")
  /\ UNCHANGED <<binding, flight, broker, rows>>

Return(j) ==
  /\ pc[j] = "running"
  /\ at[j] > Len(Current(j).records)
  /\ ~Current(j).raises
  /\ pc' = [pc EXCEPT ![j] = "returned"]
  /\ UNCHANGED <<feeds, at, published, last, binding, flight, broker, rows>>

Run(j) ==
  \/ FailValidation(j) \/ Publish(j) \/ RaisePoison(j) \/ RaiseTransport(j)
  \/ RaiseExtraction(j) \/ Return(j)

(* A record in flight arrives after its sender gave up.                    *)
Land(rec) ==
  /\ rec \in flight
  /\ flight' = flight \ {rec}
  /\ Arrives(rec)
  /\ UNCHANGED <<jobVars, binding>>

(* The subscription delivers a record and Core stores it.  The broker may  *)
(* keep it all the same: an acknowledgement was lost, a publish repeated.  *)
(* Poison it keeps for ever, and what it has dead-lettered.                *)
Deliver(rec) ==
  /\ rec \in broker
  /\ rec.key \notin Poison
  /\ rows' = Upsert(rec)
  /\ broker' \in {broker, broker \ {rec}}
  /\ UNCHANGED <<jobVars, binding, flight>>

(* The deployable dies with the jobs it runs, in the middle of publish or  *)
(* not.                                                                    *)
InProcess == {"running", "sleeping"}

Kill ==
  /\ \E j \in Jobs : pc[j] \in InProcess
  /\ pc' = [j \in Jobs |-> IF pc[j] \in InProcess THEN "killed" ELSE pc[j]]
  /\ \E sent \in SUBSET UNION {Sendable(j) : j \in {i \in Jobs : Yields(i)}} :
       flight' = flight \cup sent
  /\ UNCHANGED <<feeds, at, published, last, binding, broker, rows>>

Next ==
  \/ \E j \in Jobs : Run(j) \/ \E feed \in Feeds : Call(j, feed)
  \/ \E rec \in flight : Land(rec)
  \/ \E rec \in broker : Deliver(rec)
  \/ Kill

(* A job that can run does: publish calls end, sleeps do too.              *)
Fairness == \A j \in Jobs : 
  WF_adapterVars(Run(j) \/ \E feed \in Feeds : Call(j, feed))

Spec == Init /\ [][Next]_adapterVars
FairSpec == Spec /\ Fairness

-----------------------------------------------------------------------------
TypeOK ==
  /\ pc \in [Jobs -> InProcess \cup {"new", "returned", "raised", "killed"}]
  /\ feeds \in [Jobs -> Seq(Feeds)]
  /\ at \in [Jobs -> Nat \ {0}]
  /\ published \in [Jobs -> Nat]
  /\ last \in [Jobs -> Errors \cup {"none"}]
  /\ binding \in Bindings
  /\ flight \cup broker \subseteq Row
  /\ rows \subseteq {row \in Row : row.key \notin Poison}
  /\ binding = "http" => broker = {} /\ \A rec \in flight : rec.key \notin Poison

(* The count run_adapter returns is the whole of the last extraction and   *)
(* nothing of earlier attempts, and every record of it is taken under its  *)
(* own key, whatever deliveries and other jobs have done since: at Core    *)
(* over HTTP, in custody over Pub/Sub.  A caller that moves on after a     *)
(* return loses nothing (runner.py, the count it returns).                 *)
ReturnedMeansTaken ==
  \A j \in Jobs : pc[j] = "returned" =>
    /\ published[j] = Len(Current(j).records)
    /\ \A i \in DOMAIN Current(j).records : Key(Current(j).records[i]) \in Taken

(* There are no holes: whatever Core, the broker or the network holds is a *)
(* record of some attempt all of whose earlier records have been taken, so *)
(* a record never overtakes the one the source yielded before it.  Retries *)
(* over an extraction that has changed keep that because they start from   *)
(* its first record, late arrivals because an attempt ends at the record   *)
(* it gave up on (runner.py, one publish at a time; retry.py, fn called    *)
(* anew).                                                                  *)
InOrder(rec) ==
  \E j \in Jobs : \E n \in DOMAIN feeds[j] : \E i \in DOMAIN feeds[j][n].records :
    /\ rec = Stamped(feeds[j][n].records[i])
    /\ \A k \in 1..i - 1 : Key(feeds[j][n].records[k]) \in Taken

NoGaps == \A rec \in rows \cup broker \cup flight : InOrder(rec)

(* Once a job has returned, nothing but the broker's deliveries adds a row *)
(* for its records any more, and over HTTP nothing at all: no record of an *)
(* earlier attempt that lands late, no other job over the same data        *)
(* (README: source_hash makes republishing safe).                          *)
RerunAddsNothing ==
  [][\A j \in Jobs : pc[j] = "returned" =>
       \A row \in rows' \ rows : \A i \in DOMAIN Current(j).records :
         row.key = Key(Current(j).records[i]) => row \in broker]_adapterVars

(* Every job comes to an end: a source or a Core that always fails costs   *)
(* it its attempts and no more.                                            *)
JobEnds ==
  \A j \in Jobs : pc[j] = "running" ~> pc[j] \in {"returned", "raised", "killed"}

(* The contract of the connectors, an attempt being a run of it: an        *)
(* attempt that returns has everything it offered taken, poison included   *)
(* (over HTTP none with poison returns), one that fails may still have     *)
(* records arrive, and there are never more attempts than with_backoff     *)
(* allows.                                                                 *)
AttemptState(j, n) ==
  IF n > Attempt(j) THEN "idle"
  ELSE IF n < Attempt(j) THEN "failed"
  ELSE IF pc[j] = "running" THEN "running"
  ELSE IF pc[j] = "returned" THEN "succeeded"
  ELSE "failed"

OfferedBy(j, n) ==
  IF n > Attempt(j) THEN {}
  ELSE {Key(feeds[j][n].records[i]) : i \in DOMAIN feeds[j][n].records}

Contract == INSTANCE IngestionContract WITH
  Runs    <- Jobs \X (1..Attempts),
  Poison  <- {},
  stored  <- Taken,
  state   <- [a \in Jobs \X (1..Attempts) |-> AttemptState(a[1], a[2])],
  offered <- [a \in Jobs \X (1..Attempts) |-> OfferedBy(a[1], a[2])]

AttemptsKeepCustody == Contract!Spec

-----------------------------------------------------------------------------
(* What the documents say and the code does not do.                        *)

(* retry.py: poison data routes to the DLQ rather than blocking the stream;*)
(* parser.py: the runner routes poison files to the DLQ.  No job would then *)
(* fail for a record Core finds invalid or a document that is malformed.   *)
(* (The property is for sources whose extraction raises for no other       *)
(* reason.)                                                                *)
PoisonIsRouted ==
  \A j \in Jobs : pc[j] = "raised" => last[j] \notin {"poison", "extraction"}

(* SourceMetadata.source_hash: SHA-256 of the raw payload, the idempotency *)
(* key.  Records with different payloads would then have different keys,   *)
(* and none would be dropped at Core as a repetition of another.           *)
KeyNamesPayload ==
  \A j \in Jobs : pc[j] = "returned" =>
    \A i \in DOMAIN Current(j).records :
      \E rec \in rows \cup broker :
        rec.payload = Current(j).records[i].payload
=============================================================================
