------------------------------- MODULE PubSub -------------------------------
(***************************************************************************)
(* The simulation service bound to a topic by PubSubPublisher              *)
(* (kernel/publisher.py): publish hands the record to the client library   *)
(* and waits 30 s for its future, so what a dispatch is told is that the   *)
(* broker has the message, not that Core has a row.  The client library,   *)
(* the topic and its push subscription are external, as the docstring of   *)
(* PubSubPublisher describes them: delivery at least once, retried, and    *)
(* dead-lettered after a number of attempts.                               *)
(***************************************************************************)
EXTENDS CoreTable

CONSTANT
  MaxDeliveries  \* attempts after which a message is dead-lettered

VARIABLES
  client,   \* what the client library does with the last record of a request
  topic     \* the messages of a request, in the order the broker took them,
            \* a message standing for itself and its copies

custodyVars == <<client, topic>>
pubVars == <<serviceVars, custodyVars, rows>>

ASSUME PubSubAssumption ==
  /\ MaxDeliveries \in Nat \ {0}
  /\ \A s \in Settings : Binding(s) # "http"

Message(rec) == [record |-> rec, state |-> "pending", attempts |-> 0]

PubInit ==
  /\ Init
  /\ client = [r \in Requests |-> "idle"]
  /\ topic = [r \in Requests |-> << >>]
  /\ rows = {}

-----------------------------------------------------------------------------
(* self._client.publish(...) queues the message and returns a future;      *)
(* future.result blocks the thread.                                        *)
Send(r) ==
  /\ Publish(r)
  /\ client' = [client EXCEPT ![r] = "sending"]
  /\ UNCHANGED <<topic, rows>>

(* The broker takes the message, whether or not its sender still waits, as *)
(* often as the client library repeats the call: see Repeated.             *)
BrokerAccepts(r) ==
  /\ client[r] = "sending"
  /\ topic' = [topic EXCEPT ![r] = Append(@, Message(OnWire(r)))]
  /\ client' = [client EXCEPT ![r] = "accepted"]
  /\ UNCHANGED <<serviceVars, rows>>

(* Fault: the future is not waited for.                                    *)
FaultFireAndForget(r) ==
  /\ PublishReturns(r)
  /\ client' = [client EXCEPT ![r] = "idle"]
  /\ UNCHANGED <<topic, rows>>

FutureResult(r) ==
  /\ client[r] = "accepted"
  /\ PublishReturns(r)
  /\ client' = [client EXCEPT ![r] = "idle"]
  /\ UNCHANGED <<topic, rows>>

(* Fault: publish swallows the exception.                                  *)
FaultSwallowed(r) ==
  /\ PublishReturns(r)
  /\ client' = [client EXCEPT ![r] = "idle"]
  /\ UNCHANGED <<topic, rows>>

(* The publish fails, or nothing is heard of it within the timeout; the    *)
(* library may go on sending a message that has timed out.                 *)
FutureRaises(r) ==
  /\ PublishRaisesOther(r)
  /\ \/ client' = [client EXCEPT ![r] = "idle"]
     \/ client[r] = "sending" /\ UNCHANGED client
  /\ UNCHANGED <<topic, rows>>

-----------------------------------------------------------------------------
(* The push subscription delivers a pending message to Core.               *)
Pending(r, i) == topic[r][i].state = "pending"

Poisonous(r, i) == topic[r][i].record.hash \in Poison

(* Core has stored it, and the broker hears of it.                         *)
Acknowledged(r, i) ==
  /\ Pending(r, i)
  /\ ~Poisonous(r, i)
  /\ rows' = Upsert(topic[r][i].record)
  /\ topic' = [topic EXCEPT ![r][i].state = "acknowledged"]
  /\ UNCHANGED <<serviceVars, client>>

(* One more attempt has failed.                                            *)
Tried(msg) ==
  [record   |-> msg.record,
   state    |-> IF msg.attempts + 1 < MaxDeliveries THEN "pending" ELSE "dead",
   attempts |-> msg.attempts + 1]

(* Core refuses it, fails, or its answer is late; it may have stored the   *)
(* record nevertheless.                                                    *)
Unacknowledged(r, i) ==
  /\ Pending(r, i)
  /\ topic' = [topic EXCEPT ![r][i] = Tried(@)]
  /\ \/ UNCHANGED rows
     \/ ~Poisonous(r, i) /\ rows' = Upsert(topic[r][i].record)
  /\ UNCHANGED <<serviceVars, client>>

(* There is another copy, which starts its attempts anew: the client       *)
(* library has repeated a publish whose answer was lost, or the broker     *)
(* delivers what it has delivered before.                                  *)
Repeated(r, i) ==
  /\ topic' = [topic EXCEPT ![r][i] = Message(@.record)]
  /\ UNCHANGED <<serviceVars, client, rows>>

Deliver(r) ==
  \E i \in DOMAIN topic[r] :
    Acknowledged(r, i) \/ Unacknowledged(r, i) \/ Repeated(r, i)

PubNext ==
  \/ Environment /\ UNCHANGED <<custodyVars, rows>>
  \/ \E r \in Requests :
       \/ /\ Resolve(r) \/ Decide(r) \/ Finish(r)
          /\ UNCHANGED <<custodyVars, rows>>
       \/ Send(r) \/ BrokerAccepts(r) \/ FutureResult(r) \/ FutureRaises(r)
       \/ Deliver(r)

PubSpec == PubInit /\ [][PubNext]_pubVars

-----------------------------------------------------------------------------
PubTypeOK ==
  /\ TypeOK
  /\ client \in [Requests -> {"idle", "sending", "accepted"}]
  /\ topic \in [Requests -> Seq([record   : CanonicalRecord,
                                 state    : {"pending", "acknowledged", "dead"},
                                 attempts : 0..MaxDeliveries])]
  /\ rows \subseteq CanonicalRecord

(* The record is safe: at Core, on its way there or in the dead letters.   *)
InCustody(r, i) ==
  \/ topic[r][i].record.hash \in StoredHashes
  \/ topic[r][i].state \in {"pending", "dead"}

(* An emission over the broker loses nothing and hides nothing: the topic  *)
(* has taken the records a report counts as emitted, in the order of the   *)
(* batch and at most one more, and every message it ever took, copies and  *)
(* all, is stored, pending or dead-lettered.  Nothing is reported rejected: *)
(* poison is found out when nobody waits for the answer.                   *)
EmittedInCustody ==
  \A r \in Requests :
    /\ report[r].rejected = 0
    /\ report[r].emitted <= Len(topic[r])
    /\ Len(topic[r]) <= report[r].emitted + 1
    /\ \A i \in DOMAIN topic[r] :
         InCustody(r, i) /\ topic[r][i].record = Records(r)[i]

-----------------------------------------------------------------------------
(* What the broker has taken charge of.                                    *)
Custody ==
  StoredHashes \cup
  UNION {{topic[r][i].record.hash :
            i \in {j \in DOMAIN topic[r] : topic[r][j].state # "acknowledged"}} :
         r \in Requests}

(* Over a broker the service keeps the contract of the connectors for a    *)
(* weaker good, custody: a run that succeeded has every record it offered, *)
(* poison included, stored or in the broker's hands.                       *)
CustodyContract == INSTANCE IngestionContract WITH
  Runs    <- Requests,
  Keys    <- Hashes,
  Poison  <- {},
  stored  <- Custody,
  state   <- [r \in Requests |-> RunState(r)],
  offered <- [r \in Requests |-> Offered(r)]

KeepsCustody == CustodyContract!Spec
=============================================================================
