-------------------------- MODULE AdapterRunProofs --------------------------
(***************************************************************************)
(* Proofs about AdapterRun, for any connectors, feeds, attempts, exception *)
(* classes and either publisher: its types, the meaning of a return, the   *)
(* order in which records are taken and the idempotence of what follows a  *)
(* return.  Then that retried jobs implement IngestionContract for         *)
(* custody, an attempt being a run.                                        *)
(***************************************************************************)
EXTENDS AdapterRun, TLAPS

(* The attempts of a job are counted by what it has extracted, and it      *)
(* sleeps only when there is one left.                                     *)
Numbered ==
  \A j \in Jobs : /\ pc[j] = "new" => Attempt(j) = 0
                  /\ pc[j] # "new" => Attempt(j) \in 1..Attempts
                  /\ pc[j] = "sleeping" => Attempt(j) < Attempts

(* The count and the position move together, and every record behind the   *)
(* position is taken.                                                      *)
Behind ==
  \A j \in Jobs : pc[j] \in {"running", "returned"} =>
    /\ at[j] \in 1..Len(Current(j).records) + 1
    /\ published[j] = at[j] - 1
    /\ \A i \in 1..at[j] - 1 : Key(Current(j).records[i]) \in Taken

(* A job returns at the end of its extraction.                             *)
AtTheEnd ==
  \A j \in Jobs : pc[j] = "returned" => at[j] = Len(Current(j).records) + 1

AdapterInv ==
  /\ TypeOK
  /\ Numbered
  /\ Behind
  /\ AtTheEnd
  /\ NoGaps

-----------------------------------------------------------------------------
(* The extraction of a job that has begun an attempt is one of the feeds.  *)
LEMMA CurrentIsFeed ==
  ASSUME TypeOK, Numbered, NEW j \in Jobs, pc[j] # "new"
  PROVE  Current(j) \in Feeds /\ Current(j).records \in Seq(RawRecord)
<1>1. feeds[j] \in Seq(Feeds)
  BY DEF TypeOK
<1>2. Len(feeds[j]) \in 1..Attempts
  BY DEF Numbered, Attempt
<1>3. Attempts \in Nat
  BY AdapterAssumption
<1>4. Current(j) \in Feeds
  BY <1>1, <1>2, <1>3 DEF Current, Attempt
<1>5. Feeds \subseteq Feed
  BY AdapterAssumption
<1> QED
  BY <1>4, <1>5 DEF Feed

(* The record a running job yields is a raw record with a key.             *)
LEMMA YieldedIsRaw ==
  ASSUME TypeOK, Numbered, NEW j \in Jobs, Yields(j)
  PROVE  Yielded(j) \in RawRecord /\ Key(Yielded(j)) \in Keys
<1>1. pc[j] # "new"
  BY DEF Yields
<1>2. Current(j).records \in Seq(RawRecord)
  BY <1>1, CurrentIsFeed
<1>3. at[j] \in 1..Len(Current(j).records)
  BY <1>2 DEF Yields, TypeOK
<1>4. Yielded(j) \in RawRecord
  BY <1>2, <1>3 DEF Yielded
<1>5. Digest \in [Bytes -> Keys]
  BY AdapterAssumption
<1> QED
  BY <1>4, <1>5 DEF RawRecord, Key

(* What publish sends is a canonical record, and over HTTP not poison.     *)
LEMMA SentIsRow ==
  ASSUME TypeOK, Numbered, NEW j \in Jobs, Yields(j), NEW rec \in Sendable(j)
  PROVE  /\ rec \in Row /\ rec = Stamped(Yielded(j))
         /\ binding = "http" => rec.key \notin Poison
<1>1. Yielded(j) \in RawRecord /\ Key(Yielded(j)) \in Keys
  BY YieldedIsRaw
<1>2. /\ rec = Stamped(Yielded(j))
      /\ Yielded(j).type \in Canonical
      /\ binding = "http" => Key(Yielded(j)) \notin Poison
  BY DEF Sendable
<1> QED
  BY <1>1, <1>2 DEF Stamped, Row, RawRecord

(* The records in front of it in its attempt have been taken.              *)
LEMMA SentInOrder ==
  ASSUME TypeOK, Numbered, Behind, NEW j \in Jobs, Yields(j), NEW rec \in Sendable(j)
  PROVE  InOrder(rec)
<1>1. pc[j] = "running" /\ at[j] <= Len(Current(j).records)
  BY DEF Yields
<1>2. Current(j).records \in Seq(RawRecord)
  BY <1>1, CurrentIsFeed
<1>3. at[j] \in DOMAIN Current(j).records
  BY <1>1, <1>2 DEF TypeOK
<1>4. Attempt(j) \in DOMAIN feeds[j]
  <2>1. feeds[j] \in Seq(Feeds) /\ Len(feeds[j]) \in 1..Attempts /\ Attempts \in Nat
    BY <1>1, AdapterAssumption DEF TypeOK, Numbered, Attempt
  <2> QED
    BY <2>1 DEF Attempt
<1>5. rec = Stamped(Current(j).records[at[j]])
  BY SentIsRow DEF Yielded
<1>6. \A k \in 1..at[j] - 1 : Key(Current(j).records[k]) \in Taken
  BY <1>1 DEF Behind
<1> QED
  BY <1>3, <1>4, <1>5, <1>6 DEF InOrder, Current

(* A record that arrives is taken, and nothing that was taken is lost.     *)
LEMMA ArrivesTakes ==
  ASSUME NEW rec, Arrives(rec)
  PROVE  /\ Taken' = Taken \cup {rec.key}
         /\ rows' \cup broker' \subseteq rows \cup broker \cup {rec}
<1>1. CASE binding = "http" /\ rows' = Upsert(rec) /\ broker' = broker
  BY <1>1 DEF Taken, Upsert, StoredKeys
<1>2. CASE broker' = broker \cup {rec} /\ rows' = rows
  BY <1>2 DEF Taken
<1> QED
  BY <1>1, <1>2 DEF Arrives

LEMMA ArrivesTyped ==
  ASSUME TypeOK, NEW rec \in Row, Arrives(rec), binding' = binding, flight' \subseteq flight,
         binding = "http" => rec.key \notin Poison
  PROVE  /\ flight' \cup broker' \subseteq Row
         /\ rows' \subseteq {row \in Row : row.key \notin Poison}
         /\ binding' \in Bindings
         /\ binding' = "http" =>
              broker' = {} /\ \A r \in flight' : r.key \notin Poison
<1>1. CASE binding = "http" /\ rows' = Upsert(rec) /\ broker' = broker
  BY <1>1 DEF TypeOK, Upsert
<1>2. CASE binding = "pubsub" /\ broker' = broker \cup {rec} /\ rows' = rows
  BY <1>2 DEF TypeOK
<1> QED
  BY <1>1, <1>2 DEF Arrives

(* Order is kept by a step that forgets neither extractions nor what has   *)
(* been taken, and adds only records that are in order.                    *)
LEMMA OrderKeeps ==
  ASSUME NoGaps, Taken \subseteq Taken',
         \A j \in Jobs : \A n \in DOMAIN feeds[j] :
           n \in DOMAIN feeds'[j] /\ feeds'[j][n] = feeds[j][n],
         \A rec \in (rows \cup broker \cup flight)' :
           rec \in rows \cup broker \cup flight \/ InOrder(rec)
  PROVE  NoGaps'
<1> SUFFICES ASSUME NEW rec \in (rows \cup broker \cup flight)'
             PROVE  InOrder(rec)'
  BY DEF NoGaps
<1>1. InOrder(rec)
  BY DEF NoGaps
<1>2. PICK j \in Jobs : \E n \in DOMAIN feeds[j] : \E i \in DOMAIN feeds[j][n].records :
        /\ rec = Stamped(feeds[j][n].records[i])
        /\ \A k \in 1..i - 1 : Key(feeds[j][n].records[k]) \in Taken
  BY <1>1 DEF InOrder
<1>3. PICK n \in DOMAIN feeds[j] : \E i \in DOMAIN feeds[j][n].records :
        /\ rec = Stamped(feeds[j][n].records[i])
        /\ \A k \in 1..i - 1 : Key(feeds[j][n].records[k]) \in Taken
  BY <1>2
<1>4. n \in DOMAIN feeds'[j] /\ feeds'[j][n] = feeds[j][n]
  OBVIOUS
<1>5. PICK i \in DOMAIN feeds'[j][n].records :
        /\ rec = Stamped(feeds'[j][n].records[i])
        /\ \A k \in 1..i - 1 : Key(feeds'[j][n].records[k]) \in Taken'
  BY <1>3, <1>4
<1> QED
  BY <1>4, <1>5 DEF InOrder, Stamped, Key

-----------------------------------------------------------------------------
LEMMA InitAdapterInv == Init => AdapterInv
<1> SUFFICES ASSUME Init PROVE AdapterInv
  OBVIOUS
<1>1. TypeOK
  BY DEF Init, TypeOK, InProcess, Errors, Row, Bindings
<1>2. Numbered
  BY DEF Init, Numbered, Attempt
<1>3. Behind /\ AtTheEnd /\ NoGaps
  BY DEF Init, Behind, AtTheEnd, NoGaps
<1> QED
  BY <1>1, <1>2, <1>3 DEF AdapterInv

(* An attempt begins: its extraction is new, its count is zero.            *)
LEMMA CallKeeps ==
  ASSUME AdapterInv, NEW j \in Jobs, NEW feed \in Feeds, Call(j, feed)
  PROVE  AdapterInv'
<1>1. TypeOK /\ Numbered /\ Behind /\ AtTheEnd /\ NoGaps
  BY DEF AdapterInv
<1>2. /\ pc' = [pc EXCEPT ![j] = "running"]
      /\ feeds' = [feeds EXCEPT ![j] = Append(feeds[j], feed)]
      /\ at' = [at EXCEPT ![j] = 1]
      /\ published' = [published EXCEPT ![j] = 0]
      /\ UNCHANGED <<last, binding, flight, broker, rows>>
  BY DEF Call
<1>3. /\ feeds[j] \in Seq(Feeds)
      /\ Attempts \in Nat \ {0}
  BY <1>1, AdapterAssumption DEF TypeOK
<1>4. Len(feeds[j]) < Attempts
  BY <1>1, <1>3 DEF Call, Numbered, Attempt
<1>5. /\ Append(feeds[j], feed) \in Seq(Feeds)
      /\ Len(Append(feeds[j], feed)) = Len(feeds[j]) + 1
      /\ Append(feeds[j], feed)[Len(feeds[j]) + 1] = feed
  BY <1>3
<1>6. feed.records \in Seq(RawRecord)
  BY AdapterAssumption DEF Feed
<1>7. TypeOK'
  BY <1>1, <1>2, <1>5 DEF TypeOK, InProcess
<1>8. /\ pc'[j] = "running" /\ at'[j] = 1 /\ published'[j] = 0
      /\ feeds'[j] = Append(feeds[j], feed)
      /\ \A i \in Jobs \ {j} : /\ pc'[i] = pc[i] /\ at'[i] = at[i]
                               /\ published'[i] = published[i]
                               /\ feeds'[i] = feeds[i] /\ last'[i] = last[i]
  BY <1>1, <1>2 DEF TypeOK
<1>9. Numbered'
  BY <1>1, <1>3, <1>4, <1>5, <1>8 DEF Numbered, Attempt
<1>10. Taken' = Taken
  BY <1>2 DEF Taken
<1>11. Behind'
  <2> SUFFICES ASSUME NEW i \in Jobs, pc'[i] \in {"running", "returned"}
               PROVE  (/\ at[i] \in 1..Len(Current(i).records) + 1
                       /\ published[i] = at[i] - 1
                       /\ \A n \in 1..at[i] - 1 :
                            Key(Current(i).records[n]) \in Taken)'
    BY DEF Behind
  <2>1. CASE i = j
    <3>1. Len(feed.records) \in Nat
      BY <1>6
    <3>2. Current(j)' = feed
      BY <1>3, <1>5, <1>8 DEF Current, Attempt
    <3> QED
      BY <2>1, <3>1, <3>2, <1>8
  <2>2. CASE i # j
    BY <2>2, <1>1, <1>2, <1>8, <1>10 DEF Behind, Current, Attempt, Key
  <2> QED
    BY <2>1, <2>2
<1>12. AtTheEnd'
  BY <1>1, <1>8 DEF AtTheEnd, Current, Attempt
<1>13. NoGaps'
  <2>1. \A i \in Jobs : \A n \in DOMAIN feeds[i] :
          n \in DOMAIN feeds'[i] /\ feeds'[i][n] = feeds[i][n]
    <3>1. \A n \in DOMAIN feeds[j] :
            n \in DOMAIN Append(feeds[j], feed) /\ Append(feeds[j], feed)[n] = feeds[j][n]
      BY <1>3
    <3> QED
      BY <3>1, <1>8
  <2> QED
    BY <2>1, <1>1, <1>2, <1>10, OrderKeeps
<1> QED
  BY <1>7, <1>9, <1>11, <1>12, <1>13 DEF AdapterInv

(* An exception ends an attempt; what has been sent may be in flight.      *)
LEMMA RaiseKeeps ==
  ASSUME AdapterInv, NEW j \in Jobs, NEW error \in Errors, pc[j] = "running",
         Raise(j, error), UNCHANGED <<binding, broker, rows>>,
         (flight' = flight \/ (Yields(j) /\ flight' = flight \cup Sendable(j)))
  PROVE  AdapterInv'
<1>1. TypeOK /\ Numbered /\ Behind /\ AtTheEnd /\ NoGaps
  BY DEF AdapterInv
<1> DEFINE again == error \in Retryable /\ Attempt(j) < Attempts
<1>2. /\ last' = [last EXCEPT ![j] = error]
      /\ pc' = [pc EXCEPT ![j] = IF again THEN "sleeping" ELSE "raised"]
      /\ UNCHANGED <<feeds, at, published>>
  BY DEF Raise
<1>3. Attempt(j) \in 1..Attempts /\ Attempts \in Nat
  BY <1>1, AdapterAssumption DEF Numbered
<1>4. /\ \A rec \in flight' : /\ rec \in Row
                              /\ rec \in flight \/ InOrder(rec)
                              /\ binding = "http" => rec.key \notin Poison
  BY <1>1, SentIsRow, SentInOrder DEF TypeOK
<1>5. TypeOK'
  BY <1>1, <1>2, <1>4 DEF TypeOK, InProcess
<1>6. /\ pc'[j] = IF again THEN "sleeping" ELSE "raised"
      /\ \A i \in Jobs \ {j} : pc'[i] = pc[i]
  BY <1>1, <1>2 DEF TypeOK
<1>7. \A i \in Jobs : Attempt(i)' = Attempt(i) /\ Current(i)' = Current(i)
  BY <1>2 DEF Attempt, Current
<1>8. Taken' = Taken
  BY DEF Taken
<1>9. Numbered'
  BY <1>1, <1>3, <1>6, <1>7 DEF Numbered
<1>10. Behind' /\ AtTheEnd'
  <2>1. \A i \in Jobs : pc'[i] \in {"running", "returned"} => pc'[i] = pc[i]
    BY <1>6
  <2>2. at' = at /\ published' = published
    BY <1>2
  <2> HIDE DEF again
  <2>3. Behind'
    BY <2>1, <2>2, <1>1, <1>7, <1>8 DEF Behind, Key
  <2>4. AtTheEnd'
    BY <2>1, <2>2, <1>1, <1>7 DEF AtTheEnd
  <2> QED
    BY <2>3, <2>4
<1>11. NoGaps'
  BY <1>1, <1>2, <1>4, <1>8, OrderKeeps
<1> QED
  BY <1>5, <1>9, <1>10, <1>11 DEF AdapterInv

(* A publish that returns moves count and position past a record taken.    *)
LEMMA PublishKeeps ==
  ASSUME AdapterInv, NEW j \in Jobs, Publish(j)
  PROVE  AdapterInv'
<1>1. TypeOK /\ Numbered /\ Behind /\ AtTheEnd /\ NoGaps
  BY DEF AdapterInv
<1>2. /\ Yields(j) /\ Sendable(j) # {}
      /\ Arrives(Stamped(Yielded(j)))
      /\ at' = [at EXCEPT ![j] = at[j] + 1]
      /\ published' = [published EXCEPT ![j] = published[j] + 1]
      /\ UNCHANGED <<pc, feeds, last, binding, flight>>
  BY DEF Publish
<1>3. /\ pc[j] = "running" /\ at[j] <= Len(Current(j).records)
      /\ Current(j).records \in Seq(RawRecord)
  BY <1>1, <1>2, CurrentIsFeed DEF Yields
<1> DEFINE rec == Stamped(Yielded(j))
<1>4. /\ rec \in Row /\ InOrder(rec)
      /\ binding = "http" => rec.key \notin Poison
  BY <1>1, <1>2, SentIsRow, SentInOrder
<1>5. /\ Taken' = Taken \cup {Key(Yielded(j))}
      /\ rows' \cup broker' \subseteq rows \cup broker \cup {rec}
  BY <1>2, ArrivesTakes DEF Stamped
<1>6. TypeOK'
  <2>1. /\ flight' \cup broker' \subseteq Row
        /\ rows' \subseteq {row \in Row : row.key \notin Poison}
        /\ binding' \in Bindings
        /\ binding' = "http" =>
             broker' = {} /\ \A r \in flight' : r.key \notin Poison
    BY <1>1, <1>2, <1>4, ArrivesTyped
  <2> QED
    BY <2>1, <1>1, <1>2 DEF TypeOK
<1>7. /\ at'[j] = at[j] + 1 /\ published'[j] = published[j] + 1
      /\ \A i \in Jobs \ {j} : at'[i] = at[i] /\ published'[i] = published[i]
      /\ \A i \in Jobs : Attempt(i)' = Attempt(i) /\ Current(i)' = Current(i)
  BY <1>1, <1>2 DEF TypeOK, Attempt, Current
<1>8. Numbered'
  BY <1>1, <1>2, <1>7 DEF Numbered
<1>9. AtTheEnd'
  BY <1>1, <1>2, <1>3, <1>7 DEF AtTheEnd
<1>10. Behind'
  <2> SUFFICES ASSUME NEW i \in Jobs, pc[i] \in {"running", "returned"}
               PROVE  /\ at'[i] \in 1..Len(Current(i).records) + 1
                      /\ published'[i] = at'[i] - 1
                      /\ \A n \in 1..at'[i] - 1 : Key(Current(i).records[n]) \in Taken'
    BY <1>2, <1>7 DEF Behind, Key
  <2>1. /\ at[i] \in 1..Len(Current(i).records) + 1
        /\ published[i] = at[i] - 1
        /\ \A n \in 1..at[i] - 1 : Key(Current(i).records[n]) \in Taken
    BY <1>1 DEF Behind
  <2>2. CASE i = j
    <3>1. Len(Current(j).records) \in Nat
      BY <1>3
    <3>2. /\ at'[j] \in 1..Len(Current(j).records) + 1
          /\ published'[j] = at'[j] - 1
      BY <2>1, <2>2, <3>1, <1>3, <1>7
    <3>3. ASSUME NEW n \in 1..at'[j] - 1
          PROVE  Key(Current(j).records[n]) \in Taken'
      <4>1. CASE n = at[j]
        BY <4>1, <1>5 DEF Yielded
      <4>2. CASE n # at[j]
        <5>1. n \in 1..at[j] - 1
          BY <4>2, <2>1, <2>2, <3>1, <1>7
        <5> QED
          BY <5>1, <2>1, <2>2, <1>5
      <4> QED
        BY <4>1, <4>2
    <3> QED
      BY <2>2, <3>2, <3>3
  <2>3. CASE i # j
    BY <2>1, <2>3, <1>5, <1>7
  <2> QED
    BY <2>2, <2>3
<1>11. NoGaps'
  <2> HIDE DEF rec
  <2> QED
    BY <1>1, <1>2, <1>4, <1>5, OrderKeeps
<1> QED
  BY <1>6, <1>8, <1>9, <1>10, <1>11 DEF AdapterInv

LEMMA ReturnKeeps ==
  ASSUME AdapterInv, NEW j \in Jobs, Return(j)
  PROVE  AdapterInv'
<1>1. TypeOK /\ Numbered /\ Behind /\ AtTheEnd /\ NoGaps
  BY DEF AdapterInv
<1>2. /\ pc[j] = "running" /\ at[j] > Len(Current(j).records)
      /\ pc' = [pc EXCEPT ![j] = "returned"]
      /\ UNCHANGED <<feeds, at, published, last, binding, flight, broker, rows>>
  BY DEF Return
<1>3. Current(j).records \in Seq(RawRecord)
  BY <1>1, <1>2, CurrentIsFeed
<1>4. at[j] = Len(Current(j).records) + 1
  <2>1. Len(Current(j).records) \in Nat
    BY <1>3
  <2>2. at[j] \in 1..Len(Current(j).records) + 1
    BY <1>1, <1>2 DEF Behind
  <2> QED
    BY <2>1, <2>2, <1>2
<1>5. TypeOK'
  BY <1>1, <1>2 DEF TypeOK, InProcess
<1>6. /\ pc'[j] = "returned"
      /\ \A i \in Jobs \ {j} : pc'[i] = pc[i]
      /\ \A i \in Jobs : Attempt(i)' = Attempt(i) /\ Current(i)' = Current(i)
      /\ Taken' = Taken
  BY <1>1, <1>2 DEF TypeOK, Attempt, Current, Taken
<1>7. Numbered'
  BY <1>1, <1>2, <1>6 DEF Numbered
<1>8. AtTheEnd'
  BY <1>1, <1>2, <1>4, <1>6 DEF AtTheEnd
<1>9. Behind'
  BY <1>1, <1>2, <1>6 DEF Behind, Key
<1>10. NoGaps'
  BY <1>1, <1>2, <1>6, OrderKeeps
<1> QED
  BY <1>5, <1>7, <1>8, <1>9, <1>10 DEF AdapterInv

(* A step of the transport or the broker moves no job.                     *)
LEMMA JobsStand ==
  ASSUME AdapterInv, UNCHANGED jobVars, TypeOK', Taken \subseteq Taken',
         \A rec \in (rows \cup broker \cup flight)' : rec \in rows \cup broker \cup flight
  PROVE  AdapterInv'
<1>1. TypeOK /\ Numbered /\ Behind /\ AtTheEnd /\ NoGaps
  BY DEF AdapterInv
<1>2. UNCHANGED <<pc, feeds, at, published, last>>
  BY DEF jobVars
<1>3. \A i \in Jobs : Attempt(i)' = Attempt(i) /\ Current(i)' = Current(i)
  BY <1>2 DEF Attempt, Current
<1>4. Numbered' /\ AtTheEnd'
  BY <1>1, <1>2, <1>3 DEF Numbered, AtTheEnd
<1>5. Behind'
  BY <1>1, <1>2, <1>3 DEF Behind, Key
<1>6. NoGaps'
  BY <1>1, <1>2, OrderKeeps
<1> QED
  BY <1>4, <1>5, <1>6 DEF AdapterInv

LEMMA LandKeeps ==
  ASSUME AdapterInv, NEW rec \in flight, Land(rec)
  PROVE  AdapterInv'
<1>1. TypeOK
  BY DEF AdapterInv
<1>2. /\ flight' = flight \ {rec} /\ Arrives(rec)
      /\ UNCHANGED <<jobVars, binding>>
  BY DEF Land
<1>3. rec \in Row /\ (binding = "http" => rec.key \notin Poison)
  BY <1>1 DEF TypeOK
<1>4. TypeOK'
  <2>1. /\ flight' \cup broker' \subseteq Row
        /\ rows' \subseteq {row \in Row : row.key \notin Poison}
        /\ binding' \in Bindings
        /\ binding' = "http" =>
             broker' = {} /\ \A r \in flight' : r.key \notin Poison
    BY <1>1, <1>2, <1>3, ArrivesTyped
  <2> QED
    BY <2>1, <1>1, <1>2 DEF TypeOK, jobVars
<1>5. Taken \subseteq Taken' /\ rows' \cup broker' \subseteq rows \cup broker \cup {rec}
  BY <1>2, ArrivesTakes
<1> QED
  BY <1>2, <1>4, <1>5, JobsStand

(* A delivery moves a record from the broker's hands to Core's.            *)
LEMMA DeliverTakes ==
  ASSUME NEW rec \in broker, Deliver(rec)
  PROVE  Taken' = Taken
<1>1. /\ rows' = Upsert(rec)
      /\ broker' = broker \/ broker' = broker \ {rec}
  BY DEF Deliver
<1>2. /\ {row.key : row \in rows'} = StoredKeys \cup {rec.key}
      /\ rows \subseteq rows' /\ rows' \subseteq rows \cup broker
  BY <1>1 DEF Upsert, StoredKeys
<1>3. Taken' \subseteq Taken
  BY <1>1, <1>2 DEF Taken
<1>4. Taken \subseteq Taken'
  <2> SUFFICES ASSUME NEW r \in rows \cup broker
               PROVE  \E q \in rows' \cup broker' : q.key = r.key
    BY DEF Taken
  <2>1. CASE r = rec
    BY <2>1, <1>2
  <2>2. CASE r # rec
    BY <2>2, <1>1, <1>2
  <2> QED
    BY <2>1, <2>2
<1> QED
  BY <1>3, <1>4

LEMMA DeliverKeeps ==
  ASSUME AdapterInv, NEW rec \in broker, Deliver(rec)
  PROVE  AdapterInv'
<1>1. TypeOK
  BY DEF AdapterInv
<1>2. /\ rec.key \notin Poison /\ rows' = Upsert(rec)
      /\ broker' = broker \/ broker' = broker \ {rec}
      /\ UNCHANGED <<jobVars, binding, flight>>
  BY DEF Deliver
<1>3. rows' \subseteq rows \cup {rec} /\ rec \in Row
  BY <1>1, <1>2 DEF Upsert, TypeOK
<1>4. TypeOK'
  BY <1>1, <1>2, <1>3 DEF TypeOK, jobVars
<1> QED
  BY <1>2, <1>3, <1>4, DeliverTakes, JobsStand

LEMMA KillKeeps ==
  ASSUME AdapterInv, Kill
  PROVE  AdapterInv'
<1>1. TypeOK /\ Numbered /\ Behind /\ AtTheEnd /\ NoGaps
  BY DEF AdapterInv
<1>2. PICK sent \in SUBSET UNION {Sendable(j) : j \in {i \in Jobs : Yields(i)}} :
        flight' = flight \cup sent
  BY DEF Kill
<1>3. \A rec \in sent : /\ rec \in Row /\ InOrder(rec)
                        /\ binding = "http" => rec.key \notin Poison
  BY <1>1, <1>2, SentIsRow, SentInOrder
<1>4. /\ pc' = [j \in Jobs |-> IF pc[j] \in InProcess THEN "killed" ELSE pc[j]]
      /\ UNCHANGED <<feeds, at, published, last, binding, broker, rows>>
  BY DEF Kill
<1>5. TypeOK'
  BY <1>1, <1>2, <1>3, <1>4 DEF TypeOK
<1>6. /\ \A i \in Jobs : pc'[i] \in {"killed", pc[i]}
      /\ \A i \in Jobs : pc'[i] # pc[i] => pc[i] # "new"
      /\ \A i \in Jobs : Attempt(i)' = Attempt(i) /\ Current(i)' = Current(i)
      /\ Taken' = Taken
  BY <1>4 DEF Attempt, Current, InProcess, Taken
<1>7. Numbered' /\ AtTheEnd'
  BY <1>1, <1>4, <1>6 DEF Numbered, AtTheEnd
<1>8. Behind'
  BY <1>1, <1>4, <1>6 DEF Behind, Key
<1>9. NoGaps'
  BY <1>1, <1>2, <1>3, <1>4, <1>6, OrderKeeps
<1> QED
  BY <1>5, <1>7, <1>8, <1>9 DEF AdapterInv

-----------------------------------------------------------------------------
(* Every step of the system keeps the invariant.                           *)
LEMMA NextAdapterInv == AdapterInv /\ [Next]_adapterVars => AdapterInv'
<1> SUFFICES ASSUME AdapterInv, [Next]_adapterVars
             PROVE  AdapterInv'
  OBVIOUS
<1>1. ASSUME NEW j \in Jobs, NEW feed \in Feeds, Call(j, feed) PROVE AdapterInv'
  BY <1>1, CallKeeps
<1>2. ASSUME NEW j \in Jobs, Run(j) PROVE AdapterInv'
  <2>1. CASE Publish(j)
    BY <2>1, PublishKeeps
  <2>2. CASE Return(j)
    BY <2>2, ReturnKeeps
  <2>3. CASE FailValidation(j) \/ RaisePoison(j) \/ RaiseTransport(j) \/ RaiseExtraction(j)
    <3>1. PICK error \in Errors : Raise(j, error)
      BY <2>3 DEF FailValidation, RaisePoison, RaiseTransport, RaiseExtraction, Errors
    <3>2. /\ pc[j] = "running" /\ UNCHANGED <<binding, broker, rows>>
          /\ (flight' = flight \/ (Yields(j) /\ flight' = flight \cup Sendable(j)))
      <4>1. CASE FailValidation(j)
        BY <4>1 DEF FailValidation, Yields
      <4>2. CASE RaisePoison(j)
        BY <4>2 DEF RaisePoison, Yields
      <4>3. CASE RaiseTransport(j)
        BY <4>3 DEF RaiseTransport, Yields
      <4>4. CASE RaiseExtraction(j)
        BY <4>4 DEF RaiseExtraction
      <4> QED
        BY <2>3, <4>1, <4>2, <4>3, <4>4
    <3> QED
      BY <3>1, <3>2, RaiseKeeps
  <2> QED
    BY <1>2, <2>1, <2>2, <2>3 DEF Run
<1>3. ASSUME NEW rec \in flight, Land(rec) PROVE AdapterInv'
  BY <1>3, LandKeeps
<1>4. ASSUME NEW rec \in broker, Deliver(rec) PROVE AdapterInv'
  BY <1>4, DeliverKeeps
<1>5. CASE Kill
  BY <1>5, KillKeeps
<1>6. CASE UNCHANGED adapterVars
  <2>1. UNCHANGED <<pc, feeds, at, published, last, binding, flight, broker, rows>>
    BY <1>6 DEF adapterVars, jobVars
  <2>2. TypeOK' /\ Taken' = Taken
    BY <2>1 DEF AdapterInv, TypeOK, Taken
  <2> QED
    BY <2>1, <2>2, JobsStand DEF jobVars
<1> QED
  BY <1>1, <1>2, <1>3, <1>4, <1>5, <1>6 DEF Next

(* The inductive invariant holds throughout.                               *)
THEOREM AdapterInvariant == Spec => []AdapterInv
<1> QED
  BY InitAdapterInv, NextAdapterInv, PTL DEF Spec

(* Every variable of a job, its transport and Core's table keeps its type. *)
THEOREM AdapterTypeCorrect == Spec => []TypeOK
<1>1. AdapterInv => TypeOK
  BY DEF AdapterInv
<1> QED
  BY <1>1, AdapterInvariant, PTL

(* What run_adapter returns is true: the count is the length of the last   *)
(* extraction, and all of it is taken, at Core or in the broker's hands.   *)
THEOREM ReturnsAreTrue == Spec => []ReturnedMeansTaken
<1>1. ASSUME AdapterInv PROVE ReturnedMeansTaken
  <2>1. TypeOK /\ Numbered /\ Behind /\ AtTheEnd
    BY <1>1 DEF AdapterInv
  <2> SUFFICES ASSUME NEW j \in Jobs, pc[j] = "returned"
               PROVE  /\ published[j] = Len(Current(j).records)
                      /\ \A i \in DOMAIN Current(j).records :
                           Key(Current(j).records[i]) \in Taken
    BY DEF ReturnedMeansTaken
  <2>2. Current(j).records \in Seq(RawRecord)
    BY <2>1, CurrentIsFeed
  <2>3. Len(Current(j).records) \in Nat
        /\ DOMAIN Current(j).records = 1..Len(Current(j).records)
    BY <2>2
  <2>4. /\ at[j] = Len(Current(j).records) + 1
        /\ published[j] = at[j] - 1
        /\ \A i \in 1..at[j] - 1 : Key(Current(j).records[i]) \in Taken
    BY <2>1 DEF Behind, AtTheEnd
  <2> QED
    BY <2>3, <2>4
<1> QED
  BY <1>1, AdapterInvariant, PTL

(* No record overtakes one its attempt yielded before it, whatever is      *)
(* retried, lands late or is delivered twice.                              *)
THEOREM RecordsKeepOrder == Spec => []NoGaps
<1>1. AdapterInv => NoGaps
  BY DEF AdapterInv
<1> QED
  BY <1>1, AdapterInvariant, PTL

-----------------------------------------------------------------------------
(* A row is added for a key that nobody holds, or out of the broker.       *)
LEMMA RowsAdded ==
  ASSUME AdapterInv, [Next]_adapterVars, NEW row \in rows' \ rows
  PROVE  row.key \notin Taken \/ row \in broker
<1>1. ASSUME NEW rec, Arrives(rec) PROVE row.key \notin Taken
  BY <1>1 DEF Arrives, Upsert, StoredKeys, Taken, AdapterInv, TypeOK
<1>2. ASSUME NEW rec \in broker, Deliver(rec) PROVE row \in broker
  BY <1>2 DEF Deliver, Upsert
<1>3. \/ \E j \in Jobs : Publish(j)
      \/ \E rec \in flight : Land(rec)
      \/ \E rec \in broker : Deliver(rec)
  BY DEF Next, Run, Call, FailValidation, RaisePoison, RaiseTransport,
     RaiseExtraction, Return, Kill, adapterVars
<1> QED
  BY <1>1, <1>2, <1>3 DEF Publish, Land

(* Once a job has returned, no step but a delivery of the broker's adds a  *)
(* row for its records.                                                    *)
THEOREM ReturnsAreFinal == Spec => RerunAddsNothing
<1> DEFINE Quiet == \A j \in Jobs : pc[j] = "returned" =>
                      \A row \in rows' \ rows : \A i \in DOMAIN Current(j).records :
                        row.key = Key(Current(j).records[i]) => row \in broker
<1>1. ASSUME AdapterInv, ReturnedMeansTaken, [Next]_adapterVars PROVE Quiet
  BY <1>1, RowsAdded DEF ReturnedMeansTaken
<1>2. AdapterInv /\ ReturnedMeansTaken /\ [Next]_adapterVars => [Quiet]_adapterVars
  BY <1>1
<1>3. Spec => []AdapterInv /\ []ReturnedMeansTaken
  BY AdapterInvariant, ReturnsAreTrue
<1>4. Spec => [][Quiet]_adapterVars
  BY <1>2, <1>3, PTL DEF Spec
<1> QED
  BY <1>4 DEF RerunAddsNothing

-----------------------------------------------------------------------------
(* Every step of AdapterRun is a step of the contract or a stutter, under   *)
(* the mapping AttemptState and OfferedBy.                                 *)
Tries == Jobs \X (1..Attempts)
TryState(a) == AttemptState(a[1], a[2])
TryOffered(a) == OfferedBy(a[1], a[2])

(* A record that is still under way was sent by an attempt that has failed *)
(* since, so the contract lets it land.                                    *)
FlightIsOffered ==
  \A rec \in flight :
    \E a \in Tries : TryState(a) = "failed" /\ rec.key \in TryOffered(a)

-----------------------------------------------------------------------------
(* The steps of the contract in terms of the mapping.                      *)
LEMMA StepStutters ==
  ASSUME \A a \in Tries : TryState(a)' = TryState(a) /\ TryOffered(a)' = TryOffered(a),
         Taken' = Taken
  PROVE  UNCHANGED Contract!contractVars
<1>1. UNCHANGED [a \in Tries |-> TryState(a)]
  OBVIOUS
<1>2. UNCHANGED [a \in Tries |-> TryOffered(a)]
  OBVIOUS
<1> QED
  BY <1>1, <1>2 DEF Contract!contractVars, Tries, TryState, TryOffered

LEMMA StepStores ==
  ASSUME \A a \in Tries : TryState(a)' = TryState(a) /\ TryOffered(a)' = TryOffered(a),
         NEW a \in Tries, NEW k \in Keys, TryState(a) \in {"running", "failed"},
         k \in TryOffered(a), Taken' = Taken \cup {k}
  PROVE  Contract!Next
<1>1. UNCHANGED [b \in Tries |-> TryState(b)]
  OBVIOUS
<1>2. UNCHANGED [b \in Tries |-> TryOffered(b)]
  OBVIOUS
<1>3. Contract!Store(a, k)
  BY <1>1, <1>2 DEF Contract!Store, Tries, TryState, TryOffered
<1> QED
  BY <1>3 DEF Contract!Next, Tries

LEMMA StepFails ==
  ASSUME NEW as \in SUBSET Tries, \A a \in as : TryState(a) = "running",
         \A a \in Tries : TryState(a)' = IF a \in as THEN "failed" ELSE TryState(a),
         \A a \in Tries : TryOffered(a)' = TryOffered(a),
         Taken' = Taken
  PROVE  Contract!Next
<1>1. [a \in Tries |-> TryState(a)]'
        = [a \in Tries |-> IF a \in as THEN "failed"
                           ELSE [b \in Tries |-> TryState(b)][a]]
  OBVIOUS
<1>2. UNCHANGED [a \in Tries |-> TryOffered(a)]
  OBVIOUS
<1>3. \A a \in as : [b \in Tries |-> TryState(b)][a] = "running"
  OBVIOUS
<1>4. Contract!Fail(as)
  BY <1>1, <1>2, <1>3 DEF Contract!Fail, Tries, TryState, TryOffered
<1> QED
  BY <1>4 DEF Contract!Next, Tries

LEMMA StepBegins ==
  ASSUME NEW a \in Tries, TryState(a) = "idle", TryState(a)' = "running",
         TryOffered(a)' \subseteq Keys,
         \A b \in Tries \ {a} : TryState(b)' = TryState(b) /\ TryOffered(b)' = TryOffered(b),
         Taken' = Taken
  PROVE  Contract!Next
<1>1. [b \in Tries |-> TryState(b)]'
        = [[b \in Tries |-> TryState(b)] EXCEPT ![a] = "running"]
  OBVIOUS
<1>2. [b \in Tries |-> TryOffered(b)]'
        = [[b \in Tries |-> TryOffered(b)] EXCEPT ![a] = TryOffered(a)']
  OBVIOUS
<1>3. Contract!Begin(a, TryOffered(a)')
  BY <1>1, <1>2 DEF Contract!Begin, Tries, TryState, TryOffered
<1> QED
  BY <1>3 DEF Contract!Next, Tries

LEMMA StepSucceeds ==
  ASSUME NEW a \in Tries, TryState(a) = "running", TryState(a)' = "succeeded",
         TryOffered(a) \subseteq Taken,
         \A b \in Tries \ {a} : TryState(b)' = TryState(b),
         \A b \in Tries : TryOffered(b)' = TryOffered(b),
         Taken' = Taken
  PROVE  Contract!Next
<1>1. [b \in Tries |-> TryState(b)]'
        = [[b \in Tries |-> TryState(b)] EXCEPT ![a] = "succeeded"]
  OBVIOUS
<1>2. UNCHANGED [b \in Tries |-> TryOffered(b)]
  OBVIOUS
<1>3. Contract!Succeed(a)
  BY <1>1, <1>2 DEF Contract!Succeed, Tries, TryState, TryOffered
<1> QED
  BY <1>3 DEF Contract!Next, Tries

-----------------------------------------------------------------------------
(* The attempt a started job is in is one of its tries.                    *)
LEMMA CurrentTry ==
  ASSUME AdapterInv, NEW j \in Jobs, pc[j] # "new"
  PROVE  /\ <<j, Attempt(j)>> \in Tries
         /\ TryState(<<j, Attempt(j)>>) =
              IF pc[j] = "running" THEN "running"
              ELSE IF pc[j] = "returned" THEN "succeeded" ELSE "failed"
         /\ TryOffered(<<j, Attempt(j)>>) =
              {Key(Current(j).records[i]) : i \in DOMAIN Current(j).records}
<1>1. Attempt(j) \in 1..Attempts /\ Attempts \in Nat
  BY AdapterAssumption DEF AdapterInv, Numbered
<1> QED
  BY <1>1 DEF Tries, TryState, TryOffered, AttemptState, OfferedBy, Current

(* What a step does to the tries of the jobs it leaves alone.              *)
LEMMA OtherTries ==
  ASSUME AdapterInv, NEW a \in Tries, feeds'[a[1]] = feeds[a[1]], pc'[a[1]] = pc[a[1]]
  PROVE  TryState(a)' = TryState(a) /\ TryOffered(a)' = TryOffered(a)
BY DEF TryState, TryOffered, AttemptState, OfferedBy, Attempt, Key

(* An attempt that is over stays as it is, whatever its job does next.     *)
LEMMA PastTries ==
  ASSUME AdapterInv, NEW a \in Tries, feeds' = feeds, a[2] # Attempt(a[1])
  PROVE  TryState(a)' = TryState(a) /\ TryOffered(a)' = TryOffered(a)
<1>1. a[1] \in Jobs /\ a[2] \in 1..Attempts /\ Attempts \in Nat
  BY AdapterAssumption DEF Tries
<1>2. Attempt(a[1]) \in Nat
  BY <1>1 DEF AdapterInv, Numbered
<1>3. a[2] < Attempt(a[1]) \/ a[2] > Attempt(a[1])
  BY <1>1, <1>2
<1> QED
  BY <1>1, <1>2, <1>3 DEF TryState, TryOffered, AttemptState, OfferedBy, Attempt, Key

LEMMA SameOffers ==
  ASSUME feeds' = feeds
  PROVE  \A a \in Tries : TryOffered(a)' = TryOffered(a)
BY DEF TryOffered, OfferedBy, Attempt, Key

(* Sendable records are offered by the attempt that yields them.           *)
LEMMA SentIsOffered ==
  ASSUME AdapterInv, NEW j \in Jobs, Yields(j), NEW rec \in Sendable(j)
  PROVE  rec.key \in TryOffered(<<j, Attempt(j)>>) /\ rec.key \in Keys
<1>1. TypeOK /\ Numbered
  BY DEF AdapterInv
<1>2. pc[j] # "new"
  BY DEF Yields
<1>3. rec \in Row
  BY <1>1, SentIsRow
<1>4. rec.key \in Keys
  BY <1>3 DEF Row
<1>5. rec = Stamped(Yielded(j))
  BY DEF Sendable
<1>6. Current(j).records \in Seq(RawRecord)
  BY <1>1, <1>2, CurrentIsFeed
<1>7. at[j] \in DOMAIN Current(j).records
  BY <1>1, <1>6 DEF Yields, TypeOK
<1>8. rec.key = Key(Current(j).records[at[j]])
  BY <1>5 DEF Stamped, Yielded
<1> QED
  BY <1>2, <1>3, <1>4, <1>7, <1>8, CurrentTry

-----------------------------------------------------------------------------
(* The tries after an exception: the current one has failed.               *)
LEMMA RaiseTries ==
  ASSUME AdapterInv, NEW j \in Jobs, NEW error, pc[j] = "running", Raise(j, error)
  PROVE  \A a \in Tries : TryState(a)' = IF a = <<j, Attempt(j)>> THEN "failed"
                                         ELSE TryState(a)
<1>1. TypeOK
  BY DEF AdapterInv
<1>2. /\ feeds' = feeds
      /\ pc'[j] \in {"sleeping", "raised"}
      /\ \A i \in Jobs \ {j} : pc'[i] = pc[i]
  BY <1>1 DEF Raise, TypeOK
<1> SUFFICES ASSUME NEW a \in Tries
             PROVE  TryState(a)' = IF a = <<j, Attempt(j)>> THEN "failed" ELSE TryState(a)
  OBVIOUS
<1>3. a[1] \in Jobs /\ a = <<a[1], a[2]>>
  BY DEF Tries
<1>4. CASE a[1] # j
  <2>1. pc'[a[1]] = pc[a[1]] /\ feeds'[a[1]] = feeds[a[1]] /\ a # <<j, Attempt(j)>>
    BY <1>2, <1>3, <1>4
  <2> QED
    BY <2>1, OtherTries
<1>5. CASE a[1] = j /\ a[2] # Attempt(j)
  BY <1>2, <1>5, PastTries
<1>6. CASE a = <<j, Attempt(j)>>
  <2>1. Attempt(j) \in Nat /\ Attempt(j)' = Attempt(j)
    BY <1>2, AdapterAssumption DEF AdapterInv, Numbered, Attempt
  <2> QED
    BY <1>2, <1>6, <2>1 DEF TryState, AttemptState
<1> QED
  BY <1>3, <1>4, <1>5, <1>6

LEMMA RaiseFailsTry ==
  ASSUME AdapterInv, NEW j \in Jobs, NEW error, pc[j] = "running", Raise(j, error),
         UNCHANGED <<broker, rows>>
  PROVE  Contract!Next
<1> DEFINE as == {<<j, Attempt(j)>>}
<1>1. as \in SUBSET Tries /\ \A a \in as : TryState(a) = "running"
  BY CurrentTry
<1>2. \A a \in Tries : TryState(a)' = IF a \in as THEN "failed" ELSE TryState(a)
  BY RaiseTries
<1>3. \A a \in Tries : TryOffered(a)' = TryOffered(a)
  BY SameOffers DEF Raise
<1>4. Taken' = Taken
  BY DEF Taken
<1> HIDE DEF as
<1> QED
  BY <1>1, <1>2, <1>3, <1>4, StepFails

LEMMA PublishStores ==
  ASSUME AdapterInv, NEW j \in Jobs, Publish(j)
  PROVE  Contract!Next
<1>1. /\ Yields(j) /\ pc[j] = "running" /\ UNCHANGED <<pc, feeds>>
      /\ Arrives(Stamped(Yielded(j)))
  BY DEF Publish, Yields
<1>2. Stamped(Yielded(j)) \in Sendable(j)
  BY DEF Publish, Sendable
<1> DEFINE k == Stamped(Yielded(j)).key
           a == <<j, Attempt(j)>>
<1>3. k \in TryOffered(a) /\ k \in Keys
  BY <1>1, <1>2, SentIsOffered
<1>4. a \in Tries /\ TryState(a) \in {"running", "failed"}
  BY <1>1, CurrentTry
<1>5. Taken' = Taken \cup {k}
  BY <1>1, ArrivesTakes
<1>6. \A b \in Tries : TryState(b)' = TryState(b) /\ TryOffered(b)' = TryOffered(b)
  BY <1>1, OtherTries
<1> HIDE DEF k, a
<1> QED
  BY <1>3, <1>4, <1>5, <1>6, StepStores

LEMMA LandStores ==
  ASSUME AdapterInv, FlightIsOffered, NEW rec \in flight, Land(rec)
  PROVE  Contract!Next
<1>1. PICK a \in Tries : TryState(a) = "failed" /\ rec.key \in TryOffered(a)
  BY DEF FlightIsOffered
<1> DEFINE k == rec.key
<1>2. k \in Keys /\ k \in TryOffered(a)
  BY <1>1 DEF AdapterInv, TypeOK, Row
<1>3. UNCHANGED <<pc, feeds>> /\ Arrives(rec)
  BY DEF Land, jobVars
<1>4. Taken' = Taken \cup {k}
  BY <1>3, ArrivesTakes
<1>5. \A b \in Tries : TryState(b)' = TryState(b) /\ TryOffered(b)' = TryOffered(b)
  BY <1>3, OtherTries
<1>6. TryState(a) \in {"running", "failed"}
  BY <1>1
<1> HIDE DEF k
<1> QED
  BY <1>2, <1>4, <1>5, <1>6, StepStores

(* A delivery changes nothing the contract sees.                           *)
LEMMA DeliverStutters ==
  ASSUME AdapterInv, NEW rec \in broker, Deliver(rec)
  PROVE  UNCHANGED Contract!contractVars
<1>1. UNCHANGED <<pc, feeds>>
  BY DEF Deliver, jobVars
<1>2. \A b \in Tries : TryState(b)' = TryState(b) /\ TryOffered(b)' = TryOffered(b)
  BY <1>1, OtherTries
<1>3. Taken' = Taken
  BY DeliverTakes
<1> QED
  BY <1>2, <1>3, StepStutters

LEMMA ReturnSucceeds ==
  ASSUME AdapterInv, NEW j \in Jobs, Return(j)
  PROVE  Contract!Next
<1>1. TypeOK /\ Numbered /\ Behind
  BY DEF AdapterInv
<1>2. /\ pc[j] = "running" /\ at[j] > Len(Current(j).records)
      /\ feeds' = feeds /\ UNCHANGED <<broker, rows>>
      /\ pc'[j] = "returned" /\ \A i \in Jobs \ {j} : pc'[i] = pc[i]
  BY <1>1 DEF Return, TypeOK
<1>3. PICK a \in Tries : a = <<j, Attempt(j)>>
  BY <1>2, CurrentTry
<1>4. Attempt(j) \in Nat /\ Attempt(j)' = Attempt(j)
  BY <1>1, <1>2, AdapterAssumption DEF Numbered, Attempt
<1>5. TryState(a)' = "succeeded"
  BY <1>2, <1>3, <1>4 DEF TryState, AttemptState
<1>6. TryOffered(a) \subseteq Taken
  <2>1. Current(j).records \in Seq(RawRecord)
    BY <1>1, <1>2, CurrentIsFeed
  <2>2. \A i \in DOMAIN Current(j).records : i \in 1..at[j] - 1
    BY <1>1, <1>2, <2>1 DEF TypeOK
  <2>3. \A i \in 1..at[j] - 1 : Key(Current(j).records[i]) \in Taken
    BY <1>1, <1>2 DEF Behind
  <2> QED
    BY <1>2, <1>3, <2>2, <2>3, CurrentTry
<1>7. \A b \in Tries : TryOffered(b)' = TryOffered(b)
  BY <1>2, SameOffers
<1>8. ASSUME NEW b \in Tries \ {a} PROVE TryState(b)' = TryState(b)
  <2>1. b[1] \in Jobs /\ b = <<b[1], b[2]>>
    BY DEF Tries
  <2>2. CASE b[1] # j
    BY <1>2, <2>1, <2>2, OtherTries
  <2>3. CASE b[1] = j
    BY <1>2, <1>3, <2>1, <2>3, PastTries
  <2> QED
    BY <2>2, <2>3
<1>9. Taken' = Taken
  BY <1>2 DEF Taken
<1>10. TryState(a) = "running"
  BY <1>2, <1>3, CurrentTry
<1> QED
  BY <1>5, <1>6, <1>7, <1>8, <1>9, <1>10, StepSucceeds

(* A new attempt begins a run, and leaves the earlier ones as they were.   *)
LEMMA CallBegins ==
  ASSUME AdapterInv, AdapterInv', NEW j \in Jobs, NEW feed \in Feeds, Call(j, feed)
  PROVE  Contract!Next
<1>1. TypeOK /\ Numbered
  BY DEF AdapterInv
<1>2. /\ pc[j] \in {"new", "sleeping"} /\ UNCHANGED <<broker, rows>>
      /\ pc'[j] = "running" /\ \A i \in Jobs \ {j} : pc'[i] = pc[i]
      /\ feeds'[j] = Append(feeds[j], feed)
      /\ \A i \in Jobs \ {j} : feeds'[i] = feeds[i]
  BY <1>1 DEF Call, TypeOK
<1>3. feeds[j] \in Seq(Feeds) /\ Attempts \in Nat
  BY <1>1, AdapterAssumption DEF TypeOK
<1>4. Attempt(j)' = Attempt(j) + 1 /\ Attempt(j) \in Nat
  BY <1>2, <1>3 DEF Attempt
<1>5. Attempt(j)' \in 1..Attempts
  <2>1. Numbered'
    BY DEF AdapterInv
  <2> QED
    BY <1>2, <2>1 DEF Numbered
<1>6. PICK n \in 1..Attempts : n = Attempt(j) + 1
  BY <1>4, <1>5
<1>7. PICK a \in Tries : a = <<j, n>>
  BY DEF Tries
<1>8. TryState(a) = "idle" /\ TryState(a)' = "running"
  BY <1>2, <1>4, <1>6, <1>7 DEF TryState, AttemptState
<1>9. TryOffered(a)' \subseteq Keys
  <2>1. feeds'[j][n] = feed
    BY <1>2, <1>3, <1>6 DEF Attempt
  <2>2. feed.records \in Seq(RawRecord)
    BY AdapterAssumption DEF Feed
  <2>3. ASSUME NEW i \in DOMAIN feed.records
        PROVE  Key(feed.records[i]) \in Keys
    <3>1. feed.records[i] \in RawRecord
      BY <2>2
    <3>2. Digest \in [Bytes -> Keys]
      BY AdapterAssumption
    <3> QED
      BY <3>1, <3>2 DEF RawRecord, Key
  <2>4. TryOffered(a)' = {Key(feed.records[i]) : i \in DOMAIN feed.records}
    BY <1>4, <1>6, <1>7, <2>1 DEF TryOffered, OfferedBy, Key
  <2> QED
    BY <2>3, <2>4
<1>10. ASSUME NEW b \in Tries \ {a}
       PROVE  TryState(b)' = TryState(b) /\ TryOffered(b)' = TryOffered(b)
  <2>1. b[1] \in Jobs /\ b = <<b[1], b[2]>> /\ b[2] \in 1..Attempts
    BY DEF Tries
  <2>2. CASE b[1] # j
    BY <1>2, <2>1, <2>2, OtherTries
  <2>3. CASE b[1] = j
    <3>1. b[2] # n /\ b[2] \in Nat /\ b[2] >= 1
      BY <1>3, <1>7, <2>1, <2>3
    <3>2. b[2] <= Attempt(j) \/ b[2] > Attempt(j) + 1
      BY <1>4, <1>6, <3>1
    <3>3. CASE b[2] > Attempt(j) + 1
      <4>1. b[2] > Attempt(j) /\ b[2] > Attempt(j)'
        BY <1>4, <3>1, <3>3
      <4> QED
        BY <2>3, <4>1 DEF TryState, AttemptState, TryOffered, OfferedBy
    <3>4. CASE b[2] <= Attempt(j)
      <4>1. ~(b[2] > Attempt(j)) /\ ~(b[2] > Attempt(j)') /\ b[2] < Attempt(j)'
        BY <1>4, <3>1, <3>4
      <4>2. feeds'[j][b[2]] = feeds[j][b[2]]
        BY <1>2, <1>3, <3>1, <3>4 DEF Attempt
      <4>3. TryOffered(b)' = TryOffered(b)
        BY <2>3, <4>1, <4>2 DEF TryOffered, OfferedBy, Key
      <4>4. pc[j] = "sleeping"
        BY <1>1, <1>2, <1>4, <3>1, <3>4 DEF Numbered
      <4>5. TryState(b) = "failed" /\ TryState(b)' = "failed"
        BY <2>3, <4>1, <4>4 DEF TryState, AttemptState
      <4> QED
        BY <4>3, <4>5
    <3> QED
      BY <3>2, <3>3, <3>4
  <2> QED
    BY <2>2, <2>3
<1>11. Taken' = Taken
  BY <1>2 DEF Taken
<1> QED
  BY <1>8, <1>9, <1>10, <1>11, StepBegins

(* The process dies: every attempt under way fails at once.                *)
LEMMA KillTries ==
  ASSUME AdapterInv, Kill, NEW a \in Tries
  PROVE  TryState(a)' = IF TryState(a) = "running" THEN "failed" ELSE TryState(a)
<1>1. /\ feeds' = feeds
      /\ \A i \in Jobs : pc'[i] = IF pc[i] \in InProcess THEN "killed" ELSE pc[i]
  BY DEF Kill
<1>2. a[1] \in Jobs
  BY DEF Tries
<1>3. Attempt(a[1])' = Attempt(a[1])
  BY <1>1 DEF Attempt
<1> QED
  BY <1>1, <1>2, <1>3 DEF TryState, AttemptState, InProcess

LEMMA KillFails ==
  ASSUME AdapterInv, Kill
  PROVE  Contract!Next
<1> DEFINE as == {a \in Tries : TryState(a) = "running"}
<1>1. as \in SUBSET Tries /\ \A a \in as : TryState(a) = "running"
  OBVIOUS
<1>2. \A a \in Tries : TryState(a)' = IF a \in as THEN "failed" ELSE TryState(a)
  BY KillTries
<1>3. \A a \in Tries : TryOffered(a)' = TryOffered(a)
  BY SameOffers DEF Kill
<1>4. Taken' = Taken
  BY DEF Kill, Taken
<1> HIDE DEF as
<1> QED
  BY <1>1, <1>2, <1>3, <1>4, StepFails

-----------------------------------------------------------------------------
(* A failed attempt stays failed and keeps what it offered, whatever its   *)
(* job does next.                                                          *)
LEMMA FailedStaysFailed ==
  ASSUME AdapterInv, [Next]_adapterVars, NEW a \in Tries, TryState(a) = "failed"
  PROVE  TryState(a)' = "failed" /\ TryOffered(a)' = TryOffered(a)
<1>1. /\ TypeOK /\ Numbered /\ a[1] \in Jobs /\ a[2] \in 1..Attempts
      /\ Attempts \in Nat
  BY AdapterAssumption DEF AdapterInv, Tries
<1> DEFINE j == a[1]
<1>2. Attempt(j) \in Nat /\ feeds[j] \in Seq(Feeds)
  BY <1>1 DEF Numbered, TypeOK
<1>3. /\ a[2] <= Attempt(j)
      /\ a[2] = Attempt(j) => pc[j] \notin {"new", "running", "returned"}
  <2>1. ~(a[2] > Attempt(j))
    BY DEF TryState, AttemptState
  <2>2. a[2] = Attempt(j) => pc[j] \notin {"running", "returned"}
    BY <1>1, <1>2 DEF TryState, AttemptState
  <2>3. pc[j] = "new" => Attempt(j) = 0
    BY <1>1 DEF Numbered
  <2> QED
    BY <1>1, <1>2, <2>1, <2>2, <2>3
<1>4. CASE feeds'[j] = feeds[j] /\ pc'[j] = pc[j]
  BY <1>4, OtherTries
<1>5. CASE \E feed \in Feeds : Call(j, feed)
  <2>1. PICK feed \in Feeds : Call(j, feed)
    BY <1>5
  <2>2. feeds'[j] = Append(feeds[j], feed)
    BY <1>1, <2>1 DEF Call, TypeOK
  <2>3. Attempt(j)' = Attempt(j) + 1 /\ feeds'[j][a[2]] = feeds[j][a[2]]
    BY <1>1, <1>2, <1>3, <2>2 DEF Attempt
  <2>4. ~(a[2] > Attempt(j)) /\ ~(a[2] > Attempt(j)') /\ a[2] < Attempt(j)'
    BY <1>1, <1>2, <1>3, <2>3
  <2> QED
    BY <2>3, <2>4 DEF TryState, AttemptState, TryOffered, OfferedBy, Key
<1>6. CASE feeds' = feeds /\ pc'[j] # pc[j] /\ (pc[j] = "running" \/ pc'[j] = "killed")
  <2>1. Attempt(j)' = Attempt(j) /\ TryOffered(a)' = TryOffered(a)
    BY <1>6, SameOffers DEF Attempt
  <2>2. CASE a[2] # Attempt(j)
    BY <1>6, <2>2, PastTries
  <2>3. CASE a[2] = Attempt(j)
    <3>1. pc'[j] = "killed"
      BY <1>3, <1>6, <2>3
    <3> QED
      BY <1>1, <1>2, <2>1, <2>3, <3>1 DEF TryState, AttemptState
  <2> QED
    BY <2>2, <2>3
<1>7. ASSUME NEW i \in Jobs, Run(i)
      PROVE  feeds' = feeds /\ (pc'[j] = pc[j] \/ pc[j] = "running")
  <2>1. pc[i] = "running" /\ feeds' = feeds /\ \A n \in Jobs \ {i} : pc'[n] = pc[n]
    BY <1>1, <1>7 DEF Run, FailValidation, Publish, RaisePoison, RaiseTransport,
       RaiseExtraction, Return, Raise, Yields, TypeOK
  <2> QED
    BY <1>1, <2>1
<1>8. ASSUME NEW i \in Jobs, NEW feed \in Feeds, Call(i, feed), i # j
      PROVE  feeds'[j] = feeds[j] /\ pc'[j] = pc[j]
  BY <1>1, <1>8 DEF Call, TypeOK
<1>9. ASSUME \/ \E rec \in flight : Land(rec)
             \/ \E rec \in broker : Deliver(rec)
      PROVE  feeds'[j] = feeds[j] /\ pc'[j] = pc[j]
  BY <1>9 DEF Land, Deliver, jobVars
<1>10. CASE Kill
  <2>1. feeds' = feeds /\ (pc'[j] = pc[j] \/ pc'[j] = "killed")
    BY <1>1, <1>10 DEF Kill
  <2> QED
    BY <1>4, <1>6, <2>1
<1>11. CASE UNCHANGED adapterVars
  BY <1>4, <1>11 DEF adapterVars, jobVars
<1> HIDE DEF j
<1> QED
  BY <1>4, <1>5, <1>6, <1>7, <1>8, <1>9, <1>10, <1>11 DEF Next

(* Whatever has been sent was sent by an attempt that fails in that step.  *)
LEMMA FlightKeeps ==
  ASSUME AdapterInv, FlightIsOffered, [Next]_adapterVars
  PROVE  FlightIsOffered'
<1> SUFFICES ASSUME NEW rec \in flight'
             PROVE  \E a \in Tries : TryState(a)' = "failed" /\ rec.key \in TryOffered(a)'
  BY DEF FlightIsOffered, Tries
<1>1. CASE rec \in flight
  BY <1>1, FailedStaysFailed DEF FlightIsOffered
<1>2. ASSUME NEW j \in Jobs, Yields(j), rec \in Sendable(j), feeds' = feeds,
             TryState(<<j, Attempt(j)>>) = "running" =>
               \A a \in Tries : a = <<j, Attempt(j)>> => TryState(a)' = "failed"
      PROVE  \E a \in Tries : TryState(a)' = "failed" /\ rec.key \in TryOffered(a)'
  <2>1. pc[j] = "running"
    BY <1>2 DEF Yields
  <2>2. PICK a \in Tries : a = <<j, Attempt(j)>>
    BY <2>1, CurrentTry
  <2>3. TryState(a)' = "failed"
    BY <1>2, <2>1, <2>2, CurrentTry
  <2>4. rec.key \in TryOffered(a) /\ rec.key \in Keys
    BY <1>2, <2>2, SentIsOffered
  <2>5. TryOffered(a)' = TryOffered(a)
    BY <1>2, SameOffers
  <2> QED
    BY <2>3, <2>4, <2>5
<1>3. ASSUME NEW j \in Jobs, RaiseTransport(j), rec \notin flight
      PROVE  \E a \in Tries : TryState(a)' = "failed" /\ rec.key \in TryOffered(a)'
  <2>1. /\ Yields(j) /\ pc[j] = "running" /\ rec \in Sendable(j)
        /\ Raise(j, "transport") /\ feeds' = feeds
    BY <1>3 DEF RaiseTransport, Yields, Raise
  <2>2. \A a \in Tries : a = <<j, Attempt(j)>> => TryState(a)' = "failed"
    BY <2>1, RaiseTries
  <2> QED
    BY <2>1, <2>2, <1>2
<1>4. ASSUME Kill, rec \notin flight
      PROVE  \E a \in Tries : TryState(a)' = "failed" /\ rec.key \in TryOffered(a)'
  <2>1. PICK j \in Jobs : Yields(j) /\ rec \in Sendable(j)
    BY <1>4 DEF Kill
  <2>2. feeds' = feeds
    BY <1>4 DEF Kill
  <2>3. TryState(<<j, Attempt(j)>>) = "running" =>
          \A a \in Tries : a = <<j, Attempt(j)>> => TryState(a)' = "failed"
    BY <1>4, KillTries
  <2> QED
    BY <2>1, <2>2, <2>3, <1>2
<1>5. \/ rec \in flight \/ Kill \/ \E j \in Jobs : RaiseTransport(j)
  BY DEF Next, Run, Call, FailValidation, Publish, RaisePoison, RaiseExtraction,
     Return, Land, Deliver, adapterVars
<1> QED
  BY <1>1, <1>3, <1>4, <1>5

LEMMA AdapterContractInit ==
  Init => FlightIsOffered /\ Contract!Init
<1> SUFFICES ASSUME Init PROVE FlightIsOffered /\ Contract!Init
  OBVIOUS
<1>1. FlightIsOffered
  BY DEF Init, FlightIsOffered
<1>2. \A j \in Jobs, n \in 1..Attempts : n > Attempt(j)
  BY AdapterAssumption DEF Init, Attempt
<1>3. \A a \in Jobs \X (1..Attempts) : /\ AttemptState(a[1], a[2]) = "idle"
                                      /\ OfferedBy(a[1], a[2]) = {}
  BY <1>2 DEF AttemptState, OfferedBy
<1>4. Taken = {}
  BY DEF Init, Taken
<1> QED
  BY <1>1, <1>3, <1>4 DEF Contract!Init

LEMMA AdapterContractStep ==
  ASSUME AdapterInv, AdapterInv', FlightIsOffered, [Next]_adapterVars
  PROVE  [Contract!Next]_Contract!contractVars
<1>1. ASSUME NEW j \in Jobs, NEW feed \in Feeds, Call(j, feed)
      PROVE  Contract!Next
  BY <1>1, CallBegins
<1>2. ASSUME NEW j \in Jobs, Run(j)
      PROVE  Contract!Next
  <2>1. CASE Publish(j)
    BY <2>1, PublishStores
  <2>2. CASE Return(j)
    BY <2>2, ReturnSucceeds
  <2>3. CASE FailValidation(j) \/ RaisePoison(j) \/ RaiseTransport(j) \/ RaiseExtraction(j)
    <3>1. PICK error \in Errors : Raise(j, error)
      BY <2>3 DEF FailValidation, RaisePoison, RaiseTransport, RaiseExtraction, Errors
    <3>2. pc[j] = "running" /\ UNCHANGED <<broker, rows>>
      BY <2>3 DEF FailValidation, RaisePoison, RaiseTransport, RaiseExtraction, Yields
    <3> QED
      BY <3>1, <3>2, RaiseFailsTry
  <2> QED
    BY <1>2, <2>1, <2>2, <2>3 DEF Run
<1>3. ASSUME NEW rec \in flight, Land(rec)
      PROVE  Contract!Next
  BY <1>3, LandStores
<1>4. ASSUME NEW rec \in broker, Deliver(rec)
      PROVE  UNCHANGED Contract!contractVars
  BY <1>4, DeliverStutters
<1>5. CASE Kill
  BY <1>5, KillFails
<1>6. CASE UNCHANGED adapterVars
  <2>1. \A a \in Tries : TryState(a)' = TryState(a) /\ TryOffered(a)' = TryOffered(a)
    BY <1>6, OtherTries DEF adapterVars, jobVars
  <2>2. Taken' = Taken
    BY <1>6 DEF adapterVars, Taken
  <2> QED
    BY <2>1, <2>2, StepStutters
<1> QED
  BY <1>1, <1>2, <1>3, <1>4, <1>5, <1>6 DEF Next

(* A retried adapter job keeps the connectors' contract, attempt by        *)
(* attempt, for custody: over HTTP for rows, over Pub/Sub for what Core or  *)
(* the broker has, whatever its source, the transport and Core do.         *)
THEOREM AdapterKeepsCustody == Spec => AttemptsKeepCustody
<1>1. Init => FlightIsOffered /\ Contract!Init
  BY AdapterContractInit
<1>2. AdapterInv /\ FlightIsOffered /\ [Next]_adapterVars => FlightIsOffered'
  BY FlightKeeps
<1>3. AdapterInv /\ AdapterInv' /\ FlightIsOffered /\ [Next]_adapterVars
        => [Contract!Next]_Contract!contractVars
  BY AdapterContractStep
<1>4. Spec => []AdapterInv
  BY AdapterInvariant
<1> QED
  BY <1>1, <1>2, <1>3, <1>4, PTL DEF Spec, AttemptsKeepCustody, Contract!Spec
=============================================================================
