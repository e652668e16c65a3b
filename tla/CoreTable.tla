----------------------------- MODULE CoreTable -----------------------------
(***************************************************************************)
(* What every publisher binding of the simulation service shares on the    *)
(* other side of the port: Core (external) keeps canonical records, dedupes*)
(* them on source_hash and has payloads it finds invalid.  And what a run  *)
(* is to IngestionContract, whichever the binding: a dispatch that has     *)
(* built its records.                                                      *)
(***************************************************************************)
EXTENDS SimService

CONSTANTS
  Poison    \* hashes of the payloads Core finds invalid

VARIABLES
  rows      \* canonical records Core has stored

ASSUME PoisonAssumption == Poison \subseteq Hashes

-----------------------------------------------------------------------------
(* Fault: the call sees the last value of the loop variable.               *)
FaultLastRecord(r) == Records(r)[Len(batch[r].records)]

(* The record request r is publishing, or was when it gave up.             *)
OnWire(r) == Records(r)[at[r]]

StoredHashes == {row.hash : row \in rows}

Upsert(rec) == IF rec.hash \in StoredHashes THEN rows ELSE rows \cup {rec}

(* The hashes of the records of a request.                                 *)
Offered(r) == {Records(r)[i].hash : i \in 1..Len(batch[r].records)}

RunState(r) ==
  IF ~Begun(r) THEN "idle"
  ELSE IF pc[r] \in {"emitting", "publishing"} THEN "running"
  ELSE IF status[r] = 200 THEN "succeeded"
  ELSE "failed"
-----------------------------------------------------------------------------
(* Every row at Core is one record some request had reached in its batch,  *)
(* under its message id, and no two rows have one source_hash: a run that  *)
(* was aborted has put nothing beyond the record it was aborted at.        *)
RowsTraceable ==
  /\ \A row \in rows :
       /\ row.hash \notin Poison
       /\ \E r \in Requests : \E i \in 1..Len(batch[r].records) :
            i <= at[r] /\ row = Records(r)[i]
  /\ \A row1, row2 \in rows : row1.hash = row2.hash => row1 = row2
=============================================================================
