-------------------------- MODULE IngestionContract --------------------------
(***************************************************************************)
(* What the connectors promise their callers about ingestion, whatever the *)
(* transport: a run offers a set of idempotency keys, delivery is at least *)
(* once and idempotent, a run that succeeds has everything that is not     *)
(* poison stored, and a run that fails may leave any part of it stored,    *)
(* then or later.  (ARCHITECTURE.md: re-ingestion is safe, poison records  *)
(* never block the stream.)                                                *)
(***************************************************************************)
CONSTANTS
  Runs,     \* the runs of a behaviour
  Keys,     \* source_hash values
  Poison    \* keys of records Core finds invalid

VARIABLES
  stored,   \* keys with a row at Core
  state,    \* what has become of a run
  offered   \* the keys of its records

contractVars == <<stored, state, offered>>

Init ==
  /\ stored = {}
  /\ state = [r \in Runs |-> "idle"]
  /\ offered = [r \in Runs |-> {}]

Begin(r, ks) ==
  /\ state[r] = "idle"
  /\ state' = [state EXCEPT ![r] = "running"]
  /\ offered' = [offered EXCEPT ![r] = ks]
  /\ UNCHANGED stored

(* A record may land after its run has failed: the caller gave up waiting. *)
Store(r, k) ==
  /\ state[r] \in {"running", "failed"}
  /\ k \in offered[r] \ Poison
  /\ stored' = stored \cup {k}
  /\ UNCHANGED <<state, offered>>

Succeed(r) ==
  /\ state[r] = "running"
  /\ offered[r] \ Poison \subseteq stored
  /\ state' = [state EXCEPT ![r] = "succeeded"]
  /\ UNCHANGED <<stored, offered>>

(* Runs fail alone or, when their process dies, together.                  *)
Fail(rs) ==
  /\ \A r \in rs : state[r] = "running"
  /\ state' = [r \in Runs |-> IF r \in rs THEN "failed" ELSE state[r]]
  /\ UNCHANGED <<stored, offered>>

Next ==
  \/ \E r \in Runs : \/ \E ks \in SUBSET Keys : Begin(r, ks)
                     \/ \E k \in Keys : Store(r, k)
                     \/ Succeed(r)
  \/ \E rs \in SUBSET Runs : Fail(rs)

Spec == Init /\ [][Next]_contractVars

-----------------------------------------------------------------------------
TypeOK ==
  /\ stored \subseteq Keys
  /\ state \in [Runs -> {"idle", "running", "succeeded", "failed"}]
  /\ offered \in [Runs -> SUBSET Keys]

(* A run that succeeded has every record it offered stored, poison aside.  *)
SuccessMeansStored ==
  \A r \in Runs : state[r] = "succeeded" => offered[r] \ Poison \subseteq stored

(* No poison is stored, and nothing that no run offered.                   *)
OnlyOfferedStored ==
  /\ stored \cap Poison = {}
  /\ \A k \in stored : \E r \in Runs : k \in offered[r]
=============================================================================
