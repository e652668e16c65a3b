---------------------- MODULE IngestionContractProofs ----------------------
(***************************************************************************)
(* What the contract of the connectors promises, for any runs, keys and    *)
(* poison.  The bindings refine the contract, so it is what each of them   *)
(* promises of what it stores.                                             *)
(***************************************************************************)
EXTENDS IngestionContract, TLAPS

-----------------------------------------------------------------------------
(* A run that is idle has offered nothing.                                 *)
ContractInv ==
  /\ TypeOK
  /\ SuccessMeansStored
  /\ OnlyOfferedStored
  /\ \A r \in Runs : state[r] = "idle" => offered[r] = {}

LEMMA BeginKeeps ==
  ASSUME ContractInv, NEW r \in Runs, NEW ks \in SUBSET Keys, Begin(r, ks)
  PROVE  ContractInv'
<1> USE DEF ContractInv, TypeOK, Begin
<1>1. /\ offered'[r] = ks /\ offered[r] = {}
      /\ \A s \in Runs \ {r} : offered'[s] = offered[s] /\ state'[s] = state[s]
      /\ state'[r] = "running"
  OBVIOUS
<1>2. TypeOK'
  OBVIOUS
<1>3. SuccessMeansStored'
  BY <1>1 DEF SuccessMeansStored
<1>4. OnlyOfferedStored'
  <2>1. ASSUME NEW k \in stored PROVE \E s \in Runs : k \in offered'[s]
    <3>1. PICK s \in Runs : k \in offered[s]
      BY DEF OnlyOfferedStored
    <3> QED
      BY <1>1, <3>1
  <2> QED
    BY <2>1 DEF OnlyOfferedStored
<1> QED
  BY <1>1, <1>2, <1>3, <1>4

LEMMA StoreKeeps ==
  ASSUME ContractInv, NEW r \in Runs, NEW k \in Keys, Store(r, k)
  PROVE  ContractInv'
BY DEF ContractInv, TypeOK, SuccessMeansStored, OnlyOfferedStored, Store

LEMMA SucceedKeeps ==
  ASSUME ContractInv, NEW r \in Runs, Succeed(r)
  PROVE  ContractInv'
BY DEF ContractInv, TypeOK, SuccessMeansStored, OnlyOfferedStored, Succeed

LEMMA FailKeeps ==
  ASSUME ContractInv, NEW rs \in SUBSET Runs, Fail(rs)
  PROVE  ContractInv'
BY DEF ContractInv, TypeOK, SuccessMeansStored, OnlyOfferedStored, Fail

(* Everything stored was offered by some run and is not poison, and a run  *)
(* that has succeeded has all but its poison stored, for good.             *)
THEOREM ContractPromises == Spec => [](SuccessMeansStored /\ OnlyOfferedStored)
<1>1. Init => ContractInv
  BY DEF Init, ContractInv, TypeOK, SuccessMeansStored, OnlyOfferedStored
<1>2. ContractInv /\ [Next]_contractVars => ContractInv'
  <2>1. ContractInv /\ UNCHANGED contractVars => ContractInv'
    BY DEF ContractInv, TypeOK, SuccessMeansStored, OnlyOfferedStored, contractVars
  <2> QED
    BY <2>1, BeginKeeps, StoreKeeps, SucceedKeeps, FailKeeps DEF Next
<1>3. ContractInv => SuccessMeansStored /\ OnlyOfferedStored
  BY DEF ContractInv
<1> QED
  BY <1>1, <1>2, <1>3, PTL DEF Spec
=============================================================================
