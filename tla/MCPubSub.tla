------------------------------ MODULE MCPubSub ------------------------------
(***************************************************************************)
(* A small instance of PubSub: two dispatches of the batch <<entry, flow>> *)
(* (the entry is poison), or of a manual batch of that flow alone, so that *)
(* messages of both carry one source_hash.                                 *)
(***************************************************************************)
EXTENDS PubSub

MCSimTypes == {"erp", "cash"}
MCPayloads == {"e1", "c1"}
MCTypeOf   == [p \in MCPayloads |-> IF p = "e1" THEN "erp" ELSE "cash"]
MCDigest   == [e1 |-> "sha256-e1", c1 |-> "sha256-c1"]
MCHashes   == {MCDigest[p] : p \in MCPayloads}
MCPoison   == {MCDigest["e1"]}

MCPresetIds   == {"none", "anomaly"}
MCRegistry    == {"anomaly"}
MCParams      == {"defaults"}
MCRaising     == {}
MCDays        == {1}
MCRecordTypes == MCSimTypes
MCContents    == {"c1"}
MCMalformed   == "malformed"
MCBatchIds    == {"batch1", "batch2"}

MCGenerate ==
  [k \in GeneratorInputs |->
     [records |-> <<[type |-> "erp", payload |-> "e1"],
                    [type |-> "cash", payload |-> "c1"]>>,
      marks   |-> {2}]]

MCValidated ==
  [v \in MCSimTypes \X MCContents |->
     IF v[1] = "cash" THEN v[2] ELSE MCMalformed]

Auto ==
  [mode |-> "auto", preset |-> "anomaly", params |-> "defaults",
   items |-> << >>, dry_run |-> FALSE, batch_id |-> "batch1"]

Manual ==
  [mode |-> "manual", preset |-> "none", params |-> "defaults",
   items |-> <<[type |-> "cash", content |-> "c1"]>>,
   dry_run |-> FALSE, batch_id |-> "batch2"]

MCBodies == {Auto, Manual}

MCSettings ==
  {[enabled |-> TRUE, environment |-> "dev", topic |-> TRUE, core_url |-> TRUE,
    sdk |-> TRUE, max_records_per_run |-> 2]}
=============================================================================
