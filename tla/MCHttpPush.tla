----------------------------- MODULE MCHttpPush -----------------------------
(***************************************************************************)
(* A small instance of HttpPush: two dispatches of the duplicate-bearing   *)
(* batch <<flow, entry, flow>> under the same or different batch ids, on   *)
(* the same day or on two, or of a manual batch that shares payloads with  *)
(* it; the entry is poison.                                                *)
(***************************************************************************)
EXTENDS HttpPush

MCSimTypes == {"erp", "cash"}
MCPayloads == {"e1", "c1", "c2"}
MCTypeOf   == [p \in MCPayloads |-> IF p = "e1" THEN "erp" ELSE "cash"]
MCDigest   == [e1 |-> "sha256-e1", c1 |-> "sha256-c1", c2 |-> "sha256-c2"]
MCHashes   == {MCDigest[p] : p \in MCPayloads}
MCPoison   == {MCDigest["e1"]}

Rec(p) == [type |-> MCTypeOf[p], payload |-> p]

MCPresetIds   == {"none", "anomaly"}
MCRegistry    == {"anomaly"}
MCParams      == {"defaults"}
MCRaising     == {}
MCDays        == {1, 2}
MCRecordTypes == MCSimTypes
MCContents    == {"c2", "e1"}
MCMalformed   == "malformed"
MCBatchIds    == {"batch1", "batch2"}

MCGenerate ==
  [k \in GeneratorInputs |->
     LET flow == Rec(IF k[3] = 1 THEN "c1" ELSE "c2")
     IN  [records |-> <<flow, Rec("e1"), flow>>, marks |-> {2, 3}]]

MCValidated ==
  [v \in MCSimTypes \X MCContents |->
     IF v[1] = MCTypeOf[v[2]] THEN v[2] ELSE MCMalformed]

Auto(id) ==
  [mode |-> "auto", preset |-> "anomaly", params |-> "defaults",
   items |-> << >>, dry_run |-> FALSE, batch_id |-> id]

Manual ==
  [mode |-> "manual", preset |-> "none", params |-> "defaults",
   items |-> <<[type |-> "erp", content |-> "e1"],
               [type |-> "cash", content |-> "c2"]>>,
   dry_run |-> FALSE, batch_id |-> "batch2"]

MCBodies == {Auto("batch1"), Auto("batch2"), Manual}

Http == [enabled |-> TRUE, environment |-> "dev", topic |-> FALSE,
         core_url |-> TRUE, sdk |-> TRUE, max_records_per_run |-> 3]

MCSettings == {Http, [Http EXCEPT !.enabled = FALSE]}
OneSetting == {Http}

=============================================================================
