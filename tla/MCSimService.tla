---------------------------- MODULE MCSimService ----------------------------
(***************************************************************************)
(* Small instances of SimService: two presets (a duplicate-bearing batch   *)
(* that differs from day to day, and a longer one that the cap refuses),   *)
(* manual bodies, the publisher bindings and the closed gate.              *)
(***************************************************************************)
EXTENDS SimService

MCSimTypes == {"erp", "cash"}
MCPayloads == {"e1", "c1", "c2"}
MCTypeOf   == [p \in MCPayloads |-> IF p = "e1" THEN "erp" ELSE "cash"]
MCDigest   == [e1 |-> "sha256-e1", c1 |-> "sha256-c1", c2 |-> "sha256-c2"]
MCHashes   == {MCDigest[p] : p \in MCPayloads}

Rec(p) == [type |-> MCTypeOf[p], payload |-> p]

MCPresetIds == {"none", "anomaly", "forecast"}
MCRegistry  == {"anomaly", "forecast"}
MCParams    == {"defaults", "infinite"}
MCRaising   == {<<"anomaly", "infinite">>}
MCDays      == {1, 2}

(* The anomaly batch has a cash flow, an entry and the flow again, the     *)
(* manifest naming the last two; its flow depends on the day.              *)
MCGenerate ==
  [k \in GeneratorInputs |->
     IF k[1] = "anomaly"
     THEN LET flow == Rec(IF k[3] = 1 THEN "c1" ELSE "c2")
          IN  [records |-> <<flow, Rec("e1"), flow>>, marks |-> {2, 3}]
     ELSE [records |-> <<Rec("c1"), Rec("c2"), Rec("e1"), Rec("c1")>>,
           marks   |-> {1, 4}]]

MCRecordTypes == MCSimTypes \cup {"invoice"}
MCContents    == {"c2", "junk"}
MCMalformed   == "malformed"
MCValidated   ==
  [v \in MCSimTypes \X MCContents |->
     IF v = <<"cash", "c2">> THEN "c2" ELSE MCMalformed]

Auto(preset, params, dry) ==
  [mode |-> "auto", preset |-> preset, params |-> params,
   items |-> << >>, dry_run |-> dry, batch_id |-> "batch1"]

Manual(items) ==
  [mode |-> "manual", preset |-> "none", params |-> "defaults",
   items |-> items, dry_run |-> FALSE, batch_id |-> "batch2"]

Item(type, content) == [type |-> type, content |-> content]

MCBatchIds == {"batch1", "batch2"}

(* Bodies that emit or preview, and bodies the handler refuses: over the   *)
(* cap (of 3, but 4 with nothing bound), and one valid item among bad ones.*)
MCBodies ==
  {Auto("anomaly", "defaults", FALSE), Auto("anomaly", "defaults", TRUE),
   Auto("anomaly", "infinite", FALSE), Auto("forecast", "defaults", FALSE),
   Manual(<<Item("cash", "c2"), Item("cash", "c2")>>),
   Manual(<<Item("cash", "c2"), Item("invoice", "c2"), Item("erp", "c2")>>)}

(* Nothing bound, a topic without and with the Pub/Sub client, and an      *)
(* environment in which the gate is closed.                                *)
Unbound == [enabled |-> TRUE, environment |-> "dev", topic |-> FALSE,
            core_url |-> FALSE, sdk |-> FALSE, max_records_per_run |-> 4]
PubSub  == [Unbound EXCEPT !.topic = TRUE, !.sdk = TRUE,
                           !.max_records_per_run = 3]
NoClient   == [PubSub EXCEPT !.sdk = FALSE]
Production == [PubSub EXCEPT !.environment = "production"]

MCSettings == {Unbound, PubSub, NoClient, Production}
=============================================================================
