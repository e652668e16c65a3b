---------------------------- MODULE MCAdapterRun ----------------------------
(***************************************************************************)
(* Small instances of AdapterRun: connectors that yield the balances of    *)
(* camt.053 documents, mapped to the canonical type as simulator.py maps   *)
(* them or left as parse_balances returns them, and one whose source has   *)
(* poison or fails in the middle of the extraction.                        *)
(***************************************************************************)
EXTENDS AdapterRun, Camt053

Stmt(id, iban, balances) == [id |-> id, iban |-> iban, balances |-> balances]
Bal(code, amount) == [code |-> code, amount |-> amount]

OneAccount ==
  [bytes |-> "doc1",
   stmts |-> <<Stmt("s1", "iban1", <<Bal("OPBD", "10"), Bal("CLBD", "12")>>)>>]

TwoAccounts ==
  [bytes |-> "doc2",
   stmts |-> <<Stmt("s1", "iban1", <<Bal("CLBD", "12")>>),
               Stmt(Missing, "iban2", <<Bal("CLBD", "20")>>)>>]

NoIban ==
  [bytes |-> "doc3",
   stmts |-> <<Stmt("s1", "iban1", <<Bal("CLBD", "12")>>),
               Stmt("s2", Missing, <<Bal("CLBD", "30")>>)>>]

(* (Joined to << >>, so that the sequence is computed once.)               *)
Mapped(feed) ==
  [feed EXCEPT !.records = << >> \o [i \in DOMAIN @ |->
                                       [@[i] EXCEPT !.type = "bank_account"]]]

Cash(n) ==
  [type    |-> "cash_flow",
   payload |-> [iban |-> Missing, amount |-> n, statement_id |-> Missing],
   bytes   |-> n]

(* A feed with poison behind a good record, and one that breaks off.       *)
Poisoned  == [records |-> <<Cash("b1"), Cash("b2")>>, raises |-> FALSE]
BrokenOff == [records |-> <<Cash("b1")>>, raises |-> TRUE]

MCFeeds == {Poisoned, BrokenOff, ParseBalances(OneAccount),
            Mapped(ParseBalances(TwoAccounts)), Mapped(ParseBalances(NoIban))}

SharedFeeds == {Poisoned, BrokenOff, ParseBalances(OneAccount)}

DocumentFeeds == {Mapped(ParseBalances(TwoAccounts))}
PoisonFeeds   == {Poisoned, Mapped(ParseBalances(NoIban))}

MCRawTypes  == {"bank_balance", "bank_account", "cash_flow"}
MCCanonical == {"bank_account", "cash_flow"}
MCData      == UNION {{f.records[i].payload : i \in DOMAIN f.records} : f \in MCFeeds}
MCBytes     == {"doc1", "doc2", "b1", "b2"}
MCDigest    == [doc1 |-> "sha256-doc1", doc2 |-> "sha256-doc2",
                b1 |-> "sha256-b1", b2 |-> "sha256-b2"]
MCKeys      == {MCDigest[b] : b \in MCBytes}
MCPoison    == {"sha256-b2"}

Transient == {"transport", "extraction"}
AnyError  == Errors
=============================================================================
