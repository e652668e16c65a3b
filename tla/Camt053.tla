------------------------------ MODULE Camt053 ------------------------------
(***************************************************************************)
(* parse_balances (adapters/camt053/parser.py): the closing-booked         *)
(* balances of a camt.053 document as the raw records an adapter yields.   *)
(*                                                                         *)
(* A document is what findall and find see of it: statements in order,     *)
(* each with its id, its IBAN and its balances; Missing stands for an      *)
(* absent element or one without text.                                     *)
(***************************************************************************)
EXTENDS SequencesExt

Missing == "missing"

Closing(stmt) == SelectSeq(stmt.balances, LAMBDA bal : bal.code = "CLBD")

(* One closing balance without amount, or in a statement without IBAN,     *)
(* condemns the whole document.                                            *)
Malformed(doc) ==
  \E s \in DOMAIN doc.stmts :
    \E b \in DOMAIN Closing(doc.stmts[s]) :
      \/ doc.stmts[s].iban = Missing
      \/ Closing(doc.stmts[s])[b].amount = Missing

StatementId(stmt) == IF stmt.id = Missing THEN "unknown-stmt" ELSE stmt.id

Balance(stmt, bal) ==
  [iban |-> stmt.iban, amount |-> bal.amount, statement_id |-> StatementId(stmt)]

(* The raw bytes of every record are those of the whole document.          *)
RecordsOf(doc, stmt) ==
  [b \in DOMAIN Closing(stmt) |->
     [type    |-> "bank_balance",
      payload |-> Balance(stmt, Closing(stmt)[b]),
      bytes   |-> doc.bytes]]

ParseBalances(doc) ==
  IF Malformed(doc)
  THEN [records |-> << >>, raises |-> TRUE]
  ELSE [records |-> FlattenSeq([s \in DOMAIN doc.stmts |->
                                  RecordsOf(doc, doc.stmts[s])]),
        raises  |-> FALSE]
=============================================================================
