------------------------------ MODULE Batches ------------------------------
(***************************************************************************)
(* Batches under construction: what the preset generators of               *)
(* sim_service/generators share, and the records they append.              *)
(*                                                                         *)
(* Days count back from today; what random draws decide is an input,       *)
(* draws.  Amounts are whole euros, except where cents are said to be.     *)
(* A reference is what the code makes it: numbered, or drawn and then it   *)
(* may repeat.  Only the good records of a firewall batch are numbered     *)
(* where the code draws: to be the same, two would have to draw the same   *)
(* reference, amount, date and counterparty, and are assumed not to.       *)
(* Fields and signs that no announced figure and no label depends on are   *)
(* left out.  Ratios are hundredths, and the product of a count and a      *)
(* ratio is taken to be exact.  Positions count from 1.                    *)
(***************************************************************************)
EXTENDS Integers, SequencesExt, FiniteSetsExt

(* Records in order; truth as entries [label, indices, ref], marked in the *)
(* order the code appends them; sum is the figure of the ground truth that *)
(* a loop accumulates.                                                     *)
Empty == [records |-> << >>, truth |-> << >>, sum |-> 0]

Add(b, rec) == [b EXCEPT !.records = Append(@, rec)]

(* What a loop appends that does nothing else, in order.                   *)
AddAll(b, recs) == [b EXCEPT !.records = @ \o recs]

(* Fault: the position is taken after the record has been appended.        *)
FaultAddMarked(b, label, rec) ==
  [b EXCEPT !.records = Append(@, rec),
            !.truth   = Append(@, [label |-> label, ref |-> rec.ref,
                                   indices |-> {Len(b.records) + 2}])]

(* The ground truth names len(batch.records), then the record is appended. *)
AddMarked(b, label, rec) ==
  [b EXCEPT !.records = Append(@, rec),
            !.truth   = Append(@, [label |-> label, ref |-> rec.ref,
                                   indices |-> {Len(b.records) + 1}])]

(* for k in range(n): the body is a batch, given the batch so far.         *)
ForRange(n, b, Body(_, _)) ==
  LET run[k \in 0..n] == IF k = 0 THEN b ELSE Body(run[k - 1], k - 1)
  IN  run[n]

Cycle(options, k) == options[(k % Len(options)) + 1]

(* round() of Python: to the nearest, and from the middle to the even.     *)
RoundHundredths(x) ==
  LET whole == x \div 100
      rest  == x % 100
  IN  IF rest > 50 \/ (rest = 50 /\ whole % 2 = 1) THEN whole + 1 ELSE whole

Unbooked == 0

Account == [kind |-> "bank_account", ref |-> <<"ACC", 0>>]

Flow(ref, amount, day, minute, party) ==
  [kind |-> "cash_flow", ref |-> ref, amount |-> amount, day |-> day,
   minute |-> minute, party |-> party, currency |-> "EUR"]

Leg(ref, amount, day) ==
  [kind |-> "financial_transaction", ref |-> ref, amount |-> amount, day |-> day]

(* The k-th account of a batch that has several, under an entity: its      *)
(* label has its number.                                                   *)
EntityAccount(k, currency, entity, balance) ==
  [kind |-> "bank_account", ref |-> <<"ACC", k>>, currency |-> currency,
   entity |-> entity, balance |-> balance]

FlowOn(account, ref, amount, day) ==
  [kind |-> "cash_flow", account |-> account.ref, currency |-> account.currency,
   ref |-> ref, amount |-> amount, day |-> day]
=============================================================================
