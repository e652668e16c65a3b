------------------------------ MODULE Presets ------------------------------
(***************************************************************************)
(* A call of a preset generator: the params object of a request through    *)
(* coerce_params and generate() to the batch and its ground truth.  The    *)
(* four presets whose ground truth speaks of single records are here:      *)
(* connect.firewall, finhub.anomaly, finhub.reconciliation and             *)
(* finhub.circuit_breaker (sim_service/generators).                        *)
(***************************************************************************)
EXTENDS TotalPresets

CONSTANTS
  Calls,           \* the calls [preset, params, draws, today]
  Counterparties,  \* how many fabricated counterparties there are
  BaselineFlows,   \* _BASELINE_FLOWS of the circuit breaker
  RapidTransfers,  \* _RAPID_TRANSFERS
  Slices           \* _STRUCTURING_SLICES

VARIABLES
  call,     \* the preset, the params of the request, draws and today
  phase,    \* called, coerced, generated or raised
  input,    \* the coerced parameters, with preset, draws and today
  batch     \* the GeneratedBatch, empty until generate() has returned

presetVars == <<call, phase, input, batch>>

(* Amounts of the anomaly's baseline are within 5% of a median of 1000 or  *)
(* more: a draw moves them by ten.                                         *)
ASSUME CallsAssumption ==
  \A c \in Calls :
    /\ c.preset \in DOMAIN Schema
    /\ \A name \in DOMAIN c.params : IsValue(c.params[name])
    /\ c.draws \in Seq(Nat) /\ c.draws # << >> /\ c.today \in Nat
    /\ c.preset = "finhub.anomaly.v1" => \A i \in DOMAIN c.draws : c.draws[i] <= 5

(* The parameters a generator has, if it is there, and their types; counts *)
(* and windows are at least one, a forecast's history two months.          *)
HasParams(preset, types) ==
  preset \in DOMAIN Schema =>
    /\ DOMAIN Schema[preset] = DOMAIN types
    /\ \A name \in DOMAIN types :
         /\ Schema[preset][name].type = types[name]
         /\ types[name] \in {"int", "window"} => Schema[preset][name].min >= 1

ASSUME PresetAssumption ==
  /\ DOMAIN Schema \subseteq
       {"connect.firewall.v1", "connect.ingestion.v1", "finhub.anomaly.v1",
        "finhub.circuit_breaker.v1", "finhub.consolidation.v1",
        "finhub.forecasting.v1", "finhub.reconciliation.v1"}
  /\ HasParams("connect.firewall.v1",
       [base_flows |-> "int", bad_ratio |-> "float", defect_types |-> "multi"])
  /\ HasParams("connect.ingestion.v1",
       [accounts |-> "int", flows_per_account |-> "int", date_range |-> "window",
        currencies |-> "multi", source_format |-> "enum"])
  /\ HasParams("finhub.anomaly.v1",
       [base_flows |-> "int", anomaly_count |-> "int", anomaly_types |-> "multi"])
  /\ HasParams("finhub.circuit_breaker.v1",
       [target_risk_score |-> "float", trigger_pattern |-> "enum"])
  /\ HasParams("finhub.consolidation.v1",
       [entities |-> "int", accounts_per_entity |-> "int", currencies |-> "multi"])
  /\ HasParams("finhub.forecasting.v1",
       [days |-> "int", accounts |-> "int", seasonality |-> "enum",
        recurring_ratio |-> "float", noise |-> "float"])
  /\ HasParams("finhub.reconciliation.v1",
       [pairs |-> "int", mismatch_ratio |-> "float", mismatch_types |-> "multi"])
  /\ "finhub.reconciliation.v1" \in DOMAIN Schema =>
       /\ Schema["finhub.reconciliation.v1"].mismatch_ratio.max <= 100
       /\ Schema["finhub.reconciliation.v1"].mismatch_types.options
            \subseteq {"amount", "date", "missing_leg"}
  /\ "finhub.forecasting.v1" \in DOMAIN Schema =>
       /\ Schema["finhub.forecasting.v1"].days.min >= 62
       /\ Schema["finhub.forecasting.v1"].recurring_ratio.max <= 100
  /\ "finhub.consolidation.v1" \in DOMAIN Schema =>
       Schema["finhub.consolidation.v1"].currencies.options \subseteq DOMAIN EurRate
  /\ "finhub.anomaly.v1" \in DOMAIN Schema =>
       Schema["finhub.anomaly.v1"].anomaly_types.options
         \subseteq {"amount_outlier", "off_hours", "duplicate", "structuring"}

(* The transfers of a burst are 14 seconds apart, and two minutes long; a  *)
(* slice a minute from five past ten on, and all in that hour.             *)
ASSUME SizeAssumption ==
  /\ {Counterparties, BaselineFlows, RapidTransfers, Slices} \subseteq Nat \ {0}
  /\ {EntitySuffixes, FlowsPerAccount} \subseteq Nat \ {0}
  /\ 14 * (RapidTransfers - 1) < 120
  /\ Slices <= 55

-----------------------------------------------------------------------------
(* Amounts of incoherent records: no number, and one that is absurd.       *)
NoAmount == 0 - 1
Absurd == 999999999

-----------------------------------------------------------------------------
(* connect.firewall.v1                                                      *)
FirewallGood(p) ==
  [i \in 1..p.base_flows |-> Flow(<<"FW", i>>, 100 * i, 0, Unbooked, 0)]

(* Fault: the repeated record gets a reference of its own.                  *)
FaultDefective(base, defect, k) ==
  CASE defect = "dup_source_hash" -> [base EXCEPT !.ref = <<"FW-DUP", k>>]
    [] defect = "missing_field" ->
         [base EXCEPT !.ref = <<"FW-BAD", k>>, !.currency = "missing"]
    [] OTHER ->
         [base EXCEPT !.ref = <<"FW-BAD", k>>,
                      !.amount = IF k % 2 = 0 THEN NoAmount ELSE Absurd]

Defective(base, defect, k) ==
  CASE defect = "dup_source_hash" -> base
    [] defect = "missing_field" ->
         [base EXCEPT !.ref = <<"FW-BAD", k>>, !.currency = "missing"]
    [] OTHER ->
         [base EXCEPT !.ref = <<"FW-BAD", k>>,
                      !.amount = IF k % 2 = 0 THEN NoAmount ELSE Absurd]

Firewall(p) ==
  LET good == FirewallGood(p)
      Bad(b, k) ==
        AddMarked(b, Cycle(p.defect_types, k),
                  Defective(Cycle(good, Cycle(p.draws, k)), Cycle(p.defect_types, k), k))
  IN  ForRange(RoundHundredths(p.base_flows * p.bad_ratio),
               [Empty EXCEPT !.records = <<Account>> \o good], Bad)

-----------------------------------------------------------------------------
(* finhub.anomaly.v1: a median per counterparty, amounts within 5% of it.   *)
Median(party) == 1000 + 100 * party
StructuringAmount == 9500

AnomalyBaseline(p) ==
  [i \in 1..p.base_flows |->
     LET party == (i - 1) % Counterparties
         draw  == Cycle(p.draws, i)
     IN  Flow(<<"ANM", i - 1>>, Median(party) + 10 * draw, draw,
              9 * 60 + 30, party)]

(* Fault: the positions count from 0, as the code's do.                     *)
FaultStructuring(b, k, day) ==
  LET Slice(s) == Flow(<<"ANM-STR", k, s>>, StructuringAmount, day,
                       10 * 60 + 5 + s, k % Counterparties)
      n == Len(b.records)
  IN  [b EXCEPT !.records = @ \o [s \in 1..Slices |-> Slice(s - 1)],
                !.truth   = Append(@, [label |-> "structuring", ref |-> <<"ANM-STR", k>>,
                                       indices |-> n .. n + Slices - 1])]

Structuring(b, k, day) ==
  LET Slice(s) == Flow(<<"ANM-STR", k, s>>, StructuringAmount, day,
                       10 * 60 + 5 + s, k % Counterparties)
      n == Len(b.records)
  IN  [b EXCEPT !.records = @ \o [s \in 1..Slices |-> Slice(s - 1)],
                !.truth   = Append(@, [label |-> "structuring", ref |-> <<"ANM-STR", k>>,
                                       indices |-> n + 1 .. n + Slices])]

(* Same ref, amount and day as the source, booked seven minutes later.      *)
Duplicate(source) == [source EXCEPT !.minute = @ + 7]

Outlier(k, day) ==
  Flow(<<"ANM-OUT", k>>, 12 * Median(k % Counterparties), day, 11 * 60,
       k % Counterparties)

OffHours(k, day) ==
  Flow(<<"ANM-OFH", k>>, Median(k % Counterparties), day, 3 * 60,
       k % Counterparties)

Anomaly(p) ==
  LET baseline == AnomalyBaseline(p)
      Inject(b, k) ==
        LET label == Cycle(p.anomaly_types, k)
            day   == Cycle(p.draws, k)
        IN  CASE label = "structuring"    -> Structuring(b, k, day)
              [] label = "duplicate"      -> AddMarked(b, label, Duplicate(Cycle(baseline, k)))
              [] label = "amount_outlier" -> AddMarked(b, label, Outlier(k, day))
              [] OTHER                    -> AddMarked(b, label, OffHours(k, day))
  IN  ForRange(p.anomaly_count,
               [Empty EXCEPT !.records = <<Account>> \o baseline], Inject)

-----------------------------------------------------------------------------
(* finhub.reconciliation.v1                                                 *)
(* Fault: an omitted leg is not listed among the mismatched pairs.          *)
FaultUnlisted(b, ref) == b

(* The ERP leg is left out; the ground truth has the pair but no position. *)
Unlegged(b, ref) ==
  [b EXCEPT !.truth = Append(@, [label |-> "missing_leg", ref |-> ref, indices |-> {}])]

Pair(p, b, i) ==
  LET draw     == Cycle(p.draws, i)
      ref      == <<"RECON", i>>
      amount   == 100 + draw
      flowed   == Add(b, Flow(ref, amount, draw, Unbooked, 0))
      mismatch == IF i < RoundHundredths(p.pairs * p.mismatch_ratio)
                  THEN Cycle(p.mismatch_types, i) ELSE "none"
  IN  CASE mismatch = "none"        -> Add(flowed, Leg(ref, amount, draw))
        [] mismatch = "missing_leg" -> Unlegged(flowed, ref)
        [] mismatch = "amount" ->
             AddMarked(flowed, mismatch, Leg(ref, amount + 1 + draw, draw))
        [] OTHER ->
             AddMarked(flowed, mismatch, Leg(ref, amount, draw - 3))

Reconciliation(p) ==
  LET OnePair(b, i) == Pair(p, b, i)
  IN  ForRange(p.pairs, [Empty EXCEPT !.records = <<Account>>], OnePair)

(* expected_auto_match_rate, times the number of pairs.                     *)
ExpectedMatches(p) == p.pairs - RoundHundredths(p.pairs * p.mismatch_ratio)

-----------------------------------------------------------------------------
(* finhub.circuit_breaker.v1: minute holds seconds here.                    *)
FirstSeen == Counterparties

BreakerBaseline(p) ==
  [i \in 1..BaselineFlows |->
     Flow(<<"CB-BASE", i - 1>>, 200 + Cycle(p.draws, i), 1 + Cycle(p.draws, i),
          9 * 3600, Cycle(p.draws, i) % Counterparties)]

LargeTransfer == Flow(<<"CB-TRIG", 0>>, 500000, 0, 14 * 3600 + 720, FirstSeen)

(* Fault: the transfers are too far apart.                                  *)
FaultSlowTransfer(p, s) ==
  Flow(<<"CB-TRIG", s>>, 8000 + Cycle(p.draws, s), 0, 14 * 3600 + 600 + 18 * s, FirstSeen)

RapidTransfer(p, s) ==
  Flow(<<"CB-TRIG", s>>, 8000 + Cycle(p.draws, s), 0, 14 * 3600 + 600 + 14 * s, FirstSeen)

CircuitBreaker(p) ==
  LET b == [Empty EXCEPT !.records = <<Account>> \o BreakerBaseline(p)]
      Rapid(c, s) == AddMarked(c, "trigger", RapidTransfer(p, s))
  IN  IF p.trigger_pattern = "large_transfer"
      THEN AddMarked(b, "trigger", LargeTransfer)
      ELSE ForRange(RapidTransfers, b, Rapid)

-----------------------------------------------------------------------------
Generated(p) ==
  CASE p.preset = "connect.firewall.v1"       -> Firewall(p)
    [] p.preset = "connect.ingestion.v1"      -> Ingestion(p)
    [] p.preset = "finhub.anomaly.v1"         -> Anomaly(p)
    [] p.preset = "finhub.circuit_breaker.v1" -> CircuitBreaker(p)
    [] p.preset = "finhub.consolidation.v1"   -> Consolidation(p)
    [] p.preset = "finhub.forecasting.v1"     -> Forecasting(p)
    [] p.preset = "finhub.reconciliation.v1"  -> Reconciliation(p)

(* round() of a NaN raises ValueError.                                     *)
RoundsNaN(p) ==
  \/ p.preset = "connect.firewall.v1" /\ p.bad_ratio = NaN
  \/ p.preset = "finhub.reconciliation.v1" /\ p.mismatch_ratio = NaN

Context(c) == [preset |-> c.preset, draws |-> c.draws, today |-> c.today]

Inputs(c) ==
  LET params == CoerceParams(Schema[c.preset], c.params)
  IN  [name \in DOMAIN Context(c) \cup DOMAIN params |->
         IF name \in DOMAIN params THEN params[name] ELSE Context(c)[name]]

Init ==
  /\ call \in Calls
  /\ phase = "called"
  /\ input = Context(call)
  /\ batch = Empty

RaiseInCoercion ==
  /\ phase = "called"
  /\ CoercionRaises(Schema[call.preset], call.params)
  /\ phase' = "raised"
  /\ UNCHANGED <<call, input, batch>>

Coerce ==
  /\ phase = "called"
  /\ ~CoercionRaises(Schema[call.preset], call.params)
  /\ input' = Inputs(call)
  /\ phase' = "coerced"
  /\ UNCHANGED <<call, batch>>

RaiseInGeneration ==
  /\ phase = "coerced"
  /\ RoundsNaN(input)
  /\ phase' = "raised"
  /\ UNCHANGED <<call, input, batch>>

Generate ==
  /\ phase = "coerced"
  /\ ~RoundsNaN(input)
  /\ batch' = Generated(input)
  /\ phase' = "generated"
  /\ UNCHANGED <<call, input>>

Next == RaiseInCoercion \/ Coerce \/ RaiseInGeneration \/ Generate

Spec == Init /\ [][Next]_presetVars

-----------------------------------------------------------------------------
(* A batch of the preset, once generate() has returned.                     *)
Returned(preset) == phase = "generated" /\ input.preset = preset

Records == batch.records
Positions == DOMAIN Records
Flows == {i \in Positions : Records[i].kind = "cash_flow"}
Entries == Range(batch.truth)
Named == UNION {entry.indices : entry \in Entries}
Labelled(label) == {k \in DOMAIN batch.truth : batch.truth[k].label = label}

(* What Core keeps of a batch: equal payloads have equal keys.              *)
Stored == Range(Records)

(* Every batch has records, and every position the ground truth names is   *)
(* one of the batch, which the emitter's enrichment relies on.             *)
TypeOK ==
  /\ call \in Calls
  /\ phase \in {"called", "coerced", "generated", "raised"}
  /\ (batch.records = << >>) = (phase # "generated")
  /\ Named \subseteq Positions
  /\ \A i \in Positions :
       Records[i].kind \in {"bank_account", "cash_flow", "financial_transaction"}

(* Whatever JSON a request holds, a coerced parameter is one the generator *)
(* may rely on, unless it is a NaN, and coercing it once more changes      *)
(* nothing: a console may send back what a run was made from.              *)
CoercionSettles ==
  phase \in {"coerced", "generated"} =>
    \A name \in DOMAIN Schema[call.preset] :
      Settled(input[name], Schema[call.preset][name])

(* Only a value that is not a finite number of ordinary size fails a call: *)
(* text, lists, nulls, fractions and numbers out of range never do.        *)
Ordinary(v) == v.kind \notin {"infinite", "huge", "nan"}

OrdinaryNeverRaises ==
  phase = "raised" => \E name \in DOMAIN call.params : ~Ordinary(call.params[name])

(* What the firewall run announces is what Core will find: it drops exactly *)
(* expected_duplicates records as repetitions, and of what is left exactly  *)
(* expected_quarantined are malformed, the ones labelled so.                *)
Malformed(rec) ==
  /\ rec.kind = "cash_flow"
  /\ rec.currency # "EUR" \/ rec.amount \in {NoAmount, Absurd}

FirewallAddsUp ==
  Returned("connect.firewall.v1") =>
    LET duplicates == Labelled("dup_source_hash") IN
    /\ Len(Records) - Cardinality(Stored) = Cardinality(duplicates)
    /\ Cardinality({rec \in Stored : Malformed(rec)})
         = Len(batch.truth) - Cardinality(duplicates)
    /\ {i \in Positions : Malformed(Records[i])}
         = UNION {batch.truth[k].indices : k \in DOMAIN batch.truth \ duplicates}

(* Detection rules written without the generator find exactly the injected  *)
(* records: amounts beyond six times an ordinary one of the counterparty,   *)
(* hours outside 9 to 18, a reference, amount and day seen before, several  *)
(* equal amounts to one counterparty in one day under other references.     *)
OrdinaryOf(i) ==
  {j \in Flows : Records[j].party = Records[i].party /\ Records[j].ref[1] = "ANM"}

IsOutlier(i) == \A j \in OrdinaryOf(i) : Records[i].amount > 6 * Records[j].amount
IsOffHours(i) == Records[i].minute \notin 9 * 60 .. 18 * 60
SameMovement(i, j) ==
  /\ Records[i].ref = Records[j].ref
  /\ Records[i].amount = Records[j].amount
  /\ Records[i].day = Records[j].day
IsRepeated(i) == \E j \in Flows : j < i /\ SameMovement(i, j)
IsSliced(i) ==
  Cardinality({j \in Flows : /\ Records[j].amount = Records[i].amount
                             /\ Records[j].party = Records[i].party
                             /\ Records[j].day = Records[i].day
                             /\ Records[j].minute \div 60 = Records[i].minute \div 60
                             /\ ~SameMovement(i, j)}) >= Slices - 1

Detects(label, i) ==
  CASE label = "amount_outlier" -> IsOutlier(i)
    [] label = "off_hours"      -> IsOffHours(i)
    [] label = "duplicate"      -> IsRepeated(i)
    [] label = "structuring"    -> IsSliced(i)

InjectedIsDetected ==
  Returned("finhub.anomaly.v1") =>
    /\ Len(batch.truth) = input.anomaly_count
    /\ \A entry \in Entries : \A i \in entry.indices : Detects(entry.label, i)
    /\ {i \in Flows : IsOutlier(i) \/ IsOffHours(i) \/ IsRepeated(i)} \subseteq Named

(* A matcher on reference, amount and date pairs as many flows as the       *)
(* expected rate says, and the ones it leaves are the mismatched pairs.     *)
Matched ==
  {Records[i].ref : i \in {f \in Flows : \E j \in Positions :
                            /\ Records[j].kind = "financial_transaction"
                            /\ SameMovement(f, j)}}

MatcherLeavesTheMismatched ==
  Returned("finhub.reconciliation.v1") =>
    /\ Cardinality(Matched) = ExpectedMatches(input)
    /\ {Records[i].ref : i \in Flows} \ Matched = {entry.ref : entry \in Entries}
    /\ Len(batch.truth) = Cardinality({entry.ref : entry \in Entries})

(* The trigger records are the transfers to the counterparty nobody has     *)
(* paid before, the large one or a burst inside two minutes.                *)
TriggersAreTheBurst ==
  Returned("finhub.circuit_breaker.v1") =>
    /\ Named = {i \in Flows : Records[i].party = FirstSeen}
    /\ \A i, j \in Named : Records[i].minute - Records[j].minute < 120

(* The consolidation announces what a cockpit computes from the accounts   *)
(* Core keeps of it: their number, and the total in euros, to the cent, of *)
(* the balances they were sent with.                                       *)
Kept == {rec \in Stored : rec.kind = "bank_account"}

ConsolidationAddsUp ==
  Returned("finhub.consolidation.v1") =>
    /\ Cardinality(Kept) = ExpectedAccounts(input)
    /\ batch.sum = RoundHundredths(
         MapThenSumSet(LAMBDA rec : rec.balance * EurRate[rec.currency], Kept))

(* A forecasting history can be learned from: it has the announced number  *)
(* of points, all within the days up to today; every recurring series      *)
(* comes at least twice and a month apart; and either every business day   *)
(* has its collection or, with nothing left for the variable mass, none    *)
(* has.  A NaN among the parameters puts NaN into the amounts.             *)
DaysOf(name) == {Records[i].day : i \in {f \in Flows : Records[f].ref[2] = name}}

MonthApart(days) ==
  /\ Cardinality(days) >= 2
  /\ \A d \in days : \/ d = Max(days)
                     \/ \E gap \in 28..31 : d + gap \in days

HistoryIsLearnable ==
  Returned("finhub.forecasting.v1") =>
    /\ Cardinality({rec \in Stored : rec.kind = "cash_flow"}) = batch.sum
    /\ \A i \in Flows : Records[i].day \in 0 .. input.days - 1
    /\ \A i \in DOMAIN Recurring : MonthApart(DaysOf(Recurring[i].name))
    /\ DaysOf("collection") =
         {d \in 0 .. input.days - 1 :
            input.recurring_ratio \in 0..99 /\ (input.today - d) % 7 < 5}
    /\ (\E i \in Flows : Records[i].amount = NanAmount) =
         (input.recurring_ratio = NaN \/ (input.noise = NaN /\ input.recurring_ratio < 100))

-----------------------------------------------------------------------------
(* finhub_anomaly.py says of a duplicate that its source_hash does not      *)
(* collide, so that it passes ingestion: Core would keep every record.      *)
AnomaliesPassIngestion ==
  Returned("finhub.anomaly.v1") => Cardinality(Stored) = Len(Records)

(* finhub_consolidation.py says expected_entities is ground truth: what    *)
(* Core keeps would belong to that many entities.                          *)
EntitiesAreAnnounced ==
  Returned("finhub.consolidation.v1") =>
    Cardinality({rec.entity : rec \in Kept}) = input.entities

(* Docstring of coerce_params: params are clamped by the schema and invalid *)
(* values fall back to the default rather than erroring.  Coercion would    *)
(* then not raise, and what a generator has worked with would be in the     *)
(* range or among the options of the schema, NaN not being in any.          *)
InvalidFallsBack ==
  /\ ~(phase = "raised" /\ CoercionRaises(Schema[call.preset], call.params))
  /\ phase = "generated" =>
       \A name \in DOMAIN Schema[call.preset] :
         Fits(input[name], Schema[call.preset][name])
=============================================================================
