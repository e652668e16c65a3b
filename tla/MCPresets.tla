----------------------------- MODULE MCPresets -----------------------------
(***************************************************************************)
(* Calls of the preset generators: the schemas of the code with their      *)
(* upper bounds and defaults scaled down, ordinary parameters around the   *)
(* wrap-around of every loop, ratios that round up, down and to even,      *)
(* option lists in more than one order, three random draws that the loops  *)
(* go around - and, one parameter at a time, every odd value JSON may hold.*)
(***************************************************************************)
EXTENDS Presets

Count(default, min, max) == [type |-> "int", default |-> default, min |-> min, max |-> max]
Ratio(default, min, max) == [type |-> "float", default |-> default, min |-> min, max |-> max]
Window(default, min, max) == [type |-> "window", default |-> default, min |-> min, max |-> max]
Enum(default, options) == [type |-> "enum", default |-> default, options |-> options]
Multi(default, options) == [type |-> "multi", default |-> default, options |-> options]

Defects == <<"missing_field", "incoherent_amount", "dup_source_hash">>
AnomalyKinds == <<"amount_outlier", "off_hours", "duplicate", "structuring">>
Mismatches == <<"amount", "date", "missing_leg">>
Currencies == {"EUR", "USD", "GBP", "CHF"}

MCSchema ==
  ("connect.firewall.v1" :>
     [base_flows |-> Count(3, 1, 5), bad_ratio |-> Ratio(30, 0, 100),
      defect_types |-> Multi(Defects, Range(Defects))])
  @@ ("connect.ingestion.v1" :>
     [accounts |-> Count(3, 1, 5), flows_per_account |-> Count(2, 1, 4),
      date_range |-> Window(3, 1, 5), currencies |-> Multi(<<"EUR">>, Currencies),
      source_format |-> Enum("psd2", {"psd2", "camt053", "mt940", "odata"})])
  @@ ("finhub.anomaly.v1" :>
     [base_flows |-> Count(11, 10, 12), anomaly_count |-> Count(5, 1, 11),
      anomaly_types |-> Multi(AnomalyKinds, Range(AnomalyKinds))])
  @@ ("finhub.circuit_breaker.v1" :>
     [target_risk_score |-> Ratio(900, 810, 1000),
      trigger_pattern |-> Enum("large_transfer", {"large_transfer", "rapid_sequence"})])
  @@ ("finhub.consolidation.v1" :>
     [entities |-> Count(4, 1, 11), accounts_per_entity |-> Count(2, 1, 3),
      currencies |-> Multi(<<"EUR", "USD">>, Currencies)])
  @@ ("finhub.forecasting.v1" :>
     [days |-> Count(92, 90, 95), accounts |-> Count(3, 1, 4),
      seasonality |-> Enum("monthly", {"none", "weekly", "monthly"}),
      recurring_ratio |-> Ratio(60, 0, 100), noise |-> Ratio(10, 0, 100)])
  @@ ("finhub.reconciliation.v1" :>
     [pairs |-> Count(4, 1, 6), mismatch_ratio |-> Ratio(15, 0, 100),
      mismatch_types |-> Multi(Mismatches, Range(Mismatches))])

-----------------------------------------------------------------------------
Draws == [1..3 -> 0..2]

Wholes(ns) == {Whole(n) : n \in ns}
Fractions(xs) == {Fraction(x) : x \in xs}
Lists(ss) == {List(s) : s \in ss}
Words(ws) == {Word(w) : w \in ws}

CallsWith(preset, params, draws, todays) ==
  [preset : {preset}, params : params, draws : draws, today : todays]

FirewallCalls == CallsWith("connect.firewall.v1",
  [base_flows : Wholes(1..4), bad_ratio : Fractions({0, 30, 50, 100}),
   defect_types : Lists({Defects, <<"dup_source_hash">>,
                         <<"incoherent_amount", "missing_field">>})], Draws, {400})

AnomalyCalls == CallsWith("finhub.anomaly.v1",
  [base_flows : Wholes({10, 12}), anomaly_count : Wholes({1, 4, 6, 11}),
   anomaly_types : Lists({AnomalyKinds, <<"structuring", "duplicate">>,
                          <<"duplicate">>})], Draws, {400})

ReconciliationCalls == CallsWith("finhub.reconciliation.v1",
  [pairs : Wholes(1..5), mismatch_ratio : Fractions({0, 30, 50, 100}),
   mismatch_types : Lists({Mismatches, <<"missing_leg">>, <<"date", "amount">>})],
  Draws, {400})

BreakerCalls == CallsWith("finhub.circuit_breaker.v1",
  [trigger_pattern : Words({"large_transfer", "rapid_sequence"})], Draws, {400})

IngestionCalls == CallsWith("connect.ingestion.v1",
  [accounts : Wholes({1, 2, 4}), flows_per_account : Wholes({1, 3}),
   date_range : {Trailing(1), Whole(2), Trailing(4)},
   currencies : Lists({<<"EUR">>, <<"USD", "EUR", "GBP">>})], Draws, {400})

ConsolidationCalls == CallsWith("finhub.consolidation.v1",
  [entities : Wholes({1, 2, 5, 6, 11}), accounts_per_entity : Wholes({1, 3}),
   currencies : Lists({<<"EUR">>, <<"USD", "CHF", "GBP">>})], Draws, {400})

(* A history that ends on each day of a year, on whatever weekday it is,   *)
(* and its edges on some.                                                  *)
ForecastingCalls ==
  CallsWith("finhub.forecasting.v1", [days : Wholes({90})], {<<0, 1, 2>>}, 365..729)
  \cup CallsWith("finhub.forecasting.v1",
         [days : Wholes({10, 91}), accounts : Wholes({1, 4}),
          recurring_ratio : Fractions({0, 100}) \cup {NotANumber},
          noise : Fractions({0}) \cup {NotANumber}], {<<0, 1, 2>>}, 400..406)

(* Everything a parameter may be instead of what the schema asks for.      *)
OddValues ==
  {Whole(0 - 5), Whole(1), Whole(99999), Fraction(250), Fraction(0 - 250),
   Numeral(Whole(2)), Numeral(Fraction(50)), Huge, Negative(Huge), Numeral(Huge),
   Infinity, Negative(Infinity), Numeral(Infinity), NotANumber, Numeral(NotANumber),
   Trailing(2), Trailing(0), Trailing(99999), Word("unheard of"), Null,
   List(<< >>), List(<<"unheard of">>), List(<<"unheard of", "USD", "date", "USD">>)}

OddCalls ==
  UNION {UNION {CallsWith(preset, [{name} -> OddValues], {<<0, 1, 2>>}, {400}) :
                  name \in DOMAIN MCSchema[preset] \cup {"unknown_key"}} :
           preset \in DOMAIN MCSchema}

MCCalls ==
  UNION {FirewallCalls, AnomalyCalls, ReconciliationCalls, BreakerCalls, IngestionCalls,
         ConsolidationCalls, ForecastingCalls, OddCalls}
=============================================================================
