---------------------------- MODULE TotalPresets ----------------------------
(***************************************************************************)
(* The preset generators whose ground truth is a set of figures:           *)
(* connect.ingestion, finhub.consolidation and finhub.forecasting.  p      *)
(* holds the coerced parameters, the draws and today.                      *)
(***************************************************************************)
EXTENDS Batches, Params

CONSTANTS
  EntitySuffixes,   \* how many entity suffixes entity_label has
  FlowsPerAccount   \* _FLOWS_PER_ACCOUNT of the consolidation

-----------------------------------------------------------------------------
(* entity_label: labels differ as their suffixes do.                       *)
EntityLabel(index) == index % EntitySuffixes

-----------------------------------------------------------------------------
(* connect.ingestion.v1                                                    *)
IngestedAccount(p, i) ==
  EntityAccount(i, Cycle(p.currencies, i),
                EntityLabel(i % (IF p.accounts = 1 THEN 1 ELSE 2)), 10000 + Cycle(p.draws, i))

(* The reference is drawn, as amount and date are: flows may be alike.     *)
IngestedFlow(p, i, j) ==
  FlowOn(IngestedAccount(p, i), <<"ING", Cycle(p.draws, j)>>, 50 + Cycle(p.draws, j),
         Cycle(p.draws, i + j) % p.date_range)

Ingestion(p) ==
  LET opened == [i \in 1..p.accounts |-> IngestedAccount(p, i - 1)]
      FlowsOf(b, i) ==
        AddAll(b, [j \in 1..p.flows_per_account |-> IngestedFlow(p, i, j - 1)])
  IN  ForRange(p.accounts, AddAll(Empty, opened), FlowsOf)

-----------------------------------------------------------------------------
(* finhub.consolidation.v1: rates are hundredths, balances cents of their  *)
(* currency, so what sum accumulates are hundredths of a cent of euros.    *)
EurRate == [EUR |-> 100, USD |-> 92, GBP |-> 117, CHF |-> 105]

(* A balance as drawn has fractions of a cent.  The least one is 20 of the *)
(* currency for the code's 20 000, which decides nothing.                  *)
DrawnBalance(p, k) == 200000 + 30 * Cycle(p.draws, k)

(* money() rounds it to the cent.                                          *)
ConsolidatedAccount(p, k) ==
  EntityAccount(k, Cycle(p.currencies, k), EntityLabel(k \div p.accounts_per_entity),
                RoundHundredths(DrawnBalance(p, k)))

ConsolidatedFlow(p, k, j) ==
  FlowOn(ConsolidatedAccount(p, k), <<"CONS", Cycle(p.draws, j)>>, 100 + Cycle(p.draws, j),
         Cycle(p.draws, k + j))

(* Fault: the total is taken of the balances as drawn.                     *)
FaultConverted(p, k) ==
  (DrawnBalance(p, k) * EurRate[Cycle(p.currencies, k)]) \div 100

(* What the k-th account adds: the rounded balance, at the fixed rate.     *)
Converted(p, k) ==
  LET account == ConsolidatedAccount(p, k)
  IN  account.balance * EurRate[account.currency]

(* The two outer loops are one over the accounts, account_index = k; the   *)
(* total is rounded to the cent when it is announced.                      *)
Consolidation(p) ==
  LET OneAccount(b, k) ==
        LET moved == [j \in 1..FlowsPerAccount |-> ConsolidatedFlow(p, k, j - 1)]
        IN  AddAll([Add(b, ConsolidatedAccount(p, k)) EXCEPT !.sum = @ + Converted(p, k)],
                   moved)
      totalled == ForRange(p.entities * p.accounts_per_entity, Empty, OneAccount)
  IN  [totalled EXCEPT !.sum = RoundHundredths(@)]

ExpectedAccounts(p) == p.entities * p.accounts_per_entity

-----------------------------------------------------------------------------
(* finhub.forecasting.v1: dates are day numbers of years of 365 days, day  *)
(* 0 a first of January and a Monday; sum is history_points.               *)
MonthEnds == <<0, 31, 59, 90, 120, 151, 181, 212, 243, 273, 304, 334, 365>>

DayOfMonth(date) ==
  LET day == date % 365
  IN  day + 1 - Max({MonthEnds[i] : i \in {m \in 1..12 : MonthEnds[m] <= day}})

BusinessDay(date) == date % 7 < 5

(* _RECURRING: name, day of the month, base amount.                        *)
Recurring ==
  <<[name |-> "salaries", dom |-> 28, base |-> 0 - 42000],
    [name |-> "rent", dom |-> 3, base |-> 0 - 8500],
    [name |-> "subscription", dom |-> 5, base |-> 0 - 1200],
    [name |-> "customer_invoices", dom |-> 12, base |-> 55000]>>

(* money() of a NaN is "nan", which passes for a decimal string.           *)
NanAmount == 999999999

RecurringAmount(p, series) ==
  IF p.recurring_ratio = NaN THEN NanAmount
  ELSE (series.base * 2 * p.recurring_ratio) \div 100

(* variable_scale > 0, which no NaN is.                                    *)
HasVariable(p) == p.recurring_ratio # NaN /\ p.recurring_ratio < 100

(* Season and noise only move the amount, a NaN of noise takes it along.   *)
VariableAmount(p) ==
  IF p.noise = NaN THEN NanAmount ELSE 60 * (100 - p.recurring_ratio)

HistoryAccount(i) == EntityAccount(i, "EUR", EntityLabel(i % 2), 100000)

(* Fault: the last day of the history is yesterday.                        *)
FaultHistoryStart(p) == p.today - p.days

HistoryStart(p) == p.today - (p.days - 1)

(* A day has a slot for each of _RECURRING and, last, one for collection.  *)
DateOf(p, slot) == HistoryStart(p) + slot \div 5
IsCollection(slot) == slot % 5 = 4

Occurs(p, slot) ==
  IF IsCollection(slot) THEN BusinessDay(DateOf(p, slot)) /\ HasVariable(p)
  ELSE DayOfMonth(DateOf(p, slot)) = Cycle(Recurring, slot % 5).dom

HistoryFlow(p, slot) ==
  LET date == DateOf(p, slot)
  IN  IF IsCollection(slot)
      THEN FlowOn(HistoryAccount((slot \div 5) % p.accounts), <<"VAR", "collection", date>>,
                  VariableAmount(p), p.today - date)
      ELSE FlowOn(HistoryAccount(0), <<"REC", Cycle(Recurring, slot % 5).name, date>>,
                  RecurringAmount(p, Cycle(Recurring, slot % 5)), p.today - date)

(* Those of the day at offset that happen, in the order of the day.        *)
SlotsOfDay(p, offset) ==
  LET Happens(slot) == Occurs(p, slot)
  IN  Those([n \in 1..5 |-> 5 * offset + n - 1], Happens)

Forecasting(p) ==
  LET lived[d \in 0..p.days] ==
        IF d = 0 THEN << >> ELSE lived[d - 1] \o SlotsOfDay(p, d - 1)
      slots == lived[p.days]
  IN  [Empty EXCEPT
         !.records = [i \in 1..p.accounts |-> HistoryAccount(i - 1)]
                     \o [i \in DOMAIN slots |-> HistoryFlow(p, slots[i])],
         !.sum = Len(slots)]
=============================================================================
