--------------------------- MODULE PresetsProofs ---------------------------
(***************************************************************************)
(* The preset generators, for any schema of sound specs, any calls and any *)
(* sizes of batches.                                                       *)
(***************************************************************************)
EXTENDS Presets, ParamsProofs

-----------------------------------------------------------------------------
(* The inputs of a generator: what the call has besides its parameters,    *)
(* and under each name of the schema a parameter that has settled.         *)
LEMMA SchemaNames ==
  ASSUME NEW preset \in DOMAIN Schema
  PROVE  DOMAIN Schema[preset] \cap {"preset", "draws", "today"} = {}
<1>1. PICK types :
        /\ types \in
             {[base_flows |-> "int", bad_ratio |-> "float", defect_types |-> "multi"],
              [accounts |-> "int", flows_per_account |-> "int", date_range |-> "window",
               currencies |-> "multi", source_format |-> "enum"],
              [base_flows |-> "int", anomaly_count |-> "int", anomaly_types |-> "multi"],
              [target_risk_score |-> "float", trigger_pattern |-> "enum"],
              [entities |-> "int", accounts_per_entity |-> "int", currencies |-> "multi"],
              [days |-> "int", accounts |-> "int", seasonality |-> "enum",
               recurring_ratio |-> "float", noise |-> "float"],
              [pairs |-> "int", mismatch_ratio |-> "float", mismatch_types |-> "multi"]}
        /\ HasParams(preset, types)
  BY PresetAssumption
<1>2. DOMAIN types \cap {"preset", "draws", "today"} = {}
  BY <1>1
<1> QED
  BY <1>1, <1>2 DEF HasParams

LEMMA InputsOfCall ==
  ASSUME NEW c \in Calls
  PROVE  /\ Inputs(c).preset = c.preset /\ Inputs(c).draws = c.draws
         /\ Inputs(c).today = c.today /\ Inputs(c).today \in Nat
         /\ Inputs(c).draws \in Seq(Nat) /\ Inputs(c).draws # << >>
         /\ \A name \in DOMAIN Schema[c.preset] :
              /\ Inputs(c)[name] = CoerceParams(Schema[c.preset], c.params)[name]
              /\ Settled(Inputs(c)[name], Schema[c.preset][name])
<1> DEFINE params == CoerceParams(Schema[c.preset], c.params)
<1>1. /\ c.preset \in DOMAIN Schema
      /\ \A name \in DOMAIN c.params : IsValue(c.params[name])
      /\ c.draws \in Seq(Nat) /\ c.draws # << >> /\ c.today \in Nat
  BY CallsAssumption
<1>2. DOMAIN params = DOMAIN Schema[c.preset]
  BY DEF CoerceParams
<1>3. DOMAIN params \cap {"preset", "draws", "today"} = {}
  BY <1>1, <1>2, SchemaNames
<1>4. DOMAIN Context(c) = {"preset", "draws", "today"}
  BY DEF Context
<1>5. Inputs(c) = [name \in DOMAIN Context(c) \cup DOMAIN params |->
                     IF name \in DOMAIN params THEN params[name] ELSE Context(c)[name]]
  BY DEF Inputs
<1>6. \A name \in DOMAIN Schema[c.preset] :
        Settled(params[name], Schema[c.preset][name])
  BY <1>1, ParamsSettle
<1> HIDE DEF params
<1>7. /\ Inputs(c)["preset"] = Context(c)["preset"]
      /\ Inputs(c)["draws"] = Context(c)["draws"]
      /\ Inputs(c)["today"] = Context(c)["today"]
  BY <1>3, <1>4, <1>5
<1>8. Inputs(c).preset = c.preset /\ Inputs(c).draws = c.draws /\ Inputs(c).today = c.today
  BY <1>7 DEF Context
<1>9. \A name \in DOMAIN Schema[c.preset] : Inputs(c)[name] = params[name]
  BY <1>2, <1>5
<1> QED
  BY <1>1, <1>6, <1>8, <1>9 DEF params

(* What each type of parameter gives its generator to rely on.             *)
LEMMA CoercedMulti ==
  ASSUME NEW spec, Sound(spec), spec.type = "multi", NEW v, IsValue(v)
  PROVE  Coerced(v, spec) \in Seq(STRING)
<1>1. spec.default \in Seq(STRING) /\ v.words \in Seq(STRING)
  BY DEF Sound, IsValue
<1>2. Options(v.words, spec) \in Seq(STRING)
  BY <1>1, OptionsKeepsOptions
<1>3. \/ Coerced(v, spec) = spec.default
      \/ Coerced(v, spec) = Options(v.words, spec)
  BY DEF Coerced
<1> QED
  BY <1>1, <1>2, <1>3

LEMMA InputTypes ==
  ASSUME NEW c \in Calls, NEW name \in DOMAIN Schema[c.preset]
  PROVE  LET spec == Schema[c.preset][name] IN
         /\ spec.type \in {"int", "window"} /\ spec.min >= 1 =>
              Inputs(c)[name] \in Nat \ {0} /\ Inputs(c)[name] >= spec.min
         /\ spec.type = "float" =>
              Inputs(c)[name] = NaN \/ Inputs(c)[name] \in 0 .. spec.max
         /\ spec.type = "multi" =>
              /\ Inputs(c)[name] \in Seq(STRING) /\ Inputs(c)[name] # << >>
              /\ \A i \in 1..Len(Inputs(c)[name]) : Inputs(c)[name][i] \in spec.options
<1> DEFINE spec == Schema[c.preset][name]
           x == Inputs(c)[name]
<1>1. /\ c.preset \in DOMAIN Schema
      /\ \A n \in DOMAIN c.params : IsValue(c.params[n])
  BY CallsAssumption
<1>2. Sound(spec)
  BY <1>1, SchemaAssumption
<1>3. Settled(x, spec) /\ x = CoerceParams(Schema[c.preset], c.params)[name]
  BY InputsOfCall
<1>4. x = spec.default \/ \E v : IsValue(v) /\ x = Coerced(v, spec)
  BY <1>1, <1>3 DEF CoerceParams
<1> HIDE DEF spec, x
<1>5. Fits(x, spec) \/ (spec.type = "float" /\ x = NaN)
  BY <1>3 DEF Settled
<1>6. ASSUME spec.type \in {"int", "window"}, spec.min >= 1
      PROVE  x \in Nat \ {0} /\ x >= spec.min
  <2>1. x \in spec.min .. spec.max /\ spec.min \in Nat /\ spec.max \in Nat
    BY <1>2, <1>5, <1>6 DEF Fits, Sound
  <2> QED
    BY <1>6, <2>1
<1>7. ASSUME spec.type = "float"
      PROVE  x = NaN \/ x \in 0 .. spec.max
  <2>1. (x = NaN \/ x \in spec.min .. spec.max) /\ spec.min \in Nat /\ spec.max \in Nat
    BY <1>2, <1>5, <1>7 DEF Fits, Sound
  <2> QED
    BY <2>1
<1>8. ASSUME spec.type = "multi"
      PROVE  x \in Seq(STRING) /\ x # << >> /\ \A i \in 1..Len(x) : x[i] \in spec.options
  <2>1. x \in Seq(STRING)
    BY <1>2, <1>4, <1>8, CoercedMulti DEF Sound
  <2>2. x # << >> /\ \A i \in DOMAIN x : x[i] \in spec.options
    BY <1>5, <1>8 DEF Fits, IsOption
  <2> QED
    BY <2>1, <2>2
<1> QED
  BY <1>6, <1>7, <1>8 DEF spec, x

-----------------------------------------------------------------------------
(* A call has its inputs once they are coerced, and a batch once it is     *)
(* generated from them.  A call that raised has one of two reasons to.     *)
Consistent ==
  /\ call \in Calls
  /\ phase \in {"called", "coerced", "generated", "raised"}
  /\ phase \in {"coerced", "generated"} => input = Inputs(call)
  /\ phase # "generated" => batch = Empty
  /\ phase = "generated" => batch = Generated(input) /\ ~RoundsNaN(input)
  /\ phase = "raised" => \/ CoercionRaises(Schema[call.preset], call.params)
                         \/ RoundsNaN(Inputs(call))

LEMMA InitConsistent == Init => Consistent
BY DEF Init, Consistent

LEMMA NextConsistent == Consistent /\ [Next]_presetVars => Consistent'
<1> SUFFICES ASSUME Consistent, [Next]_presetVars PROVE Consistent'
  OBVIOUS
<1>1. CASE RaiseInCoercion
  BY <1>1 DEF RaiseInCoercion, Consistent
<1>2. CASE Coerce
  BY <1>2 DEF Coerce, Consistent
<1>3. CASE RaiseInGeneration
  BY <1>3 DEF RaiseInGeneration, Consistent
<1>4. CASE Generate
  BY <1>4 DEF Generate, Consistent
<1>5. CASE UNCHANGED presetVars
  BY <1>5 DEF presetVars, Consistent
<1> QED
  BY <1>1, <1>2, <1>3, <1>4, <1>5 DEF Next

LEMMA AlwaysConsistent == Spec => []Consistent
BY InitConsistent, NextConsistent, PTL DEF Spec

-----------------------------------------------------------------------------
(* coerce_params, for every call: a parameter is one its schema allows, or *)
(* a NaN, and the batch of a run can be made again from what it was made   *)
(* from.                                                                   *)
THEOREM RunCoercionSettles == Spec => []CoercionSettles
<1>1. Consistent => CoercionSettles
  BY InputsOfCall DEF Consistent, CoercionSettles
<1> QED
  BY <1>1, AlwaysConsistent, PTL

(* A float is a NaN only if the request has one: nothing else that comes   *)
(* out of a clamp or a schema is below zero.                               *)
LEMMA NaNIsGiven ==
  ASSUME NEW c \in Calls, NEW name \in DOMAIN Schema[c.preset],
         Schema[c.preset][name].type = "float", Inputs(c)[name] = NaN
  PROVE  name \in DOMAIN c.params /\ c.params[name].kind = "nan"
<1> DEFINE spec == Schema[c.preset][name]
           v == c.params[name]
<1>1. /\ c.preset \in DOMAIN Schema
      /\ name \in DOMAIN c.params => IsValue(v)
  BY CallsAssumption
<1>2. Sound(spec)
  BY <1>1, SchemaAssumption
<1>3. /\ spec.min \in Nat /\ spec.max \in Nat /\ spec.min <= spec.max
      /\ spec.default \in spec.min .. spec.max
  BY <1>2 DEF Sound, Fits
<1>4. NaN = IF name \in DOMAIN c.params THEN Coerced(v, spec) ELSE spec.default
  BY InputsOfCall DEF CoerceParams
<1>5. spec.type = "float"
  OBVIOUS
<1> HIDE DEF spec, v
<1>6. spec.default # NaN
  BY <1>3 DEF NaN
<1>7. name \in DOMAIN c.params /\ Coerced(v, spec) = NaN
  BY <1>4, <1>6
<1>8. ASSUME v.kind # "nan" PROVE FALSE
  <2>1. \/ Coerced(v, spec) = Clamp(v.number, spec)
        \/ Coerced(v, spec) = spec.default
    BY <1>5, <1>8 DEF Coerced
  <2>2. Clamp(v.number, spec) \in spec.min .. spec.max
    BY <1>1, <1>3, <1>7, ClampBetween DEF IsValue
  <2>3. Clamp(v.number, spec) # NaN
    BY <1>3, <2>2 DEF NaN
  <2> QED
    BY <1>6, <1>7, <2>1, <2>3
<1> QED
  BY <1>7, <1>8 DEF v

(* coerce_params and generate(), for every call: only an infinity, a huge  *)
(* integer or a NaN makes either raise.                                    *)
THEOREM RunOrdinaryNeverRaises == Spec => []OrdinaryNeverRaises
<1>1. ASSUME Consistent, phase = "raised"
      PROVE  \E name \in DOMAIN call.params : ~Ordinary(call.params[name])
  <2>1. call \in Calls /\ call.preset \in DOMAIN Schema
    BY <1>1, CallsAssumption DEF Consistent
  <2>2. CASE CoercionRaises(Schema[call.preset], call.params)
    BY <2>2 DEF CoercionRaises, Given, Overflows, IntOverflows, FloatOverflows, Ordinary
  <2>3. CASE RoundsNaN(Inputs(call))
    <3>1. PICK name \in DOMAIN Schema[call.preset] :
            Schema[call.preset][name].type = "float" /\ Inputs(call)[name] = NaN
      <4>1. Inputs(call).preset = call.preset
        BY <2>1, InputsOfCall
      <4>2. CASE call.preset = "connect.firewall.v1" /\ Inputs(call).bad_ratio = NaN
        <5>1. /\ "bad_ratio" \in DOMAIN Schema[call.preset]
              /\ Schema[call.preset]["bad_ratio"].type = "float"
          BY <2>1, <4>2, PresetAssumption DEF HasParams
        <5> QED
          BY <4>2, <5>1
      <4>3. CASE call.preset = "finhub.reconciliation.v1" /\ Inputs(call).mismatch_ratio = NaN
        <5>1. /\ "mismatch_ratio" \in DOMAIN Schema[call.preset]
              /\ Schema[call.preset]["mismatch_ratio"].type = "float"
          BY <2>1, <4>3, PresetAssumption DEF HasParams
        <5> QED
          BY <4>3, <5>1
      <4> QED
        BY <2>3, <4>1, <4>2, <4>3 DEF RoundsNaN
    <3>2. name \in DOMAIN call.params /\ call.params[name].kind = "nan"
      BY <2>1, <3>1, NaNIsGiven
    <3> QED
      BY <3>2 DEF Ordinary
  <2> QED
    BY <1>1, <2>2, <2>3 DEF Consistent
<1>2. Consistent => OrdinaryNeverRaises
  BY <1>1 DEF OrdinaryNeverRaises
<1> QED
  BY <1>2, AlwaysConsistent, PTL

-----------------------------------------------------------------------------
(* Batches as they grow.  A batch that holds a prefix of all that is to    *)
(* come holds the next prefix after a marked record.                       *)
Prefix(all, m, marks, t, sum) ==
  [records |-> [i \in 1..m |-> all[i]], truth |-> [j \in 1..t |-> marks[j]], sum |-> sum]

LEMMA MarkedPrefix ==
  ASSUME NEW all, NEW m \in Nat, NEW marks, NEW t \in Nat, NEW sum, NEW label, NEW rec,
         rec = all[m + 1],
         marks[t + 1] = [label |-> label, ref |-> rec.ref, indices |-> {m + 1}]
  PROVE  AddMarked(Prefix(all, m, marks, t, sum), label, rec)
           = Prefix(all, m + 1, marks, t + 1, sum)
<1> DEFINE b == Prefix(all, m, marks, t, sum)
           mark == [label |-> label, ref |-> rec.ref, indices |-> {m + 1}]
<1>1. /\ b.records = [i \in 1..m |-> all[i]] /\ Len(b.records) = m
      /\ b.truth = [j \in 1..t |-> marks[j]]
  BY DEF Prefix
<1>2. AddMarked(b, label, rec)
        = [b EXCEPT !.records = Append(@, rec), !.truth = Append(@, mark)]
  BY <1>1 DEF AddMarked
<1>3. /\ Append(b.records, rec) = [i \in 1 .. m + 1 |-> all[i]]
      /\ Append(b.truth, mark) = [j \in 1 .. t + 1 |-> marks[j]]
  BY <1>1, AppendPrefix
<1> HIDE DEF mark
<1> QED
  BY <1>2, <1>3 DEF Prefix

(* A loop that does nothing else, after m records; label[k] is the label   *)
(* of its k-th round.                                                      *)
MarkedRound(f, n, m, all, marks, label) ==
  [k \in 0..n |-> IF k = 0 THEN Prefix(all, m, marks, 0, 0)
                  ELSE AddMarked(f[k - 1], label[k - 1], all[m + k])]

AreMarks(n, m, all, marks, label) ==
  \A k \in 1..n :
    marks[k] = [label |-> label[k - 1], ref |-> all[m + k].ref, indices |-> {m + k}]

LEMMA MarkedRuns ==
  ASSUME NEW n \in Nat, NEW m \in Nat, NEW all, NEW marks, NEW label,
         AreMarks(n, m, all, marks, label)
  PROVE  /\ \E f : f = MarkedRound(f, n, m, all, marks, label)
         /\ \A f : f = MarkedRound(f, n, m, all, marks, label)
                     => f[n] = Prefix(all, m + n, marks, n, 0)
<1> DEFINE done == [k \in 0..n |-> Prefix(all, m + k, marks, k, 0)]
<1>1. done[0] = Prefix(all, m, marks, 0, 0)
  <2>1. 0 \in 0..n /\ m + 0 = m
    OBVIOUS
  <2> QED
    BY <2>1
<1>2. ASSUME NEW k \in 1..n PROVE AddMarked(done[k - 1], label[k - 1], all[m + k]) = done[k]
  <2>1. /\ k - 1 \in 0..n /\ k - 1 \in Nat /\ m + (k - 1) \in Nat
        /\ (m + (k - 1)) + 1 = m + k /\ (k - 1) + 1 = k
    OBVIOUS
  <2>2. done[k - 1] = Prefix(all, m + (k - 1), marks, k - 1, 0)
        /\ done[k] = Prefix(all, m + k, marks, k, 0)
    BY <2>1
  <2>3. AddMarked(Prefix(all, m + (k - 1), marks, k - 1, 0), label[k - 1], all[m + k])
          = Prefix(all, m + k, marks, k, 0)
    <3> DEFINE l == m + (k - 1)
               j == k - 1
    <3>1. l \in Nat /\ j \in Nat /\ l + 1 = m + k /\ j + 1 = k
      BY <2>1
    <3> DEFINE rec == all[l + 1]
               name == label[j]
    <3>2. marks[j + 1] = [label |-> name, ref |-> rec.ref, indices |-> {l + 1}]
      BY <3>1 DEF AreMarks
    <3>3. rec = all[l + 1]
      OBVIOUS
    <3> HIDE DEF l, j, rec, name
    <3>4. AddMarked(Prefix(all, l, marks, j, 0), name, rec) = Prefix(all, l + 1, marks, j + 1, 0)
      BY <3>1, <3>2, <3>3, MarkedPrefix
    <3> QED
      BY <3>1, <3>4 DEF l, j, rec, name
  <2> QED
    BY <2>2, <2>3
<1>3. done = [k \in 0..n |-> done[k]]
  OBVIOUS
<1>4. done[n] = Prefix(all, m + n, marks, n, 0)
  OBVIOUS
<1> HIDE DEF done
<1>5. done = MarkedRound(done, n, m, all, marks, label)
  <2>1. ASSUME NEW k \in 0..n
        PROVE  done[k] = IF k = 0 THEN Prefix(all, m, marks, 0, 0)
                         ELSE AddMarked(done[k - 1], label[k - 1], all[m + k])
    BY <1>1, <1>2
  <2> QED
    BY <1>3, <2>1 DEF MarkedRound
<1>6. ASSUME NEW f, f = MarkedRound(f, n, m, all, marks, label)
      PROVE  f[n] = Prefix(all, m + n, marks, n, 0)
  <2>1. /\ f[0] = Prefix(all, m, marks, 0, 0)
        /\ \A k \in 1..n : f[k] = AddMarked(f[k - 1], label[k - 1], all[m + k])
    BY <1>6 DEF MarkedRound
  <2> DEFINE W == [k \in 0..n |-> {done[k]}]
  <2>2. f[0] \in W[0]
    BY <1>1, <2>1
  <2>3. ASSUME NEW k \in 0 .. n - 1, f[k] \in W[k] PROVE f[k + 1] \in W[k + 1]
    <3>1. k + 1 \in 1..n /\ (k + 1) - 1 = k /\ k + 1 \in 0..n /\ k \in 0..n
      OBVIOUS
    <3>2. f[k + 1] = AddMarked(f[k], label[k], all[m + (k + 1)]) /\ f[k] = done[k]
      BY <2>1, <2>3, <3>1
    <3>3. AddMarked(done[k], label[k], all[m + (k + 1)]) = done[k + 1]
      BY <1>2, <3>1
    <3> QED
      BY <3>1, <3>2, <3>3
  <2> HIDE DEF W
  <2>4. f[n] \in W[n]
    BY <2>2, <2>3, LoopEnds
  <2> QED
    BY <1>4, <2>4 DEF W
<1> QED
  BY <1>5, <1>6

LEMMA RoundedNat ==
  ASSUME NEW x \in Nat
  PROVE  RoundHundredths(x) \in Nat
BY DEF RoundHundredths

LEMMA CycleIn ==
  ASSUME NEW S, NEW options \in Seq(S), options # << >>, NEW k \in Nat
  PROVE  Cycle(options, k) \in S /\ \E i \in 1..Len(options) : Cycle(options, k) = options[i]
<1>1. Len(options) \in Nat \ {0}
  OBVIOUS
<1>2. (k % Len(options)) + 1 \in 1..Len(options)
  BY <1>1
<1> QED
  BY <1>2 DEF Cycle

-----------------------------------------------------------------------------
(* connect.firewall: the account, the good records, the bad ones; the      *)
(* ground truth has an entry for each bad one.                             *)
FirewallBad(p, k) ==
  Defective(Cycle(FirewallGood(p), Cycle(p.draws, k)), Cycle(p.defect_types, k), k)

FirewallRecords(p, n) ==
  [i \in 1 .. 1 + p.base_flows + n |->
     IF i = 1 THEN Account
     ELSE IF i <= 1 + p.base_flows THEN FirewallGood(p)[i - 1]
     ELSE FirewallBad(p, i - p.base_flows - 2)]

FirewallTruth(p, n) ==
  [j \in 1..n |-> [label   |-> Cycle(p.defect_types, j - 1),
                   ref     |-> FirewallBad(p, j - 1).ref,
                   indices |-> {1 + p.base_flows + j}]]

LEMMA FirewallBatch ==
  ASSUME NEW p, p.base_flows \in Nat \ {0}, NEW n \in Nat,
         n = RoundHundredths(p.base_flows * p.bad_ratio)
  PROVE  Firewall(p) = [records |-> FirewallRecords(p, n), truth |-> FirewallTruth(p, n),
                        sum |-> 0]
<1> DEFINE m == 1 + p.base_flows
           records == <<Account>> \o FirewallGood(p)
           first == [Empty EXCEPT !.records = records]
           Loop(f) == [k \in 0..n |->
                         IF k = 0 THEN first
                         ELSE AddMarked(f[k - 1], Cycle(p.defect_types, k - 1),
                                        FirewallBad(p, k - 1))]
           chosen == CHOOSE f : f = Loop(f)
           all == FirewallRecords(p, n)
           marks == FirewallTruth(p, n)
           labels == [k \in 0 .. n - 1 |-> Cycle(p.defect_types, k)]
<1>1. Firewall(p) = chosen[n]
  BY Zenon DEF Firewall, ForRange, FirewallBad
<1>2. m \in Nat
  OBVIOUS
<1>3. first = Prefix(all, m, marks, 0, 0)
  <2>1. FirewallGood(p) = [i \in 1..p.base_flows |-> FirewallGood(p)[i]]
    BY DEF FirewallGood
  <2>2. records = [i \in 1..m |-> all[i]]
    BY <2>1 DEF FirewallRecords
  <2> HIDE DEF all, marks, records, m
  <2>3. first = [records |-> records, truth |-> << >>, sum |-> 0]
    BY DEF Empty
  <2>4. [j \in 1..0 |-> marks[j]] = << >>
    OBVIOUS
  <2> HIDE DEF first
  <2> QED
    BY <2>2, <2>3, <2>4 DEF Prefix
<1>4. ASSUME NEW k \in 1..n
      PROVE  /\ all[m + k] = FirewallBad(p, k - 1)
             /\ labels[k - 1] = Cycle(p.defect_types, k - 1)
             /\ marks[k] = [label |-> labels[k - 1], ref |-> all[m + k].ref,
                            indices |-> {m + k}]
  <2>1. m + k \in 1 .. m + n /\ ~ (m + k <= m) /\ m + k # 1
        /\ (m + k) - p.base_flows - 2 = k - 1 /\ k - 1 \in 0 .. n - 1
    OBVIOUS
  <2>2. all[m + k] = FirewallBad(p, k - 1)
    BY <2>1 DEF FirewallRecords
  <2>3. labels[k - 1] = Cycle(p.defect_types, k - 1)
    BY <2>1
  <2>4. marks[k] = [label |-> Cycle(p.defect_types, k - 1), ref |-> FirewallBad(p, k - 1).ref,
                    indices |-> {m + k}]
    BY DEF FirewallTruth
  <2> HIDE DEF all, marks, labels, m
  <2> QED
    BY <2>2, <2>3, <2>4
<1> HIDE DEF first, all, marks, labels, m
<1>5. ASSUME NEW f PROVE Loop(f) = MarkedRound(f, n, m, all, marks, labels)
  <2>1. ASSUME NEW k \in 0..n, k # 0
        PROVE  AddMarked(f[k - 1], Cycle(p.defect_types, k - 1), FirewallBad(p, k - 1))
                 = AddMarked(f[k - 1], labels[k - 1], all[m + k])
    <3>1. k \in 1..n
      BY <2>1
    <3> QED
      BY <1>4, <3>1
  <2> QED
    BY <1>3, <2>1 DEF MarkedRound
<1>6. /\ \E f : f = MarkedRound(f, n, m, all, marks, labels)
      /\ \A f : f = MarkedRound(f, n, m, all, marks, labels)
                  => f[n] = Prefix(all, m + n, marks, n, 0)
  <2>1. AreMarks(n, m, all, marks, labels)
    BY <1>4 DEF AreMarks
  <2> HIDE DEF chosen, Loop
  <2> QED
    BY <1>2, <2>1, MarkedRuns
<1>7. chosen = Loop(chosen)
  <2>1. \E f : f = Loop(f)
    BY Zenon, <1>5, <1>6
  <2> HIDE DEF Loop
  <2> QED
    BY <2>1
<1>8. chosen[n] = Prefix(all, m + n, marks, n, 0)
  <2> HIDE DEF chosen, Loop
  <2> QED
    BY Zenon, <1>5, <1>6, <1>7
<1>9. Prefix(all, m + n, marks, n, 0) = [records |-> all, truth |-> marks, sum |-> 0]
  <2>1. /\ [i \in 1 .. m + n |-> all[i]] = all
        /\ [j \in 1..n |-> marks[j]] = marks
    BY DEF all, marks, m, FirewallRecords, FirewallTruth
  <2> QED
    BY <2>1 DEF Prefix
<1> HIDE DEF chosen
<1> QED
  BY <1>1, <1>8, <1>9 DEF all, marks

FirewallInputs(p) ==
  /\ p.base_flows \in Nat \ {0}
  /\ p.draws \in Seq(Nat) /\ p.draws # << >>
  /\ p.defect_types \in Seq(STRING) /\ p.defect_types # << >>

LEMMA FirewallGoodIs ==
  ASSUME NEW p, FirewallInputs(p), NEW i \in 1..p.base_flows
  PROVE  LET rec == FirewallGood(p)[i] IN
         rec.kind = "cash_flow" /\ rec.ref = <<"FW", i>> /\ ~Malformed(rec)
<1>1. FirewallGood(p)[i] = Flow(<<"FW", i>>, 100 * i, 0, Unbooked, 0)
  BY DEF FirewallGood
<1> DEFINE rec == Flow(<<"FW", i>>, 100 * i, 0, Unbooked, 0)
<1>2. rec.kind = "cash_flow" /\ rec.ref = <<"FW", i>> /\ rec.currency = "EUR"
      /\ rec.amount = 100 * i
  BY DEF Flow
<1>3. i \in Nat /\ 100 * i \notin {NoAmount, Absurd}
  BY DEF FirewallInputs, NoAmount, Absurd
<1> HIDE DEF rec
<1>4. ~Malformed(rec)
  BY <1>2, <1>3 DEF Malformed
<1> QED
  BY <1>1, <1>2, <1>4 DEF rec

LEMMA FirewallBadIs ==
  ASSUME NEW p, FirewallInputs(p), NEW k \in Nat
  PROVE  LET label == Cycle(p.defect_types, k)
             rec   == FirewallBad(p, k)
         IN  /\ label = "dup_source_hash" =>
                  \E i \in 1..p.base_flows : rec = FirewallGood(p)[i]
             /\ label # "dup_source_hash" =>
                  rec.kind = "cash_flow" /\ rec.ref = <<"FW-BAD", k>> /\ Malformed(rec)
<1> DEFINE label == Cycle(p.defect_types, k)
           good == FirewallGood(p)
           base == Cycle(good, Cycle(p.draws, k))
<1>1. PICK i \in 1..p.base_flows : base = good[i]
  <2>1. Cycle(p.draws, k) \in Nat
    BY CycleIn DEF FirewallInputs
  <2>2. Len(good) = p.base_flows /\ p.base_flows \in Nat \ {0}
    BY DEF FirewallGood, FirewallInputs
  <2>3. (Cycle(p.draws, k) % Len(good)) + 1 \in 1..p.base_flows
    BY <2>1, <2>2
  <2> QED
    BY <2>3 DEF Cycle
<1>2. FirewallBad(p, k) = Defective(base, label, k)
  BY DEF FirewallBad
<1>3. base = Flow(<<"FW", i>>, 100 * i, 0, Unbooked, 0)
  BY <1>1 DEF FirewallGood
<1> HIDE DEF base, label, good
<1>4. CASE label = "dup_source_hash"
  BY <1>1, <1>2, <1>4 DEF Defective, good, label
<1>5. CASE label # "dup_source_hash"
  <2> DEFINE bad == Defective(base, label, k)
  <2>1. CASE label = "missing_field"
    <3>1. bad = [base EXCEPT !.ref = <<"FW-BAD", k>>, !.currency = "missing"]
      BY <1>5, <2>1 DEF Defective
    <3>2. bad.kind = "cash_flow" /\ bad.ref = <<"FW-BAD", k>> /\ bad.currency = "missing"
      BY <1>3, <3>1 DEF Flow
    <3> QED
      BY <1>2, <1>5, <3>2 DEF Malformed, label
  <2>2. CASE label # "missing_field"
    <3> DEFINE amount == IF k % 2 = 0 THEN NoAmount ELSE Absurd
    <3>1. bad = [base EXCEPT !.ref = <<"FW-BAD", k>>, !.amount = amount]
      BY <1>5, <2>2 DEF Defective
    <3>2. amount \in {NoAmount, Absurd}
      OBVIOUS
    <3> HIDE DEF amount
    <3>3. bad.kind = "cash_flow" /\ bad.ref = <<"FW-BAD", k>> /\ bad.amount = amount
      BY <1>3, <3>1 DEF Flow
    <3> QED
      BY <1>2, <1>5, <3>2, <3>3 DEF Malformed, label
  <2> QED
    BY <2>1, <2>2
<1> QED
  BY <1>4, <1>5 DEF label

(* The records of a firewall batch, kind by kind: position 1 has the       *)
(* account, then come the good ones, then the bad ones.                    *)
LEMMA FirewallPositions ==
  ASSUME NEW p, FirewallInputs(p), NEW n \in Nat
  PROVE  LET R == FirewallRecords(p, n)
             g == p.base_flows
         IN  /\ DOMAIN R = 1 .. 1 + g + n
             /\ R[1] = Account
             /\ \A i \in 2 .. 1 + g : /\ R[i] = FirewallGood(p)[i - 1]
                                      /\ R[i].ref = <<"FW", i - 1>>
                                      /\ R[i].kind = "cash_flow" /\ ~Malformed(R[i])
             /\ \A k \in 1..n : R[1 + g + k] = FirewallBad(p, k - 1)
<1> DEFINE R == FirewallRecords(p, n)
           g == p.base_flows
<1>1. g \in Nat \ {0}
  BY DEF FirewallInputs
<1>2. DOMAIN R = 1 .. 1 + g + n
  BY DEF FirewallRecords
<1>3. R[1] = Account
  BY <1>1 DEF FirewallRecords
<1>4. ASSUME NEW i \in 2 .. 1 + g
      PROVE  /\ R[i] = FirewallGood(p)[i - 1]
             /\ R[i].ref = <<"FW", i - 1>>
             /\ R[i].kind = "cash_flow" /\ ~Malformed(R[i])
  <2>1. i \in 1 .. 1 + g + n /\ i # 1 /\ i <= 1 + g /\ i - 1 \in 1..g
    BY <1>1
  <2>2. R[i] = FirewallGood(p)[i - 1]
    BY <2>1 DEF FirewallRecords
  <2> QED
    BY <2>1, <2>2, FirewallGoodIs
<1>5. ASSUME NEW k \in 1..n PROVE R[1 + g + k] = FirewallBad(p, k - 1)
  <2>1. /\ 1 + g + k \in 1 .. 1 + g + n /\ ~ (1 + g + k <= 1 + g) /\ 1 + g + k # 1
        /\ (1 + g + k) - g - 2 = k - 1
    BY <1>1
  <2> QED
    BY <2>1 DEF FirewallRecords
<1> QED
  BY <1>2, <1>3, <1>4, <1>5

(* The arithmetic of the ground truth: duplicates add nothing to what is   *)
(* stored, every other bad record one malformed record.                    *)
LEMMA FirewallCounts ==
  ASSUME NEW p, FirewallInputs(p), NEW n \in Nat
  PROVE  LET R == FirewallRecords(p, n)
             T == FirewallTruth(p, n)
             stored == Range(R)
             duplicates == {k \in DOMAIN T : T[k].label = "dup_source_hash"}
         IN  /\ Len(R) - Cardinality(stored) = Cardinality(duplicates)
             /\ Cardinality({rec \in stored : Malformed(rec)}) = Len(T) - Cardinality(duplicates)
             /\ {i \in DOMAIN R : Malformed(R[i])}
                  = UNION {T[k].indices : k \in DOMAIN T \ duplicates}
<1> DEFINE R == FirewallRecords(p, n)
           T == FirewallTruth(p, n)
           g == p.base_flows
           D == {k \in 1..n : T[k].label = "dup_source_hash"}
           at == [k \in 1..n |-> 1 + g + k]
           repeats == {at[k] : k \in D}
           malformed == {at[k] : k \in (1..n) \ D}
           first == (1 .. 1 + g + n) \ repeats
<1>1. /\ g \in Nat \ {0} /\ Len(T) = n /\ DOMAIN T = 1..n /\ Len(R) = 1 + g + n
      /\ \A k \in 1..n : /\ T[k].label = Cycle(p.defect_types, k - 1)
                         /\ T[k].indices = {at[k]}
  BY DEF FirewallInputs, FirewallTruth, FirewallRecords
<1>2. /\ DOMAIN R = 1 .. 1 + g + n
      /\ R[1] = Account
      /\ \A i \in 2 .. 1 + g : /\ R[i] = FirewallGood(p)[i - 1]
                               /\ R[i].ref = <<"FW", i - 1>>
                               /\ R[i].kind = "cash_flow" /\ ~Malformed(R[i])
      /\ \A k \in 1..n : R[at[k]] = FirewallBad(p, k - 1)
  <2>1. \A k \in 1..n : at[k] = 1 + g + k
    OBVIOUS
  <2> HIDE DEF at, R
  <2> QED
    BY <2>1, FirewallPositions DEF R
<1>3. /\ R[1].ref = <<"ACC", 0>> /\ R[1].kind = "bank_account" /\ ~Malformed(R[1])
  BY <1>2 DEF Account, Malformed
<1>4. ASSUME NEW k \in D PROVE \E i \in 2 .. 1 + g : R[at[k]] = R[i]
  <2>1. k \in 1..n /\ k - 1 \in Nat /\ Cycle(p.defect_types, k - 1) = "dup_source_hash"
    BY <1>1
  <2>2. PICK i \in 1..g : FirewallBad(p, k - 1) = FirewallGood(p)[i]
    BY <2>1, FirewallBadIs
  <2>3. i + 1 \in 2 .. 1 + g /\ (i + 1) - 1 = i
    BY <1>1
  <2> HIDE DEF R, at, D
  <2> QED
    BY <1>2, <2>1, <2>2, <2>3
<1>5. ASSUME NEW k \in (1..n) \ D
      PROVE  /\ R[at[k]].kind = "cash_flow" /\ R[at[k]].ref = <<"FW-BAD", k - 1>>
             /\ Malformed(R[at[k]])
  <2>1. k \in 1..n /\ k - 1 \in Nat /\ Cycle(p.defect_types, k - 1) # "dup_source_hash"
    BY <1>1
  <2>2. R[at[k]] = FirewallBad(p, k - 1)
    BY <1>2, <2>1
  <2> HIDE DEF R, at, D
  <2> QED
    BY <2>1, <2>2, FirewallBadIs
<1>6. \A i \in 1 .. 1 + g + n : i = 1 \/ i \in 2 .. 1 + g \/ \E k \in 1..n : i = at[k]
  <2>1. ASSUME NEW i \in 1 .. 1 + g + n, i # 1, i \notin 2 .. 1 + g
        PROVE  \E k \in 1..n : i = at[k]
    <3> DEFINE k == i - (1 + g)
    <3>1. k \in 1..n /\ i = 1 + g + k
      BY <1>1, <2>1
    <3> HIDE DEF k
    <3> QED
      BY <3>1
  <2> QED
    BY <2>1
<1>7. \A k \in 1..n : at[k] \in 1 .. 1 + g + n /\ at[k] # 1 /\ at[k] \notin 2 .. 1 + g
  BY <1>1
<1>8. \A j, k \in 1..n : at[j] = at[k] => j = k
  BY <1>1
<1> HIDE DEF R, T, at, g
<1>9. \A i, j \in first : R[i] = R[j] => i = j
  <2>1. ASSUME NEW i \in first, NEW j \in first, R[i].ref = R[j].ref PROVE i = j
    <3>1. ASSUME NEW m \in first
          PROVE  \/ m = 1 /\ R[m].ref = <<"ACC", 0>>
                 \/ m \in 2 .. 1 + g /\ R[m].ref = <<"FW", m - 1>>
                 \/ \E k \in 1..n : m = at[k] /\ R[m].ref = <<"FW-BAD", k - 1>>
      <4>1. CASE m = 1
        BY <1>3, <4>1
      <4>2. CASE m \in 2 .. 1 + g
        BY <1>2, <4>2
      <4>3. CASE \E k \in 1..n : m = at[k]
        <5>1. PICK k \in 1..n : m = at[k]
          BY <4>3
        <5>2. k \notin D
          BY <5>1
        <5> HIDE DEF D
        <5> QED
          BY <1>5, <5>1, <5>2
      <4> QED
        BY <1>6, <4>1, <4>2, <4>3
    <3> HIDE DEF first
    <3>2. CASE i = 1 \/ j = 1
      <4>1. \A m \in first : m # 1 => R[m].ref # <<"ACC", 0>>
        BY <3>1
      <4> QED
        BY <1>3, <2>1, <3>2, <4>1
    <3>3. CASE i \in 2 .. 1 + g \/ j \in 2 .. 1 + g
      <4>1. \A m \in first, q \in 2 .. 1 + g : R[m].ref = <<"FW", q - 1>> => m = q
        <5>1. ASSUME NEW m \in first, NEW q \in 2 .. 1 + g, R[m].ref = <<"FW", q - 1>>
              PROVE  m = q
          <6>1. m \in 2 .. 1 + g /\ <<"FW", m - 1>> = <<"FW", q - 1>>
            BY <3>1, <5>1
          <6>2. m - 1 = q - 1
            BY <6>1
          <6> QED
            BY <1>1, <6>1, <6>2
        <5> QED
          BY <5>1
      <4>2. \A q \in 2 .. 1 + g : R[q].ref = <<"FW", q - 1>>
        BY <1>2
      <4> QED
        BY <2>1, <3>3, <4>1, <4>2
    <3>4. CASE i # 1 /\ i \notin 2 .. 1 + g /\ j # 1 /\ j \notin 2 .. 1 + g
      <4>1. PICK k \in 1..n : i = at[k] /\ R[i].ref = <<"FW-BAD", k - 1>>
        BY <3>1, <3>4
      <4>2. PICK m \in 1..n : j = at[m] /\ R[j].ref = <<"FW-BAD", m - 1>>
        BY <3>1, <3>4
      <4>3. k = m
        BY <2>1, <4>1, <4>2
      <4> QED
        BY <4>1, <4>2, <4>3
    <3> QED
      BY <3>2, <3>3, <3>4
  <2> QED
    BY <2>1
<1>10. Range(R) = {R[i] : i \in first}
  <2>1. ASSUME NEW i \in 1 .. 1 + g + n PROVE \E j \in first : R[i] = R[j]
    <3>1. CASE i \in first
      BY <3>1
    <3>2. CASE i \notin first
      <4>1. PICK k \in D : i = at[k]
        BY <3>2
      <4>2. PICK j \in 2 .. 1 + g : R[i] = R[j]
        BY <1>4, <4>1
      <4>3. j \in first
        BY <1>1, <1>7
      <4> QED
        BY <4>2, <4>3
    <3> QED
      BY <3>1, <3>2
  <2>2. first \subseteq 1 .. 1 + g + n
    OBVIOUS
  <2> HIDE DEF first
  <2>3. Range(R) = {R[i] : i \in 1 .. 1 + g + n}
    BY <1>2 DEF Range
  <2> QED
    BY <2>1, <2>2, <2>3
<1>11. IsFiniteSet(D) /\ Cardinality(D) \in Nat /\ Cardinality(D) = Cardinality(repeats)
       /\ IsFiniteSet(repeats)
  <2>1. IsFiniteSet(1..n) /\ D \subseteq 1..n
    BY IntervalSize
  <2>2. IsFiniteSet(D) /\ Cardinality(D) \in Nat
    BY <2>1, FS_Subset, FS_CardinalityType
  <2>3. \A j, k \in D : at[j] = at[k] => j = k
    BY <1>8
  <2> HIDE DEF D
  <2> QED
    BY <2>2, <2>3, ImageCardinality
<1>12. IsFiniteSet(first) /\ Cardinality(first) = 1 + g + n - Cardinality(D)
  <2>1. IsFiniteSet(1 .. 1 + g + n) /\ Cardinality(1 .. 1 + g + n) = 1 + g + n
    <3>1. 1 + g + n \in Nat
      BY <1>1
    <3> QED
      BY <3>1, IntervalSize
  <2>2. repeats \subseteq 1 .. 1 + g + n
    BY <1>7
  <2> HIDE DEF repeats, D
  <2>3. /\ IsFiniteSet(first)
        /\ Cardinality(first) = Cardinality(1 .. 1 + g + n) - Cardinality(repeats)
    BY <2>1, <2>2, Remaining
  <2> HIDE DEF first
  <2> QED
    BY <1>1, <1>11, <2>1, <2>3
<1>13. Cardinality(Range(R)) = 1 + g + n - Cardinality(D)
  <2> HIDE DEF first
  <2> QED
    BY <1>9, <1>10, <1>12, ImageCardinality
<1>14. \A i \in 1 .. 1 + g + n : i \in first /\ Malformed(R[i]) <=> i \in malformed
  <2>1. ASSUME NEW k \in (1..n) \ D PROVE at[k] \in first /\ Malformed(R[at[k]])
    BY <1>5, <1>7, <1>8
  <2>2. ASSUME NEW i \in first, Malformed(R[i]) PROVE i \in malformed
    BY <1>2, <1>3, <1>6, <2>2
  <2> QED
    BY <2>1, <2>2
<1>15. malformed \subseteq first /\ {rec \in Range(R) : Malformed(rec)} = {R[i] : i \in malformed}
  BY <1>7, <1>10, <1>14
<1>16. Cardinality(malformed) = n - Cardinality(D) /\ IsFiniteSet(malformed)
  <2>1. D \subseteq 1..n
    OBVIOUS
  <2>2. \A j, k \in (1..n) \ D : at[j] = at[k] => j = k
    BY <1>8
  <2> HIDE DEF D
  <2>3. IsFiniteSet((1..n) \ D) /\ Cardinality((1..n) \ D) = n - Cardinality(D)
    BY <2>1, IntervalSize, Remaining
  <2> QED
    BY <2>2, <2>3, ImageCardinality
<1>17. Cardinality({rec \in Range(R) : Malformed(rec)}) = n - Cardinality(D)
  <2>1. \A i, j \in malformed : R[i] = R[j] => i = j
    BY <1>9, <1>15
  <2> HIDE DEF malformed, D, first
  <2>2. Cardinality({R[i] : i \in malformed}) = Cardinality(malformed)
    BY <1>16, <2>1, ImageCardinality
  <2> QED
    BY <1>15, <1>16, <2>2
<1>18. {i \in DOMAIN R : Malformed(R[i])} = UNION {T[k].indices : k \in DOMAIN T \ D}
  <2>1. \A i \in repeats : ~Malformed(R[i])
    BY <1>2, <1>4
  <2>2. {i \in 1 .. 1 + g + n : Malformed(R[i])} = malformed
    BY <1>7, <1>14, <2>1
  <2>3. UNION {T[k].indices : k \in (1..n) \ D} = malformed
    BY <1>1
  <2> QED
    BY <1>1, <1>2, <2>2, <2>3
<1>19. D = {k \in DOMAIN T : T[k].label = "dup_source_hash"}
  BY <1>1
<1> HIDE DEF D
<1> QED
  BY <1>1, <1>11, <1>13, <1>17, <1>18, <1>19 DEF R, T

LEMMA FirewallInputsOfCall ==
  ASSUME NEW c \in Calls, c.preset = "connect.firewall.v1"
  PROVE  /\ FirewallInputs(Inputs(c))
         /\ Inputs(c).bad_ratio # NaN =>
              RoundHundredths(Inputs(c).base_flows * Inputs(c).bad_ratio) \in Nat
<1> DEFINE p == Inputs(c)
           schema == Schema[c.preset]
<1>1. c.preset \in DOMAIN Schema
  BY CallsAssumption
<1>2. /\ {"base_flows", "bad_ratio", "defect_types"} \subseteq DOMAIN schema
      /\ schema["base_flows"].type = "int" /\ schema["base_flows"].min >= 1
      /\ schema["bad_ratio"].type = "float"
      /\ schema["defect_types"].type = "multi"
  BY <1>1, PresetAssumption DEF HasParams
<1>3. p.draws \in Seq(Nat) /\ p.draws # << >>
  BY InputsOfCall
<1>4. p["base_flows"] \in Nat \ {0}
  BY <1>2, InputTypes
<1>5. p["bad_ratio"] = NaN \/ p["bad_ratio"] \in 0 .. schema["bad_ratio"].max
  BY <1>2, InputTypes
<1>6. p["defect_types"] \in Seq(STRING) /\ p["defect_types"] # << >>
  BY <1>2, InputTypes
<1> HIDE DEF p
<1>7. p["bad_ratio"] # NaN => RoundHundredths(p["base_flows"] * p["bad_ratio"]) \in Nat
  <2> SUFFICES ASSUME p["bad_ratio"] # NaN
               PROVE  RoundHundredths(p["base_flows"] * p["bad_ratio"]) \in Nat
    OBVIOUS
  <2>1. p["base_flows"] * p["bad_ratio"] \in Nat
    <3>1. p["bad_ratio"] \in Nat
      BY <1>5
    <3> QED
      BY <1>4, <3>1
  <2> QED
    BY <2>1, RoundedNat
<1> QED
  BY <1>3, <1>4, <1>6, <1>7 DEF FirewallInputs, p

LEMMA FirewallReturned ==
  ASSUME Consistent, Returned("connect.firewall.v1")
  PROVE  /\ FirewallInputs(input)
         /\ \E n \in Nat : batch = [records |-> FirewallRecords(input, n),
                                    truth |-> FirewallTruth(input, n), sum |-> 0]
<1>1. /\ call \in Calls /\ input = Inputs(call) /\ input.preset = call.preset
      /\ input.preset = "connect.firewall.v1" /\ batch = Generated(input)
      /\ input.bad_ratio # NaN
  BY InputsOfCall DEF Consistent, Returned, RoundsNaN
<1>2. batch = Firewall(input)
  BY <1>1 DEF Generated
<1> DEFINE n == RoundHundredths(input.base_flows * input.bad_ratio)
<1>3. FirewallInputs(input) /\ n \in Nat
  BY <1>1, FirewallInputsOfCall
<1>4. input.base_flows \in Nat \ {0}
  BY <1>3 DEF FirewallInputs
<1> HIDE DEF n
<1>5. batch = [records |-> FirewallRecords(input, n), truth |-> FirewallTruth(input, n),
               sum |-> 0]
  BY <1>2, <1>3, <1>4, FirewallBatch DEF n
<1> QED
  BY <1>3, <1>5

(* What connect.firewall announces is what Core finds, whatever the call:  *)
(* the duplicates it drops and the malformed records it quarantines.       *)
THEOREM RunFirewallAddsUp == Spec => []FirewallAddsUp
<1>1. ASSUME Consistent, Returned("connect.firewall.v1")
      PROVE  /\ FirewallInputs(input)
             /\ \E n \in Nat : batch = [records |-> FirewallRecords(input, n),
                                        truth |-> FirewallTruth(input, n), sum |-> 0]
  BY <1>1, FirewallReturned
<1>2. Consistent => FirewallAddsUp
  <2> SUFFICES ASSUME Consistent, Returned("connect.firewall.v1") PROVE FirewallAddsUp
    BY DEF FirewallAddsUp
  <2>1. PICK n \in Nat : batch = [records |-> FirewallRecords(input, n),
                                  truth |-> FirewallTruth(input, n), sum |-> 0]
    BY <1>1
  <2>2. batch.records = FirewallRecords(input, n) /\ batch.truth = FirewallTruth(input, n)
    BY <2>1
  <2> DEFINE R == FirewallRecords(input, n)
             T == FirewallTruth(input, n)
             duplicates == {k \in DOMAIN T : T[k].label = "dup_source_hash"}
  <2>3. /\ Len(R) - Cardinality(Range(R)) = Cardinality(duplicates)
        /\ Cardinality({rec \in Range(R) : Malformed(rec)}) = Len(T) - Cardinality(duplicates)
        /\ {i \in DOMAIN R : Malformed(R[i])}
             = UNION {T[k].indices : k \in DOMAIN T \ duplicates}
    BY <1>1, FirewallCounts
  <2>4. Records = R /\ Stored = Range(R) /\ Positions = DOMAIN R /\ batch.truth = T
        /\ Labelled("dup_source_hash") = duplicates
    BY <2>2 DEF Records, Positions, Stored, Labelled
  <2> HIDE DEF R, T, duplicates
  <2> QED
    BY <2>3, <2>4 DEF FirewallAddsUp
<1> QED
  BY <1>2, AlwaysConsistent, PTL

-----------------------------------------------------------------------------
(* The circuit breaker's batch in closed form: the account, the baseline,  *)
(* and the one large transfer or the burst.                                *)
Transfers(p) == IF p.trigger_pattern = "large_transfer" THEN 1 ELSE RapidTransfers

Transfer(p, s) ==
  IF p.trigger_pattern = "large_transfer" THEN LargeTransfer ELSE RapidTransfer(p, s)

BreakerRecords(p) ==
  [i \in 1 .. 1 + BaselineFlows + Transfers(p) |->
     IF i = 1 THEN Account
     ELSE IF i <= 1 + BaselineFlows THEN BreakerBaseline(p)[i - 1]
     ELSE Transfer(p, i - BaselineFlows - 2)]

BreakerTruth(p) ==
  [j \in 1..Transfers(p) |-> [label   |-> "trigger",
                              ref     |-> Transfer(p, j - 1).ref,
                              indices |-> {1 + BaselineFlows + j}]]

LEMMA BreakerSizes ==
  ASSUME NEW p
  PROVE  Transfers(p) \in Nat \ {0} /\ BaselineFlows \in Nat \ {0}
         /\ Counterparties \in Nat \ {0} /\ 14 * (RapidTransfers - 1) < 120
BY SizeAssumption DEF Transfers

LEMMA BreakerBatch ==
  ASSUME NEW p
  PROVE  CircuitBreaker(p) = [records |-> BreakerRecords(p), truth |-> BreakerTruth(p),
                              sum |-> 0]
<1> DEFINE n == Transfers(p)
           m == 1 + BaselineFlows
           records == <<Account>> \o BreakerBaseline(p)
           first == [Empty EXCEPT !.records = records]
           Loop(f) == [k \in 0..RapidTransfers |->
                         IF k = 0 THEN first
                         ELSE AddMarked(f[k - 1], "trigger", RapidTransfer(p, k - 1))]
           chosen == CHOOSE f : f = Loop(f)
           all == BreakerRecords(p)
           marks == BreakerTruth(p)
           labels == [k \in 0 .. n - 1 |-> "trigger"]
<1>1. /\ n \in Nat \ {0} /\ n \in Nat /\ m \in Nat
      /\ BaselineFlows \in Nat
  BY BreakerSizes
<1>2. CircuitBreaker(p) = IF p.trigger_pattern = "large_transfer"
                          THEN AddMarked(first, "trigger", LargeTransfer)
                          ELSE chosen[RapidTransfers]
  BY Zenon DEF CircuitBreaker, ForRange
<1>3. first = Prefix(all, m, marks, 0, 0)
  <2>1. BreakerBaseline(p) = [i \in 1..BaselineFlows |-> BreakerBaseline(p)[i]]
    BY DEF BreakerBaseline
  <2>2. records = [i \in 1..m |-> all[i]]
    <3> HIDE DEF n
    <3> QED
      BY <1>1, <2>1 DEF BreakerRecords, n
  <2> HIDE DEF all, marks, records, m
  <2>3. first = [records |-> records, truth |-> << >>, sum |-> 0]
    BY DEF Empty
  <2>4. [j \in 1..0 |-> marks[j]] = << >>
    OBVIOUS
  <2> HIDE DEF first
  <2> QED
    BY <2>2, <2>3, <2>4 DEF Prefix
<1>4. ASSUME NEW k \in 1..n
      PROVE  /\ all[m + k] = Transfer(p, k - 1)
             /\ labels[k - 1] = "trigger"
             /\ marks[k] = [label |-> labels[k - 1], ref |-> all[m + k].ref,
                            indices |-> {m + k}]
  <2>1. m + k \in 1 .. m + n /\ ~ (m + k <= m) /\ m + k # 1
        /\ (m + k) - BaselineFlows - 2 = k - 1 /\ k - 1 \in 0 .. n - 1
    <3> HIDE DEF n
    <3> QED
      BY <1>1
  <2>2. all[m + k] = Transfer(p, k - 1)
    BY <2>1 DEF BreakerRecords
  <2>3. labels[k - 1] = "trigger"
    BY <2>1
  <2>4. marks[k] = [label |-> "trigger", ref |-> Transfer(p, k - 1).ref, indices |-> {m + k}]
    BY DEF BreakerTruth
  <2> HIDE DEF all, marks, labels, m
  <2> QED
    BY <2>2, <2>3, <2>4
<1> HIDE DEF first, all, marks, labels, m, n
<1>5. AreMarks(n, m, all, marks, labels)
  BY <1>4 DEF AreMarks
<1>6. ASSUME p.trigger_pattern = "large_transfer"
      PROVE  CircuitBreaker(p) = Prefix(all, m + n, marks, n, 0)
  <2>1. n = 1
    BY <1>6 DEF n, Transfers
  <2>2. all[m + 1] = LargeTransfer /\ labels[0] = "trigger"
    BY <1>4, <1>6, <2>1 DEF Transfer
  <2>3. marks[0 + 1] = [label |-> "trigger", ref |-> LargeTransfer.ref, indices |-> {m + 1}]
    BY <1>4, <2>1, <2>2
  <2>4. AddMarked(Prefix(all, m, marks, 0, 0), "trigger", LargeTransfer)
          = Prefix(all, m + 1, marks, 0 + 1, 0)
    BY <1>1, <2>2, <2>3, MarkedPrefix
  <2>5. CircuitBreaker(p) = Prefix(all, m + n, marks, n, 0)
    <3> HIDE DEF chosen
    <3> QED
      BY <1>2, <1>3, <1>6, <2>1, <2>4
  <2> QED
    BY <2>5
<1>7. ASSUME p.trigger_pattern # "large_transfer"
      PROVE  CircuitBreaker(p) = Prefix(all, m + n, marks, n, 0)
  <2>1. n = RapidTransfers
    BY <1>7 DEF n, Transfers
  <2>2. ASSUME NEW f PROVE Loop(f) = MarkedRound(f, n, m, all, marks, labels)
    <3>1. ASSUME NEW k \in 0..n, k # 0
          PROVE  AddMarked(f[k - 1], "trigger", RapidTransfer(p, k - 1))
                   = AddMarked(f[k - 1], labels[k - 1], all[m + k])
      <4>1. k \in 1..n
        BY <1>1, <3>1
      <4> QED
        BY <1>4, <1>7, <4>1 DEF Transfer
    <3> QED
      BY <1>3, <2>1, <3>1 DEF MarkedRound
  <2>3. /\ \E f : f = MarkedRound(f, n, m, all, marks, labels)
        /\ \A f : f = MarkedRound(f, n, m, all, marks, labels)
                    => f[n] = Prefix(all, m + n, marks, n, 0)
    <3> HIDE DEF chosen, Loop
    <3> QED
      BY <1>1, <1>5, MarkedRuns
  <2>4. chosen = Loop(chosen)
    <3>1. \E f : f = Loop(f)
      BY Zenon, <2>2, <2>3
    <3> HIDE DEF Loop
    <3> QED
      BY <3>1
  <2> HIDE DEF chosen, Loop
  <2>5. chosen[n] = Prefix(all, m + n, marks, n, 0)
    BY Zenon, <2>2, <2>3, <2>4
  <2> QED
    BY <1>2, <1>7, <2>1, <2>5
<1>8. CircuitBreaker(p) = Prefix(all, m + n, marks, n, 0)
  BY <1>6, <1>7
<1>9. Prefix(all, m + n, marks, n, 0) = [records |-> all, truth |-> marks, sum |-> 0]
  <2>1. /\ [i \in 1 .. m + n |-> all[i]] = all
        /\ [j \in 1..n |-> marks[j]] = marks
    BY DEF all, marks, m, n, BreakerRecords, BreakerTruth
  <2> QED
    BY <2>1 DEF Prefix
<1> QED
  BY <1>8, <1>9 DEF all, marks

BreakerInputs(p) == p.draws \in Seq(Nat) /\ p.draws # << >>

LEMMA BreakerParties ==
  ASSUME NEW p, BreakerInputs(p), NEW i \in 2 .. 1 + BaselineFlows + Transfers(p)
  PROVE  /\ BreakerRecords(p)[i].kind = "cash_flow"
         /\ BreakerRecords(p)[i].party = FirstSeen <=> i > 1 + BaselineFlows
<1> DEFINE R == BreakerRecords(p)
<1>1. Transfers(p) \in Nat /\ BaselineFlows \in Nat /\ Counterparties \in Nat \ {0}
  BY BreakerSizes
<1>2. R[i] = IF i <= 1 + BaselineFlows THEN BreakerBaseline(p)[i - 1]
             ELSE Transfer(p, i - BaselineFlows - 2)
  BY <1>1 DEF BreakerRecords
<1>3. CASE i <= 1 + BaselineFlows
  <2>1. i - 1 \in 1..BaselineFlows /\ i - 1 \in Nat
    BY <1>1, <1>3
  <2> DEFINE draw == Cycle(p.draws, i - 1)
  <2>2. draw \in Nat
    BY <2>1, CycleIn DEF BreakerInputs
  <2>3. BreakerBaseline(p)[i - 1] = Flow(<<"CB-BASE", (i - 1) - 1>>, 200 + draw, 1 + draw,
                                        9 * 3600, draw % Counterparties)
    BY <2>1 DEF BreakerBaseline
  <2> HIDE DEF draw, R
  <2>4. R[i].kind = "cash_flow" /\ R[i].party = draw % Counterparties
    BY <1>2, <1>3, <2>3 DEF Flow
  <2>5. draw % Counterparties # FirstSeen
    BY <1>1, <2>2 DEF FirstSeen
  <2> QED
    BY <1>1, <1>3, <2>4, <2>5 DEF R
<1>4. CASE i > 1 + BaselineFlows
  <2>1. R[i] = Transfer(p, i - BaselineFlows - 2)
    BY <1>1, <1>2, <1>4
  <2> QED
    BY <1>4, <2>1 DEF Transfer, LargeTransfer, RapidTransfer, Flow
<1> QED
  BY <1>1, <1>3, <1>4

LEMMA BreakerMinutes ==
  ASSUME NEW p, NEW s \in 0 .. Transfers(p) - 1, NEW t \in 0 .. Transfers(p) - 1
  PROVE  Transfer(p, s).minute - Transfer(p, t).minute < 120
<1>1. Transfers(p) \in Nat /\ RapidTransfers \in Nat /\ 14 * (RapidTransfers - 1) < 120
  BY SizeAssumption DEF Transfers
<1>2. CASE p.trigger_pattern = "large_transfer"
  BY <1>2 DEF Transfer, LargeTransfer, Flow
<1>3. CASE p.trigger_pattern # "large_transfer"
  <2>1. /\ Transfer(p, s).minute = 14 * 3600 + 600 + 14 * s
        /\ Transfer(p, t).minute = 14 * 3600 + 600 + 14 * t
    BY <1>3 DEF Transfer, RapidTransfer, Flow
  <2>2. s \in Nat /\ t \in Nat /\ s <= RapidTransfers - 1
    BY <1>1, <1>3 DEF Transfers
  <2> QED
    BY <1>1, <2>1, <2>2
<1> QED
  BY <1>2, <1>3

LEMMA BreakerReturned ==
  ASSUME Consistent, Returned("finhub.circuit_breaker.v1")
  PROVE  /\ BreakerInputs(input)
         /\ batch.records = BreakerRecords(input) /\ batch.truth = BreakerTruth(input)
<1>1. /\ call \in Calls /\ input = Inputs(call)
      /\ input.preset = "finhub.circuit_breaker.v1" /\ batch = Generated(input)
  BY DEF Consistent, Returned
<1>2. batch = CircuitBreaker(input)
  BY <1>1 DEF Generated
<1>3. batch = [records |-> BreakerRecords(input), truth |-> BreakerTruth(input), sum |-> 0]
  BY <1>2, BreakerBatch
<1>4. BreakerInputs(input)
  BY <1>1, InputsOfCall DEF BreakerInputs
<1> QED
  BY <1>3, <1>4

(* Whatever is drawn and asked for, the positions the circuit breaker's    *)
(* ground truth names are those of the transfers to a counterparty nobody  *)
(* paid before, and they fit into two minutes.                             *)
THEOREM RunTriggersAreTheBurst == Spec => []TriggersAreTheBurst
<1>1. ASSUME Consistent, Returned("finhub.circuit_breaker.v1")
      PROVE  /\ BreakerInputs(input)
             /\ batch.records = BreakerRecords(input) /\ batch.truth = BreakerTruth(input)
  BY <1>1, BreakerReturned
<1>2. ASSUME Consistent, Returned("finhub.circuit_breaker.v1")
      PROVE  /\ Named = {i \in Flows : Records[i].party = FirstSeen}
             /\ \A i, j \in Named : Records[i].minute - Records[j].minute < 120
  <2> DEFINE n == Transfers(input)
             m == 1 + BaselineFlows
  <2>1. n \in Nat \ {0} /\ m \in Nat /\ BaselineFlows \in Nat
    BY BreakerSizes
  <2>2. /\ Records = BreakerRecords(input) /\ Positions = 1 .. m + n
        /\ BreakerInputs(input) /\ batch.truth = BreakerTruth(input)
    BY <1>1, <1>2 DEF Records, Positions, BreakerRecords
  <2>3. Named = m + 1 .. m + n
    <3>1. DOMAIN batch.truth = 1..n /\ \A j \in 1..n : batch.truth[j].indices = {m + j}
      BY <2>2 DEF BreakerTruth
    <3>2. Named = UNION {batch.truth[j].indices : j \in 1..n}
      BY <3>1 DEF Named, Entries, Range
    <3>3. \A i : i \in Named <=> \E j \in 1..n : i = m + j
      BY <3>1, <3>2
    <3>4. \A i : i \in m + 1 .. m + n <=> \E j \in 1..n : i = m + j
      <4> HIDE DEF n, m
      <4>1. \A i \in m + 1 .. m + n : i - m \in 1..n /\ i = m + (i - m)
        BY <2>1
      <4>2. \A j \in 1..n : m + j \in m + 1 .. m + n
        BY <2>1
      <4> QED
        BY <4>1, <4>2
    <3> QED
      BY <3>3, <3>4
  <2>4. Records[1].kind = "bank_account"
    BY <2>1, <2>2 DEF BreakerRecords, Account
  <2>5. ASSUME NEW i \in 2 .. m + n
        PROVE  Records[i].kind = "cash_flow" /\ (Records[i].party = FirstSeen <=> i > m)
    BY <2>2, <2>5, BreakerParties
  <2>6. ASSUME NEW i \in m + 1 .. m + n
        PROVE  i - m - 1 \in 0 .. n - 1 /\ Records[i] = Transfer(input, i - m - 1)
    <3>1. i \in 1 .. m + n /\ i # 1 /\ ~ (i <= m) /\ i - BaselineFlows - 2 = i - m - 1
          /\ i - m - 1 \in 0 .. n - 1
      <4> HIDE DEF n
      <4> QED
        BY <2>1, <2>6
    <3> QED
      BY <2>2, <3>1 DEF BreakerRecords
  <2> HIDE DEF n, m
  <2>7. Flows = 2 .. m + n
    <3>1. \A i \in 1 .. m + n : i = 1 \/ i \in 2 .. m + n
      BY <2>1
    <3>2. 2 .. m + n \subseteq 1 .. m + n
      BY <2>1
    <3> QED
      BY <2>2, <2>4, <2>5, <3>1, <3>2 DEF Flows
  <2>8. Named = {i \in Flows : Records[i].party = FirstSeen}
    <3>1. m >= 1
      BY <2>1 DEF m
    <3>2. \A i \in 2 .. m + n : i > m <=> i \in m + 1 .. m + n
      BY <2>1
    <3>3. m + 1 .. m + n \subseteq 2 .. m + n
      BY <2>1, <3>1
    <3> QED
      BY <2>3, <2>5, <2>7, <3>2, <3>3
  <2>9. ASSUME NEW i \in Named, NEW j \in Named
        PROVE  Records[i].minute - Records[j].minute < 120
    BY <2>3, <2>6, BreakerMinutes DEF n
  <2> QED
    BY <2>8, <2>9
<1>3. Consistent => TriggersAreTheBurst
  BY <1>2 DEF TriggersAreTheBurst
<1> QED
  BY <1>3, AlwaysConsistent, PTL

-----------------------------------------------------------------------------
(* Batches whose records and whose ground truth are of given sets, and     *)
(* what the operations on batches make of them.                            *)
BatchOf(RS, TS) == [records : Seq(RS), truth : Seq(TS), sum : Int]

LEMMA BatchFields ==
  ASSUME NEW RS, NEW TS, NEW b \in BatchOf(RS, TS)
  PROVE  b = [records |-> b.records, truth |-> b.truth, sum |-> b.sum]
         /\ b.records \in Seq(RS) /\ b.truth \in Seq(TS) /\ b.sum \in Int
BY DEF BatchOf

LEMMA AddTo ==
  ASSUME NEW RS, NEW TS, NEW b \in BatchOf(RS, TS), NEW rec \in RS
  PROVE  /\ Add(b, rec) \in BatchOf(RS, TS)
         /\ Add(b, rec).records = Append(b.records, rec)
         /\ Add(b, rec).truth = b.truth
         /\ Add(b, rec).sum = b.sum
<1> DEFINE r == b.records
           t == b.truth
           s == b.sum
<1>1. b = [records |-> r, truth |-> t, sum |-> s]
      /\ r \in Seq(RS) /\ t \in Seq(TS) /\ s \in Int
  BY BatchFields
<1>2. Append(r, rec) \in Seq(RS)
  BY <1>1
<1> HIDE DEF r, t, s
<1>3. [b EXCEPT !.records = Append(r, rec)] = [records |-> Append(r, rec), truth |-> t, sum |-> s]
  <2> DEFINE more == Append(r, rec)
  <2> HIDE DEF more
  <2>1. [b EXCEPT !.records = more] = [records |-> more, truth |-> t, sum |-> s]
    BY <1>1
  <2> QED
    BY <2>1 DEF more
<1>4. Add(b, rec) = [records |-> Append(r, rec), truth |-> t, sum |-> s]
  BY <1>3 DEF Add, r
<1> QED
  BY <1>1, <1>2, <1>4 DEF BatchOf, r, t, s

LEMMA MarkTo ==
  ASSUME NEW RS, NEW TS, NEW b \in BatchOf(RS, TS), NEW mark \in TS,
         NEW marked, marked = [b EXCEPT !.truth = Append(@, mark)]
  PROVE  /\ marked \in BatchOf(RS, TS)
         /\ marked.records = b.records
         /\ marked.truth = Append(b.truth, mark)
         /\ marked.sum = b.sum
<1> DEFINE r == b.records
           t == b.truth
           s == b.sum
<1>1. b = [records |-> r, truth |-> t, sum |-> s]
      /\ r \in Seq(RS) /\ t \in Seq(TS) /\ s \in Int
  BY BatchFields
<1>2. Append(t, mark) \in Seq(TS)
  BY <1>1
<1> HIDE DEF r, t, s
<1>3. [b EXCEPT !.truth = Append(t, mark)] = [records |-> r, truth |-> Append(t, mark), sum |-> s]
  <2> DEFINE more == Append(t, mark)
  <2> HIDE DEF more
  <2>1. [b EXCEPT !.truth = more] = [records |-> r, truth |-> more, sum |-> s]
    BY <1>1
  <2> QED
    BY <2>1 DEF more
<1>4. marked = [records |-> r, truth |-> Append(t, mark), sum |-> s]
  BY <1>3 DEF t
<1> QED
  BY <1>1, <1>2, <1>4 DEF BatchOf, r, t, s

LEMMA AddMarkedTo ==
  ASSUME NEW RS, NEW TS, NEW b \in BatchOf(RS, TS), NEW rec \in RS, NEW label,
         [label |-> label, ref |-> rec.ref, indices |-> {Len(b.records) + 1}] \in TS
  PROVE  /\ AddMarked(b, label, rec) \in BatchOf(RS, TS)
         /\ AddMarked(b, label, rec).records = Append(b.records, rec)
         /\ AddMarked(b, label, rec).truth =
              Append(b.truth, [label |-> label, ref |-> rec.ref,
                               indices |-> {Len(b.records) + 1}])
         /\ AddMarked(b, label, rec).sum = b.sum
<1> DEFINE r == b.records
           t == b.truth
           s == b.sum
           mark == [label |-> label, ref |-> rec.ref, indices |-> {Len(b.records) + 1}]
<1>1. b = [records |-> r, truth |-> t, sum |-> s]
      /\ r \in Seq(RS) /\ t \in Seq(TS) /\ s \in Int
  BY BatchFields
<1>2. Append(t, mark) \in Seq(TS) /\ Append(r, rec) \in Seq(RS)
  BY <1>1
<1>3. AddMarked(b, label, rec)
        = [b EXCEPT !.records = Append(@, rec), !.truth = Append(@, mark)]
  BY DEF AddMarked
<1> HIDE DEF r, t, s, mark
<1>4. AddMarked(b, label, rec)
        = [records |-> Append(r, rec), truth |-> Append(t, mark), sum |-> s]
  BY <1>1, <1>3
<1> QED
  BY <1>1, <1>2, <1>4 DEF BatchOf, r, t, s, mark

LEMMA AppendRange ==
  ASSUME NEW S, NEW s \in Seq(S), NEW x \in S
  PROVE  /\ Range(Append(s, x)) = Range(s) \cup {x}
         /\ Len(Append(s, x)) = Len(s) + 1
         /\ \A i \in 1..Len(s) : Append(s, x)[i] = s[i]
         /\ Append(s, x)[Len(s) + 1] = x
<1> DEFINE t == Append(s, x)
<1>1. /\ Len(t) = Len(s) + 1 /\ Len(s) \in Nat
      /\ \A i \in 1..Len(s) : t[i] = s[i]
      /\ t[Len(s) + 1] = x
      /\ DOMAIN t = 1 .. Len(s) + 1 /\ DOMAIN s = 1..Len(s)
  OBVIOUS
<1> HIDE DEF t
<1>2. Range(t) \subseteq Range(s) \cup {x}
  BY <1>1 DEF Range
<1>3. Range(s) \cup {x} \subseteq Range(t)
  <2>1. 1..Len(s) \subseteq DOMAIN t /\ Len(s) + 1 \in DOMAIN t
    BY <1>1
  <2> QED
    BY <1>1, <2>1 DEF Range
<1> QED
  BY <1>1, <1>2, <1>3 DEF t

-----------------------------------------------------------------------------
(* finhub.reconciliation: what may be in a batch, and what is in it after  *)
(* k pairs.  The first M pairs are the mismatched ones.                    *)
Mismatched(p) == RoundHundredths(p.pairs * p.mismatch_ratio)
ReconRef(i) == <<"RECON", i>>
ReconDraw(p, i) == Cycle(p.draws, i)
ReconFlow(p, i) == Flow(ReconRef(i), 100 + ReconDraw(p, i), ReconDraw(p, i), Unbooked, 0)
ReconLeg(p, i) == Leg(ReconRef(i), 100 + ReconDraw(p, i), ReconDraw(p, i))
WrongAmount(p, i) ==
  Leg(ReconRef(i), 100 + ReconDraw(p, i) + 1 + ReconDraw(p, i), ReconDraw(p, i))
WrongDate(p, i) == Leg(ReconRef(i), 100 + ReconDraw(p, i), ReconDraw(p, i) - 3)

ReconRecords(p) ==
  UNION {{Account},
         {ReconFlow(p, i) : i \in 0 .. p.pairs - 1},
         {ReconLeg(p, i) : i \in Mismatched(p) .. p.pairs - 1},
         {WrongAmount(p, i) : i \in 0 .. Mismatched(p) - 1},
         {WrongDate(p, i) : i \in 0 .. Mismatched(p) - 1}}

ReconMarks ==
  [label : {"amount", "date", "missing_leg"}, ref : {ReconRef(i) : i \in Nat},
   indices : SUBSET Nat]

Reconciled(p, k, b) ==
  /\ b \in BatchOf(ReconRecords(p), ReconMarks)
  /\ Account \in Range(b.records)
  /\ \A i \in 0 .. k - 1 : ReconFlow(p, i) \in Range(b.records)
  /\ \A i \in 0 .. k - 1 : i >= Mismatched(p) => ReconLeg(p, i) \in Range(b.records)
  /\ Len(b.truth) = IF k <= Mismatched(p) THEN k ELSE Mismatched(p)
  /\ \A j \in 1..Len(b.truth) : /\ b.truth[j].ref = ReconRef(j - 1)
                                /\ b.truth[j].indices \subseteq 1..Len(b.records)

ReconInputs(p) ==
  /\ p.pairs \in Nat \ {0}
  /\ Mismatched(p) \in 0..p.pairs
  /\ p.draws \in Seq(Nat) /\ p.draws # << >>
  /\ p.mismatch_types \in Seq(STRING) /\ p.mismatch_types # << >>
  /\ \A i \in 1..Len(p.mismatch_types) :
       p.mismatch_types[i] \in {"amount", "date", "missing_leg"}

(* A pair that is not mismatched adds its flow and its leg.                *)
LEMMA MatchedPair ==
  ASSUME NEW p, ReconInputs(p), NEW k \in Mismatched(p) .. p.pairs - 1,
         NEW b, Reconciled(p, k, b)
  PROVE  Reconciled(p, k + 1, Add(Add(b, ReconFlow(p, k)), ReconLeg(p, k)))
<1> DEFINE RS == ReconRecords(p)
           M == Mismatched(p)
           flowed == Add(b, ReconFlow(p, k))
           paired == Add(flowed, ReconLeg(p, k))
<1>1. /\ M \in Nat /\ k \in Nat /\ k \in 0 .. p.pairs - 1 /\ k >= M
      /\ \A i \in 0 .. (k + 1) - 1 : i \in 0 .. k - 1 \/ i = k
  BY DEF ReconInputs
<1>2. ReconFlow(p, k) \in RS /\ ReconLeg(p, k) \in RS
  BY <1>1 DEF ReconRecords
<1>3. b \in BatchOf(RS, ReconMarks) /\ b.records \in Seq(RS)
  BY BatchFields DEF Reconciled
<1> HIDE DEF RS, M
<1>4. /\ flowed \in BatchOf(RS, ReconMarks)
      /\ flowed.records = Append(b.records, ReconFlow(p, k))
      /\ flowed.truth = b.truth
  BY <1>2, <1>3, AddTo
<1> HIDE DEF flowed
<1>5. /\ paired \in BatchOf(RS, ReconMarks)
      /\ paired.records = Append(flowed.records, ReconLeg(p, k))
      /\ paired.truth = b.truth
  BY <1>2, <1>4, AddTo
<1> HIDE DEF paired
<1>6. /\ Range(paired.records) = Range(b.records) \cup {ReconFlow(p, k), ReconLeg(p, k)}
      /\ Len(paired.records) = Len(b.records) + 2
      /\ Len(b.records) \in Nat
  <2>1. flowed.records \in Seq(RS)
    BY <1>4, BatchFields
  <2>2. /\ Range(flowed.records) = Range(b.records) \cup {ReconFlow(p, k)}
        /\ Len(flowed.records) = Len(b.records) + 1
    BY <1>2, <1>3, <1>4, AppendRange
  <2>3. /\ Range(paired.records) = Range(flowed.records) \cup {ReconLeg(p, k)}
        /\ Len(paired.records) = Len(flowed.records) + 1
    BY <1>2, <1>5, <2>1, AppendRange
  <2>4. Len(b.records) \in Nat
    BY <1>3
  <2> QED
    BY <2>2, <2>3, <2>4
<1>7. Len(b.truth) = M
  BY <1>1 DEF Reconciled, M
<1>8. ASSUME NEW j \in 1..Len(paired.truth)
      PROVE  /\ paired.truth[j].ref = ReconRef(j - 1)
             /\ paired.truth[j].indices \subseteq 1..Len(paired.records)
  <2>1. j \in 1..Len(b.truth) /\ 1..Len(b.records) \subseteq 1..Len(paired.records)
    BY <1>5, <1>6
  <2> QED
    BY <1>5, <2>1 DEF Reconciled
<1>9. ASSUME NEW i \in 0 .. (k + 1) - 1
      PROVE  /\ ReconFlow(p, i) \in Range(paired.records)
             /\ i >= M => ReconLeg(p, i) \in Range(paired.records)
  BY <1>1, <1>6 DEF Reconciled, M
<1>10. Account \in Range(paired.records)
  BY <1>6 DEF Reconciled
<1>11. Len(paired.truth) = IF k + 1 <= M THEN k + 1 ELSE M
  BY <1>1, <1>5, <1>7
<1> QED
  BY <1>5, <1>8, <1>9, <1>10, <1>11 DEF Reconciled, RS, M, paired, flowed

(* One that is mismatched adds its flow, an entry and perhaps a leg.       *)
LEMMA MismatchedPair ==
  ASSUME NEW p, ReconInputs(p), NEW k \in 0 .. Mismatched(p) - 1,
         NEW b, Reconciled(p, k, b),
         NEW b2 \in BatchOf(ReconRecords(p), ReconMarks),
         Range(Add(b, ReconFlow(p, k)).records) \subseteq Range(b2.records),
         Len(Add(b, ReconFlow(p, k)).records) <= Len(b2.records),
         NEW mark \in ReconMarks, b2.truth = Append(b.truth, mark),
         mark.ref = ReconRef(k), mark.indices \subseteq 1..Len(b2.records)
  PROVE  Reconciled(p, k + 1, b2)
<1> DEFINE RS == ReconRecords(p)
           M == Mismatched(p)
           flowed == Add(b, ReconFlow(p, k))
<1>1. /\ M \in Nat /\ k \in Nat /\ k \in 0 .. p.pairs - 1 /\ k + 1 <= M
      /\ \A i \in 0 .. (k + 1) - 1 : i \in 0 .. k - 1 \/ i = k
      /\ \A i \in 0 .. (k + 1) - 1 : ~ (i >= M)
  BY DEF ReconInputs
<1>2. ReconFlow(p, k) \in RS
  BY <1>1 DEF ReconRecords
<1>3. b \in BatchOf(RS, ReconMarks) /\ b.records \in Seq(RS) /\ b.truth \in Seq(ReconMarks)
      /\ b2.records \in Seq(RS)
  BY BatchFields DEF Reconciled
<1> HIDE DEF RS, M
<1>4. flowed.records = Append(b.records, ReconFlow(p, k))
  BY <1>2, <1>3, AddTo
<1>5. Range(b.records) \cup {ReconFlow(p, k)} \subseteq Range(b2.records)
      /\ Len(b.records) \in Nat /\ Len(b2.records) \in Nat /\ Len(b.records) + 1 <= Len(b2.records)
  BY <1>2, <1>3, <1>4, AppendRange
<1> HIDE DEF flowed
<1>6. Len(b.truth) = k
  BY <1>1 DEF Reconciled, M
<1>7. /\ Len(b2.truth) = k + 1
      /\ \A j \in 1..k : b2.truth[j] = b.truth[j]
      /\ b2.truth[k + 1] = mark
  BY <1>3, <1>6, AppendRange
<1>8. ASSUME NEW j \in 1..Len(b2.truth)
      PROVE  /\ b2.truth[j].ref = ReconRef(j - 1)
             /\ b2.truth[j].indices \subseteq 1..Len(b2.records)
  <2>1. CASE j \in 1..k
    <3>1. /\ b.truth[j].ref = ReconRef(j - 1)
          /\ b.truth[j].indices \subseteq 1..Len(b.records)
      BY <1>6, <2>1 DEF Reconciled
    <3>2. 1..Len(b.records) \subseteq 1..Len(b2.records)
      BY <1>5
    <3> QED
      BY <1>7, <2>1, <3>1, <3>2
  <2>2. CASE j = k + 1
    <3>1. j - 1 = k
      BY <1>1, <2>2
    <3> QED
      BY <1>7, <2>2, <3>1
  <2> QED
    BY <1>1, <1>7, <2>1, <2>2
<1>9. \A i \in 0 .. (k + 1) - 1 : ReconFlow(p, i) \in Range(b2.records)
  BY <1>1, <1>5 DEF Reconciled
<1>10. Account \in Range(b2.records)
  BY <1>5 DEF Reconciled
<1>11. Len(b2.truth) = IF k + 1 <= M THEN k + 1 ELSE M
  BY <1>1, <1>7
<1> QED
  BY <1>1, <1>8, <1>9, <1>10, <1>11 DEF Reconciled, M

(* Each kind of pair is one of the two.                                    *)
LEMMA PairReconciles ==
  ASSUME NEW p, ReconInputs(p), NEW k \in 0 .. p.pairs - 1, NEW b, Reconciled(p, k, b)
  PROVE  Reconciled(p, k + 1, Pair(p, b, k))
<1> DEFINE RS == ReconRecords(p)
           M == Mismatched(p)
           flowed == Add(b, ReconFlow(p, k))
           kind == Cycle(p.mismatch_types, k)
           mismatch == IF k < M THEN kind ELSE "none"
           none == Add(flowed, ReconLeg(p, k))
           missing == Unlegged(flowed, ReconRef(k))
           amount == AddMarked(flowed, "amount", WrongAmount(p, k))
           date == AddMarked(flowed, "date", WrongDate(p, k))
<1>1. /\ M \in 0..p.pairs /\ p.pairs \in Nat /\ k \in Nat
      /\ kind \in {"amount", "date", "missing_leg"}
  <2>1. k \in Nat
    OBVIOUS
  <2>2. PICK i \in 1..Len(p.mismatch_types) : kind = p.mismatch_types[i]
    BY <2>1, CycleIn DEF ReconInputs
  <2> QED
    BY <2>1, <2>2 DEF ReconInputs
<1>2. /\ mismatch = "none" => Pair(p, b, k) = none
      /\ mismatch = "missing_leg" => Pair(p, b, k) = missing
      /\ mismatch = "amount" => Pair(p, b, k) = amount
      /\ mismatch = "date" => Pair(p, b, k) = date
  BY DEF Pair, ReconFlow, ReconRef, ReconDraw, ReconLeg, WrongAmount, WrongDate, Mismatched
<1>3. ReconFlow(p, k) \in RS
  BY DEF ReconRecords
<1>4. b \in BatchOf(RS, ReconMarks)
  BY DEF Reconciled
<1>5. /\ flowed \in BatchOf(RS, ReconMarks) /\ flowed.truth = b.truth
      /\ flowed.records \in Seq(RS) /\ Len(flowed.records) \in Nat
  <2> HIDE DEF RS, flowed
  <2>1. flowed \in BatchOf(RS, ReconMarks) /\ flowed.truth = b.truth
    BY <1>3, <1>4, AddTo DEF flowed
  <2>2. flowed.records \in Seq(RS)
    BY <2>1, BatchFields
  <2> QED
    BY <2>1, <2>2
<1>6. CASE ~ (k < M)
  <2>1. k \in M .. p.pairs - 1
    BY <1>1, <1>6
  <2>2. Reconciled(p, k + 1, none)
    BY <2>1, MatchedPair
  <2> QED
    BY <1>2, <1>6, <2>2
<1>7. CASE k < M
  <2>1. k \in 0 .. M - 1 /\ mismatch = kind
    BY <1>1, <1>7
  <2>3. CASE kind = "missing_leg"
    <3> DEFINE mark == [label |-> "missing_leg", ref |-> ReconRef(k), indices |-> {}]
    <3>1. mark \in ReconMarks /\ mark.ref = ReconRef(k) /\ mark.indices = {}
      BY <1>1 DEF ReconMarks
    <3>2. missing = [flowed EXCEPT !.truth = Append(@, mark)]
      BY DEF Unlegged
    <3> HIDE DEF RS, flowed, mark
    <3>3. /\ missing \in BatchOf(RS, ReconMarks) /\ missing.records = flowed.records
          /\ missing.truth = Append(b.truth, mark)
      <4> HIDE DEF missing
      <4> QED
        BY <1>5, <3>1, <3>2, MarkTo
    <3> HIDE DEF missing
    <3>4. Reconciled(p, k + 1, missing)
      BY <1>5, <2>1, <3>1, <3>3, MismatchedPair DEF RS, flowed
    <3> QED
      BY <1>2, <2>1, <2>3, <3>4
  <2>4. CASE kind = "amount"
    <3> DEFINE leg == WrongAmount(p, k)
               mark == [label |-> "amount", ref |-> leg.ref, indices |-> {Len(flowed.records) + 1}]
    <3>1. leg \in RS /\ leg.ref = ReconRef(k)
      BY <2>1 DEF ReconRecords, WrongAmount, Leg
    <3> HIDE DEF RS, flowed, leg
    <3>2. /\ mark \in ReconMarks /\ mark.ref = ReconRef(k)
          /\ mark.indices = {Len(flowed.records) + 1}
      BY <1>1, <1>5, <3>1 DEF ReconMarks
    <3>3. /\ amount \in BatchOf(RS, ReconMarks) /\ amount.records = Append(flowed.records, leg)
          /\ amount.truth = Append(b.truth, mark)
      BY <1>5, <3>1, <3>2, AddMarkedTo DEF leg
    <3> HIDE DEF mark, amount
    <3>4. /\ Range(flowed.records) \subseteq Range(amount.records)
          /\ Len(amount.records) = Len(flowed.records) + 1
      BY <1>5, <3>1, <3>3, AppendRange
    <3>5. mark.indices \subseteq 1..Len(amount.records) /\ Len(flowed.records) <= Len(amount.records)
      BY <1>5, <3>2, <3>4
    <3>6. Reconciled(p, k + 1, amount)
      BY <1>5, <2>1, <3>2, <3>3, <3>4, <3>5, MismatchedPair DEF RS, flowed
    <3> QED
      BY <1>2, <2>1, <2>4, <3>6
  <2>5. CASE kind = "date"
    <3> DEFINE leg == WrongDate(p, k)
               mark == [label |-> "date", ref |-> leg.ref, indices |-> {Len(flowed.records) + 1}]
    <3>1. leg \in RS /\ leg.ref = ReconRef(k)
      BY <2>1 DEF ReconRecords, WrongDate, Leg
    <3> HIDE DEF RS, flowed, leg
    <3>2. /\ mark \in ReconMarks /\ mark.ref = ReconRef(k)
          /\ mark.indices = {Len(flowed.records) + 1}
      BY <1>1, <1>5, <3>1 DEF ReconMarks
    <3>3. /\ date \in BatchOf(RS, ReconMarks) /\ date.records = Append(flowed.records, leg)
          /\ date.truth = Append(b.truth, mark)
      BY <1>5, <3>1, <3>2, AddMarkedTo DEF leg
    <3> HIDE DEF mark, date
    <3>4. /\ Range(flowed.records) \subseteq Range(date.records)
          /\ Len(date.records) = Len(flowed.records) + 1
      BY <1>5, <3>1, <3>3, AppendRange
    <3>5. mark.indices \subseteq 1..Len(date.records) /\ Len(flowed.records) <= Len(date.records)
      BY <1>5, <3>2, <3>4
    <3>6. Reconciled(p, k + 1, date)
      BY <1>5, <2>1, <3>2, <3>3, <3>4, <3>5, MismatchedPair DEF RS, flowed
    <3> QED
      BY <1>2, <2>1, <2>5, <3>6
  <2> QED
    BY <1>1, <2>3, <2>4, <2>5
<1> QED
  BY <1>6, <1>7

LEMMA ReconciliationBatch ==
  ASSUME NEW p, ReconInputs(p)
  PROVE  Reconciled(p, p.pairs, Reconciliation(p))
<1> DEFINE n == p.pairs
           first == [Empty EXCEPT !.records = <<Account>>]
           Body(b, k) == Pair(p, b, k)
           Loop(f) == [k \in 0..n |-> IF k = 0 THEN first ELSE Body(f[k - 1], k - 1)]
           chosen == CHOOSE f : f = Loop(f)
           W == [k \in 0..n |-> {b \in BatchOf(ReconRecords(p), ReconMarks) : Reconciled(p, k, b)}]
           step == [k \in 0 .. n - 1 |-> [c \in W[k] |-> Body(c, k)]]
<1>1. Reconciliation(p) = chosen[n]
  BY Zenon DEF Reconciliation, ForRange
<1>2. n \in Nat /\ n \in 0..n
  BY DEF ReconInputs
<1>3. first \in W[0]
  <2>1. first = [records |-> <<Account>>, truth |-> << >>, sum |-> 0]
    BY DEF Empty
  <2>2. Account \in ReconRecords(p)
    BY DEF ReconRecords
  <2>3. /\ <<Account>> \in Seq(ReconRecords(p)) /\ << >> \in Seq(ReconMarks)
        /\ Range(<<Account>>) = {Account}
    <3> HIDE DEF first
    <3> QED
      BY <2>2 DEF Range
  <2>4. first \in BatchOf(ReconRecords(p), ReconMarks)
    <3> HIDE DEF first
    <3> QED
      BY <2>1, <2>3 DEF BatchOf
  <2>5. /\ first.records = <<Account>> /\ first.truth = << >> /\ Len(<< >>) = 0
    BY <2>1
  <2> HIDE DEF first
  <2>6. Reconciled(p, 0, first)
    BY <2>3, <2>4, <2>5 DEF Reconciled, ReconInputs
  <2> QED
    BY <1>2, <2>4, <2>6
<1>4. ASSUME NEW k \in 0 .. n - 1, NEW c \in W[k]
      PROVE  step[k][c] = Body(c, k) /\ Body(c, k) \in W[k + 1]
  <2>1. k \in 0..n /\ k + 1 \in 0..n
    BY <1>2
  <2>2. Reconciled(p, k, c)
    BY <2>1
  <2>3. Reconciled(p, k + 1, Body(c, k))
    BY <2>2, PairReconciles
  <2>4. Body(c, k) \in BatchOf(ReconRecords(p), ReconMarks)
    BY <2>3 DEF Reconciled
  <2> HIDE DEF Body
  <2> QED
    BY <2>1, <2>3, <2>4
<1>5. \A k \in 0 .. n - 1 : \A c \in W[k] : step[k][c] \in W[k + 1]
  BY <1>4
<1> HIDE DEF n, first, Body, W, step
<1>6. PICK run : IsRun(run, n, W, first, step)
  BY <1>2, <1>3, <1>5, RunExists
<1>7. \E f : f = Loop(f)
  <2>0. run = [k \in 0..n |-> run[k]] /\ run[0] = first
    BY <1>2, <1>6, RunFacts
  <2>1. \A k \in 0 .. n - 1 : run[k + 1] = Body(run[k], k)
    <3>1. \A k \in 0 .. n - 1 : run[k] \in W[k] /\ run[k + 1] = step[k][run[k]]
      BY <1>2, <1>6, RunFacts
    <3> QED
      BY <1>4, <3>1
  <2>2. ASSUME NEW k \in 0..n
        PROVE  run[k] = IF k = 0 THEN first ELSE Body(run[k - 1], k - 1)
    <3>1. CASE k = 0
      BY <2>0, <3>1
    <3>2. CASE k # 0
      <4>1. k - 1 \in 0 .. n - 1 /\ (k - 1) + 1 = k
        BY <1>2, <3>2
      <4> QED
        BY <2>1, <3>2, <4>1
    <3> QED
      BY <3>1, <3>2
  <2>3. run = [k \in 0..n |-> IF k = 0 THEN first ELSE Body(run[k - 1], k - 1)]
    BY <2>0, <2>2
  <2> QED
    BY <2>3
<1>8. chosen = Loop(chosen)
  <2> HIDE DEF Loop
  <2> QED
    BY <1>7
<1> HIDE DEF chosen
<1>9. chosen[0] = first /\ \A k \in 0 .. n - 1 : chosen[k + 1] = Body(chosen[k], k)
  BY <1>2, <1>8
<1>10. chosen[n] \in W[n]
  BY <1>2, <1>3, <1>4, <1>9, LoopEnds
<1> QED
  BY <1>1, <1>2, <1>10 DEF W, n

(* The records of a reconciliation, by kind.                               *)
LEMMA ReconKinds ==
  ASSUME NEW p, ReconInputs(p), NEW rec \in ReconRecords(p)
  PROVE  /\ rec.kind \in {"bank_account", "cash_flow", "financial_transaction"}
         /\ rec.kind = "cash_flow" => \E i \in 0 .. p.pairs - 1 : rec = ReconFlow(p, i)
         /\ rec.kind = "financial_transaction" =>
              \/ \E i \in Mismatched(p) .. p.pairs - 1 : rec = ReconLeg(p, i)
              \/ \E i \in 0 .. Mismatched(p) - 1 : rec \in {WrongAmount(p, i), WrongDate(p, i)}
<1>1. Account.kind = "bank_account"
  BY DEF Account
<1>2. \A i : /\ ReconFlow(p, i).kind = "cash_flow"
             /\ ReconLeg(p, i).kind = "financial_transaction"
             /\ WrongAmount(p, i).kind = "financial_transaction"
             /\ WrongDate(p, i).kind = "financial_transaction"
  BY DEF ReconFlow, ReconLeg, WrongAmount, WrongDate, Flow, Leg
<1> QED
  BY <1>1, <1>2 DEF ReconRecords

LEMMA ReconFields ==
  ASSUME NEW p, NEW i
  PROVE  /\ ReconFlow(p, i).ref = ReconRef(i) /\ ReconLeg(p, i).ref = ReconRef(i)
         /\ WrongAmount(p, i).ref = ReconRef(i) /\ WrongDate(p, i).ref = ReconRef(i)
         /\ ReconFlow(p, i).amount = 100 + ReconDraw(p, i)
         /\ ReconLeg(p, i).amount = 100 + ReconDraw(p, i)
         /\ WrongAmount(p, i).amount = 100 + ReconDraw(p, i) + 1 + ReconDraw(p, i)
         /\ ReconFlow(p, i).day = ReconDraw(p, i)
         /\ ReconLeg(p, i).day = ReconDraw(p, i)
         /\ WrongDate(p, i).day = ReconDraw(p, i) - 3
         /\ ReconFlow(p, i).kind = "cash_flow"
         /\ ReconLeg(p, i).kind = "financial_transaction"
BY DEF ReconFlow, ReconLeg, WrongAmount, WrongDate, Flow, Leg

(* The matcher pairs a flow with its leg if and only if they were made     *)
(* alike.                                                                  *)
LEMMA ReconMatched ==
  ASSUME NEW p, ReconInputs(p), Reconciled(p, p.pairs, batch)
  PROVE  /\ {Records[i].ref : i \in Flows} = {ReconRef(i) : i \in 0 .. p.pairs - 1}
         /\ Matched = {ReconRef(i) : i \in Mismatched(p) .. p.pairs - 1}
<1> DEFINE n == p.pairs
           M == Mismatched(p)
<1>1. n \in Nat /\ M \in 0..n /\ \A i \in 0 .. n - 1 : ReconDraw(p, i) \in Nat
  <2>1. n \in Nat /\ M \in 0..n /\ p.draws \in Seq(Nat) /\ p.draws # << >>
    BY DEF ReconInputs
  <2>2. ASSUME NEW i \in 0 .. n - 1 PROVE ReconDraw(p, i) \in Nat
    <3>1. i \in Nat
      BY <2>1
    <3> QED
      BY <2>1, <3>1, CycleIn DEF ReconDraw
  <2> QED
    BY <2>1, <2>2
<1>2. /\ DOMAIN Records = 1..Len(Records)
      /\ \A i \in DOMAIN Records : Records[i] \in ReconRecords(p)
  <2>1. Records \in Seq(ReconRecords(p))
    BY BatchFields DEF Reconciled, Records
  <2> QED
    BY <2>1
<1>3. \A i \in DOMAIN Records :
        Records[i].kind = "cash_flow" => \E j \in 0 .. n - 1 : Records[i] = ReconFlow(p, j)
  BY <1>2, ReconKinds
<1>4. \A j \in 0 .. n - 1 : \E i \in DOMAIN Records : Records[i] = ReconFlow(p, j)
  BY DEF Reconciled, Range, Records
<1>5. \A j \in M .. n - 1 : \E i \in DOMAIN Records : Records[i] = ReconLeg(p, j)
  <2>1. \A j \in M .. n - 1 : j \in 0 .. n - 1 /\ j >= M
    BY <1>1
  <2> QED
    BY <2>1 DEF Reconciled, Range, Records
<1>6. \A i, j : ReconRef(i) = ReconRef(j) => i = j
  BY DEF ReconRef
<1>7. {Records[i].ref : i \in Flows} = {ReconRef(i) : i \in 0 .. n - 1}
  <2>1. \A i \in Flows : \E j \in 0 .. n - 1 : Records[i].ref = ReconRef(j)
    BY <1>3, ReconFields DEF Flows, Positions
  <2>2. \A j \in 0 .. n - 1 : \E i \in Flows : Records[i].ref = ReconRef(j)
    BY <1>4, ReconFields DEF Flows, Positions
  <2> QED
    BY <2>1, <2>2
<1> HIDE DEF n, M
<1>8. ASSUME NEW f \in Flows, NEW j \in Positions,
             Records[j].kind = "financial_transaction", SameMovement(f, j)
      PROVE  \E i \in M .. n - 1 : Records[f].ref = ReconRef(i)
  <2>1. PICK i \in 0 .. n - 1 : Records[f] = ReconFlow(p, i)
    BY <1>3 DEF Flows, Positions
  <2>2. \/ \E k \in M .. n - 1 : Records[j] = ReconLeg(p, k)
        \/ \E k \in 0 .. M - 1 : Records[j] \in {WrongAmount(p, k), WrongDate(p, k)}
    BY <1>2, <1>8, ReconKinds DEF Positions, n, M
  <2>3. /\ Records[f].ref = Records[j].ref /\ Records[f].amount = Records[j].amount
        /\ Records[f].day = Records[j].day
    BY <1>8 DEF SameMovement
  <2>4. ASSUME NEW k \in 0 .. M - 1, Records[j] = WrongAmount(p, k) PROVE FALSE
    <3>1. ReconRef(i) = ReconRef(k)
      BY <2>1, <2>3, <2>4, ReconFields
    <3>2. i = k
      BY <1>6, <3>1
    <3>3. 100 + ReconDraw(p, i) = 100 + ReconDraw(p, i) + 1 + ReconDraw(p, i)
      BY <2>1, <2>3, <2>4, <3>2, ReconFields
    <3> QED
      BY <1>1, <2>1, <3>3
  <2>5. ASSUME NEW k \in 0 .. M - 1, Records[j] = WrongDate(p, k) PROVE FALSE
    <3>1. ReconRef(i) = ReconRef(k)
      BY <2>1, <2>3, <2>5, ReconFields
    <3>2. i = k
      BY <1>6, <3>1
    <3>3. ReconDraw(p, i) = ReconDraw(p, i) - 3
      BY <2>1, <2>3, <2>5, <3>2, ReconFields
    <3> QED
      BY <1>1, <2>1, <3>3
  <2>6. PICK k \in M .. n - 1 : Records[j] = ReconLeg(p, k)
    BY <2>2, <2>4, <2>5
  <2> QED
    BY <2>3, <2>6, ReconFields
<1>9. ASSUME NEW i \in M .. n - 1
      PROVE  \E f \in Flows : /\ Records[f].ref = ReconRef(i)
                              /\ \E j \in Positions :
                                   /\ Records[j].kind = "financial_transaction"
                                   /\ SameMovement(f, j)
  <2>1. i \in 0 .. n - 1
    BY <1>1
  <2>2. PICK f \in DOMAIN Records : Records[f] = ReconFlow(p, i)
    BY <1>4, <2>1 DEF n
  <2>3. PICK j \in DOMAIN Records : Records[j] = ReconLeg(p, i)
    BY <1>5
  <2>4. f \in Flows /\ Records[f].ref = ReconRef(i)
    BY <2>2, ReconFields DEF Flows, Positions
  <2>5. Records[j].kind = "financial_transaction" /\ SameMovement(f, j)
    BY <2>2, <2>3, ReconFields DEF SameMovement
  <2> QED
    BY <2>3, <2>4, <2>5 DEF Positions
<1>10. Matched = {ReconRef(i) : i \in M .. n - 1}
  BY <1>8, <1>9 DEF Matched
<1> QED
  BY <1>7, <1>10 DEF n, M

LEMMA ReconInputsOfCall ==
  ASSUME NEW c \in Calls, c.preset = "finhub.reconciliation.v1",
         Inputs(c).mismatch_ratio # NaN
  PROVE  ReconInputs(Inputs(c))
<1> DEFINE p == Inputs(c)
           schema == Schema[c.preset]
<1>1. c.preset \in DOMAIN Schema
  BY CallsAssumption
<1>2. /\ {"pairs", "mismatch_ratio", "mismatch_types"} \subseteq DOMAIN schema
      /\ schema["pairs"].type = "int" /\ schema["pairs"].min >= 1
      /\ schema["mismatch_ratio"].type = "float"
      /\ schema["mismatch_types"].type = "multi"
  BY <1>1, PresetAssumption DEF HasParams
<1>3. /\ schema["mismatch_ratio"].max <= 100
      /\ schema["mismatch_types"].options \subseteq {"amount", "date", "missing_leg"}
  BY <1>1, PresetAssumption
<1>4. p.draws \in Seq(Nat) /\ p.draws # << >>
  BY InputsOfCall
<1>5. p["pairs"] \in Nat \ {0}
  BY <1>2, InputTypes
<1>6. p["mismatch_ratio"] = NaN \/ p["mismatch_ratio"] \in 0 .. schema["mismatch_ratio"].max
  BY <1>2, InputTypes
<1>7. /\ p["mismatch_types"] \in Seq(STRING) /\ p["mismatch_types"] # << >>
      /\ \A i \in 1..Len(p["mismatch_types"]) :
           p["mismatch_types"][i] \in schema["mismatch_types"].options
  BY <1>2, InputTypes
<1>8. Sound(schema["mismatch_ratio"])
  BY <1>1, <1>2, SchemaAssumption
<1>9. p["mismatch_ratio"] \in 0..100
  <2>1. schema["mismatch_ratio"].max \in Nat
    BY <1>2, <1>8 DEF Sound
  <2>2. p["mismatch_ratio"] # NaN
    OBVIOUS
  <2> HIDE DEF p, schema
  <2> QED
    BY <1>3, <1>6, <2>1, <2>2
<1> HIDE DEF p
<1>10. Mismatched(p) \in 0 .. p["pairs"]
  <2> DEFINE x == p["pairs"] * p["mismatch_ratio"]
  <2>1. x \in Nat /\ x <= 100 * p["pairs"]
    <3>1. \A a \in Nat, r \in 0..100 : a * r \in Nat /\ a * r <= 100 * a
      OBVIOUS
    <3> QED
      BY <1>5, <1>9, <3>1
  <2> HIDE DEF x
  <2>2. RoundHundredths(x) \in Nat /\ RoundHundredths(x) <= p["pairs"]
    BY <1>5, <2>1 DEF RoundHundredths
  <2> QED
    BY <1>5, <2>2 DEF Mismatched, x
<1> QED
  BY <1>3, <1>4, <1>5, <1>7, <1>10 DEF ReconInputs, p

LEMMA ReconciliationReturned ==
  ASSUME Consistent, Returned("finhub.reconciliation.v1")
  PROVE  ReconInputs(input) /\ Reconciled(input, input.pairs, batch)
<1>1. /\ call \in Calls /\ input = Inputs(call) /\ input.preset = call.preset
      /\ input.preset = "finhub.reconciliation.v1" /\ batch = Generated(input)
      /\ input.mismatch_ratio # NaN
  BY InputsOfCall DEF Consistent, Returned, RoundsNaN
<1>2. batch = Reconciliation(input)
  BY <1>1 DEF Generated
<1>3. ReconInputs(input)
  BY <1>1, ReconInputsOfCall
<1> QED
  BY <1>2, <1>3, ReconciliationBatch

(* What finhub.reconciliation announces is what a matcher finds, whatever  *)
(* the call: as many matches as expected, and the pairs it leaves are the  *)
(* ones in the ground truth, each of them once.                            *)
THEOREM RunMatcherLeavesTheMismatched == Spec => []MatcherLeavesTheMismatched
<1>1. ASSUME Consistent, Returned("finhub.reconciliation.v1")
      PROVE  ReconInputs(input) /\ Reconciled(input, input.pairs, batch)
  BY <1>1, ReconciliationReturned
<1>2. ASSUME Consistent, Returned("finhub.reconciliation.v1")
      PROVE  /\ Cardinality(Matched) = ExpectedMatches(input)
             /\ {Records[i].ref : i \in Flows} \ Matched = {entry.ref : entry \in Entries}
             /\ Len(batch.truth) = Cardinality({entry.ref : entry \in Entries})
  <2> DEFINE n == input.pairs
             M == Mismatched(input)
             at == [i \in 0 .. n - 1 |-> ReconRef(i)]
  <2>1. /\ n \in Nat /\ M \in 0..n
        /\ {Records[i].ref : i \in Flows} = {ReconRef(i) : i \in 0 .. n - 1}
        /\ Matched = {ReconRef(i) : i \in M .. n - 1}
    BY <1>1, <1>2, ReconMatched DEF ReconInputs
  <2>2. \A i, j : ReconRef(i) = ReconRef(j) => i = j
    BY DEF ReconRef
  <2>3. Entries = {batch.truth[j] : j \in 1..M} /\ Len(batch.truth) = M
        /\ \A j \in 1..M : batch.truth[j].ref = ReconRef(j - 1)
    <3>1. batch.truth \in Seq(ReconMarks)
      BY <1>1, <1>2, BatchFields DEF Reconciled
    <3>2. /\ Len(batch.truth) = M
          /\ \A j \in 1..Len(batch.truth) : batch.truth[j].ref = ReconRef(j - 1)
      BY <1>1, <1>2, <2>1 DEF Reconciled
    <3> QED
      BY <3>1, <3>2 DEF Entries, Range
  <2> HIDE DEF n, M
  <2>4. {entry.ref : entry \in Entries} = {ReconRef(i) : i \in 0 .. M - 1}
    <3>1. {entry.ref : entry \in Entries} = {ReconRef(j - 1) : j \in 1..M}
      BY <2>3
    <3>2. \A j \in 1..M : j - 1 \in 0 .. M - 1
      BY <2>1
    <3>3. \A i \in 0 .. M - 1 : i + 1 \in 1..M /\ (i + 1) - 1 = i
      BY <2>1
    <3>4. {ReconRef(j - 1) : j \in 1..M} = {ReconRef(i) : i \in 0 .. M - 1}
      BY <3>2, <3>3
    <3> QED
      BY <3>1, <3>4
  <2>5. /\ IsFiniteSet(M .. n - 1) /\ Cardinality(M .. n - 1) = n - M
        /\ IsFiniteSet(0 .. M - 1) /\ Cardinality(0 .. M - 1) = M
    <3>1. M \in Int /\ n - 1 \in Int /\ M - 1 \in Int /\ 0 \in Int
      BY <2>1
    <3>2. /\ IsFiniteSet(M .. n - 1)
          /\ Cardinality(M .. n - 1) = IF M > n - 1 THEN 0 ELSE (n - 1) - M + 1
      BY <3>1, FS_Interval
    <3>3. /\ IsFiniteSet(0 .. M - 1)
          /\ Cardinality(0 .. M - 1) = IF 0 > M - 1 THEN 0 ELSE (M - 1) - 0 + 1
      BY <3>1, FS_Interval
    <3> QED
      BY <2>1, <3>2, <3>3
  <2>6. \A S \in SUBSET (0 .. n - 1) :
          IsFiniteSet(S) => Cardinality({ReconRef(i) : i \in S}) = Cardinality(S)
    <3>1. ASSUME NEW S \in SUBSET (0 .. n - 1), IsFiniteSet(S)
          PROVE  Cardinality({ReconRef(i) : i \in S}) = Cardinality(S)
      <4>1. \A i \in S : at[i] = ReconRef(i)
        OBVIOUS
      <4> HIDE DEF at
      <4>2. \A i, j \in S : at[i] = at[j] => i = j
        BY <2>2, <4>1
      <4>3. {ReconRef(i) : i \in S} = {at[i] : i \in S}
        BY <4>1
      <4>4. Cardinality({at[i] : i \in S}) = Cardinality(S)
        BY <3>1, <4>2, ImageCardinality
      <4> QED
        BY <4>3, <4>4
    <3> QED
      BY <3>1
  <2>7. M .. n - 1 \subseteq 0 .. n - 1 /\ 0 .. M - 1 \subseteq 0 .. n - 1
    BY <2>1
  <2>8. Cardinality(Matched) = ExpectedMatches(input)
    <3>1. Cardinality(Matched) = n - M
      BY <2>1, <2>5, <2>6, <2>7
    <3> QED
      BY <3>1 DEF ExpectedMatches, n, M, Mismatched
  <2>9. {Records[i].ref : i \in Flows} \ Matched = {entry.ref : entry \in Entries}
    <3>1. 0 .. M - 1 = (0 .. n - 1) \ (M .. n - 1)
      BY <2>1
    <3>2. \A i \in 0 .. n - 1 : ReconRef(i) \in Matched <=> i \in M .. n - 1
      BY <2>1, <2>2
    <3> QED
      BY <2>1, <2>4, <3>1, <3>2
  <2>10. Len(batch.truth) = Cardinality({entry.ref : entry \in Entries})
    BY <2>3, <2>4, <2>5, <2>6, <2>7
  <2> QED
    BY <2>8, <2>9, <2>10
<1>3. Consistent => MatcherLeavesTheMismatched
  BY <1>2 DEF MatcherLeavesTheMismatched
<1> QED
  BY <1>3, AlwaysConsistent, PTL

-----------------------------------------------------------------------------
(* finhub.anomaly: what may be in a batch, and what is in it after k       *)
(* injections.                                                             *)
AnomalyLabels == {"amount_outlier", "off_hours", "duplicate", "structuring"}

StructuringSlice(k, s, day) ==
  Flow(<<"ANM-STR", k, s>>, StructuringAmount, day, 10 * 60 + 5 + s, k % Counterparties)

AnomalyRecords(p) ==
  UNION {{Account},
         {AnomalyBaseline(p)[i] : i \in 1..p.base_flows},
         {Duplicate(AnomalyBaseline(p)[i]) : i \in 1..p.base_flows},
         {Outlier(k, day) : k \in Nat, day \in Nat},
         {OffHours(k, day) : k \in Nat, day \in Nat},
         {StructuringSlice(k, s, day) : k \in Nat, s \in 0 .. Slices - 1, day \in Nat}}

AnomalyMarks(p) ==
  [label   : AnomalyLabels,
   ref     : {rec.ref : rec \in AnomalyRecords(p)} \cup {<<"ANM-STR", k>> : k \in Nat},
   indices : SUBSET Nat]

(* The record at position i of R is what its label says.                   *)
Injected(p, R, label, i) ==
  /\ label = "amount_outlier" => \E k, day \in Nat : R[i] = Outlier(k, day)
  /\ label = "off_hours" => \E k, day \in Nat : R[i] = OffHours(k, day)
  /\ label = "duplicate" =>
       \E j \in 1..p.base_flows : R[i] = Duplicate(AnomalyBaseline(p)[j])
  /\ label = "structuring" =>
       \E k, day, m \in Nat : /\ i \in m + 1 .. m + Slices /\ m + Slices <= Len(R)
                              /\ \A s \in 1..Slices : R[m + s] = StructuringSlice(k, s - 1, day)

Anomalous(p, k, b) ==
  /\ b \in BatchOf(AnomalyRecords(p), AnomalyMarks(p))
  /\ Len(b.records) >= 1 + p.base_flows
  /\ b.records[1] = Account
  /\ \A i \in 1..p.base_flows : b.records[i + 1] = AnomalyBaseline(p)[i]
  /\ Len(b.truth) = k
  /\ \A t \in 1..k : /\ b.truth[t].indices \subseteq 2 + p.base_flows .. Len(b.records)
                     /\ \A i \in b.truth[t].indices :
                          Injected(p, b.records, b.truth[t].label, i)
  /\ \A i \in 2 + p.base_flows .. Len(b.records) : \E t \in 1..k : i \in b.truth[t].indices

AnomalyInputs(p) ==
  /\ p.base_flows \in Nat \ {0} /\ p.anomaly_count \in Nat \ {0}
  /\ p.draws \in Seq(Nat) /\ p.draws # << >>
  /\ \A i \in 1..Len(p.draws) : p.draws[i] <= 5
  /\ p.anomaly_types \in Seq(STRING) /\ p.anomaly_types # << >>
  /\ \A i \in 1..Len(p.anomaly_types) : p.anomaly_types[i] \in AnomalyLabels

LEMMA AnomalySizes ==
  Slices \in Nat \ {0} /\ Slices <= 55 /\ Counterparties \in Nat \ {0}
BY SizeAssumption

(* A record stays what it is in a longer batch.                            *)
LEMMA StaysInjected ==
  ASSUME NEW p, NEW S, NEW R \in Seq(S), NEW R2 \in Seq(S), Len(R) <= Len(R2),
         \A i \in 1..Len(R) : R2[i] = R[i],
         NEW label, NEW i \in 1..Len(R), Injected(p, R, label, i)
  PROVE  Injected(p, R2, label, i)
<1>1. R2[i] = R[i] /\ Len(R) \in Nat /\ Len(R2) \in Nat
  OBVIOUS
<1>2. ASSUME label = "structuring"
      PROVE  \E k, day, m \in Nat :
               /\ i \in m + 1 .. m + Slices /\ m + Slices <= Len(R2)
               /\ \A s \in 1..Slices : R2[m + s] = StructuringSlice(k, s - 1, day)
  <2>1. PICK k, day, m \in Nat :
               /\ i \in m + 1 .. m + Slices /\ m + Slices <= Len(R)
               /\ \A s \in 1..Slices : R[m + s] = StructuringSlice(k, s - 1, day)
    BY <1>2 DEF Injected
  <2>2. ASSUME NEW s \in 1..Slices PROVE R2[m + s] = StructuringSlice(k, s - 1, day)
    <3>1. m + s \in 1..Len(R)
      BY <1>1, <2>1, AnomalySizes
    <3> QED
      BY <2>1, <3>1
  <2>3. m + Slices <= Len(R2)
    BY <1>1, <2>1, AnomalySizes
  <2> QED
    BY <2>1, <2>2, <2>3
<1> QED
  BY <1>1, <1>2 DEF Injected

(* An injection appends records, and names exactly them.                   *)
LEMMA InjectionKeeps ==
  ASSUME NEW p, AnomalyInputs(p), NEW k \in Nat, NEW b, Anomalous(p, k, b),
         NEW b2 \in BatchOf(AnomalyRecords(p), AnomalyMarks(p)),
         Len(b.records) <= Len(b2.records),
         \A i \in 1..Len(b.records) : b2.records[i] = b.records[i],
         NEW mark \in AnomalyMarks(p), b2.truth = Append(b.truth, mark),
         mark.indices = Len(b.records) + 1 .. Len(b2.records),
         \A i \in mark.indices : Injected(p, b2.records, mark.label, i)
  PROVE  Anomalous(p, k + 1, b2)
<1> DEFINE R == b.records
           R2 == b2.records
           T == b.truth
           T2 == b2.truth
           g == p.base_flows
<1>1. /\ R \in Seq(AnomalyRecords(p)) /\ T \in Seq(AnomalyMarks(p))
      /\ R2 \in Seq(AnomalyRecords(p)) /\ g \in Nat
  BY BatchFields DEF Anomalous, AnomalyInputs
<1>2. /\ Len(R) \in Nat /\ Len(R2) \in Nat /\ 1 + g <= Len(R) /\ Len(R) <= Len(R2)
      /\ R[1] = Account /\ \A i \in 1..g : R[i + 1] = AnomalyBaseline(p)[i]
      /\ Len(T) = k
  BY <1>1 DEF Anomalous
<1>3. \A i \in 1..Len(R) : R2[i] = R[i]
  OBVIOUS
<1>4. /\ \A t \in 1..k : T[t].indices \subseteq 2 + g .. Len(R)
      /\ \A t \in 1..k : \A i \in T[t].indices : Injected(p, R, T[t].label, i)
      /\ \A i \in 2 + g .. Len(R) : \E t \in 1..k : i \in T[t].indices
  BY DEF Anomalous
<1>5. T2 = Append(T, mark) /\ mark.indices = Len(R) + 1 .. Len(R2)
      /\ \A i \in mark.indices : Injected(p, R2, mark.label, i)
  OBVIOUS
<1> HIDE DEF R, R2, T, T2, g
<1>6. /\ Len(T2) = k + 1 /\ T2[k + 1] = mark /\ \A t \in 1..k : T2[t] = T[t]
  <2>1. /\ Len(Append(T, mark)) = Len(T) + 1
        /\ \A t \in 1..Len(T) : Append(T, mark)[t] = T[t]
        /\ Append(T, mark)[Len(T) + 1] = mark
    BY <1>1, AppendRange
  <2> QED
    BY <1>2, <1>5, <2>1
<1>7. R2[1] = Account /\ \A i \in 1..g : R2[i + 1] = AnomalyBaseline(p)[i]
  <2>1. 1 \in 1..Len(R) /\ \A i \in 1..g : i + 1 \in 1..Len(R)
    BY <1>1, <1>2
  <2> QED
    BY <1>2, <1>3, <2>1
<1>8. ASSUME NEW t \in 1 .. k + 1
      PROVE  /\ T2[t].indices \subseteq 2 + g .. Len(R2)
             /\ \A i \in T2[t].indices : Injected(p, R2, T2[t].label, i)
  <2>1. CASE t = k + 1
    <3>1. Len(R) + 1 .. Len(R2) \subseteq 2 + g .. Len(R2)
      BY <1>1, <1>2
    <3> QED
      BY <1>5, <1>6, <2>1, <3>1
  <2>2. CASE t \in 1..k
    <3>1. 2 + g .. Len(R) \subseteq 2 + g .. Len(R2) /\ 2 + g .. Len(R) \subseteq 1..Len(R)
      BY <1>1, <1>2
    <3>2. T2[t] = T[t] /\ T[t].indices \subseteq 2 + g .. Len(R)
      BY <1>4, <1>6, <2>2
    <3>3. ASSUME NEW i \in T[t].indices PROVE Injected(p, R2, T[t].label, i)
      <4>1. i \in 1..Len(R) /\ Injected(p, R, T[t].label, i)
        BY <1>4, <2>2, <3>1, <3>2
      <4> QED
        BY <1>1, <1>2, <1>3, <4>1, StaysInjected
    <3> QED
      BY <3>1, <3>2, <3>3
  <2> QED
    BY <2>1, <2>2
<1>9. ASSUME NEW i \in 2 + g .. Len(R2) PROVE \E t \in 1 .. k + 1 : i \in T2[t].indices
  <2>1. CASE i <= Len(R)
    <3>1. PICK t \in 1..k : i \in T[t].indices
      BY <1>1, <1>2, <1>4, <2>1
    <3>2. t \in 1 .. k + 1
      OBVIOUS
    <3> QED
      BY <1>6, <3>1, <3>2
  <2>2. CASE i > Len(R)
    <3>1. i \in mark.indices /\ k + 1 \in 1 .. k + 1
      BY <1>1, <1>2, <1>5, <2>2
    <3> QED
      BY <1>6, <3>1
  <2> QED
    BY <1>1, <1>2, <2>1, <2>2
<1>10. Len(R2) >= 1 + g
  BY <1>1, <1>2
<1> QED
  BY <1>6, <1>7, <1>8, <1>9, <1>10 DEF Anomalous, R2, T2, g

LEMMA InjectsOne ==
  ASSUME NEW p, AnomalyInputs(p), NEW k \in Nat, NEW b, Anomalous(p, k, b),
         NEW rec \in AnomalyRecords(p), NEW label \in AnomalyLabels,
         \A R : R[Len(b.records) + 1] = rec => Injected(p, R, label, Len(b.records) + 1)
  PROVE  Anomalous(p, k + 1, AddMarked(b, label, rec))
<1> DEFINE n == Len(b.records)
           b2 == AddMarked(b, label, rec)
           mark == [label |-> label, ref |-> rec.ref, indices |-> {n + 1}]
           RS == AnomalyRecords(p)
           TS == AnomalyMarks(p)
<1>1. b \in BatchOf(RS, TS) /\ b.records \in Seq(RS) /\ n \in Nat /\ rec \in RS
  BY BatchFields DEF Anomalous
<1>2. mark \in TS /\ mark.indices = {n + 1} /\ mark.label = label
  BY <1>1 DEF AnomalyMarks
<1>3. /\ b2 \in BatchOf(RS, TS)
      /\ b2.records = Append(b.records, rec)
      /\ b2.truth = Append(b.truth, mark)
  <2> HIDE DEF RS, TS, b2
  <2> QED
    BY <1>1, <1>2, AddMarkedTo DEF b2
<1> HIDE DEF b2, mark
<1>4. /\ Len(b2.records) = n + 1
      /\ \A i \in 1..n : b2.records[i] = b.records[i]
      /\ b2.records[n + 1] = rec
  BY <1>1, <1>3, AppendRange
<1>5. {n + 1} = n + 1 .. Len(b2.records) /\ n <= Len(b2.records)
  BY <1>1, <1>4
<1>6. \A i \in mark.indices : Injected(p, b2.records, mark.label, i)
  BY <1>2, <1>4
<1>7. mark.indices = n + 1 .. Len(b2.records)
  BY <1>2, <1>5
<1>8. Anomalous(p, k + 1, b2)
  BY <1>2, <1>3, <1>4, <1>5, <1>6, <1>7, InjectionKeeps
<1> QED
  BY <1>8 DEF b2

LEMMA InjectsSlices ==
  ASSUME NEW p, AnomalyInputs(p), NEW k \in Nat, NEW b, Anomalous(p, k, b), NEW day \in Nat
  PROVE  Anomalous(p, k + 1, Structuring(b, k, day))
<1> DEFINE n == Len(b.records)
           r == b.records
           t == b.truth
           sum == b.sum
           slices == [s \in 1..Slices |-> StructuringSlice(k, s - 1, day)]
           mark == [label |-> "structuring", ref |-> <<"ANM-STR", k>>,
                    indices |-> n + 1 .. n + Slices]
           RS == AnomalyRecords(p)
           TS == AnomalyMarks(p)
           more == r \o slices
           marks == Append(t, mark)
           b2 == [records |-> more, truth |-> marks, sum |-> sum]
<1>1. /\ b = [records |-> r, truth |-> t, sum |-> sum]
      /\ r \in Seq(RS) /\ t \in Seq(TS) /\ sum \in Int /\ n \in Nat
      /\ n = Len(r)
  BY BatchFields DEF Anomalous
<1>2. \A s \in 1..Slices : s - 1 \in 0 .. Slices - 1 /\ s - 1 \in Nat
  BY AnomalySizes
<1>3. \A s \in 1..Slices : StructuringSlice(k, s - 1, day) \in RS
  BY <1>2 DEF AnomalyRecords
<1>4. mark \in TS /\ mark.indices = n + 1 .. n + Slices /\ mark.label = "structuring"
  BY <1>1, AnomalySizes DEF AnomalyMarks, AnomalyLabels
<1>5. slices \in Seq(RS) /\ Len(slices) = Slices
      /\ \A s \in 1..Slices : slices[s] = StructuringSlice(k, s - 1, day)
  <2> HIDE DEF RS
  <2> QED
    BY <1>3, AnomalySizes
<1>6. Structuring(b, k, day)
        = [b EXCEPT !.records = @ \o slices, !.truth = Append(@, mark)]
  BY DEF Structuring, StructuringSlice
<1> HIDE DEF r, t, sum, slices, mark, RS, TS
<1>7. more \in Seq(RS) /\ marks \in Seq(TS) /\ Len(more) = n + Slices
      /\ (\A i \in 1..n : more[i] = r[i])
      /\ (\A s \in 1..Slices : more[n + s] = slices[s])
  <2>1. more \in Seq(RS) /\ marks \in Seq(TS) /\ Len(more) = n + Slices
    <3>1. r \in Seq(RS) /\ slices \in Seq(RS) /\ t \in Seq(TS) /\ mark \in TS
      BY <1>1, <1>4, <1>5
    <3>2. more \in Seq(RS) /\ Len(more) = Len(r) + Len(slices)
      BY <3>1
    <3>3. marks \in Seq(TS)
      BY <3>1
    <3> HIDE DEF more, marks
    <3> QED
      BY <1>1, <1>5, <3>2, <3>3
  <2>2. \A i \in 1..n : more[i] = r[i]
    BY <1>1, <1>5
  <2>3. ASSUME NEW s \in 1..Slices PROVE more[n + s] = slices[s]
    <3>1. n + s \in 1 .. Len(r) + Len(slices) /\ ~ (n + s <= Len(r)) /\ (n + s) - Len(r) = s
      BY <1>1, <1>5, AnomalySizes
    <3> QED
      BY <1>1, <1>5, <3>1
  <2> QED
    BY <2>1, <2>2, <2>3
<1>8. Structuring(b, k, day) = b2
  <2>1. Structuring(b, k, day) = [b EXCEPT !.records = more, !.truth = marks]
    BY <1>1, <1>6 DEF r, t
  <2> HIDE DEF more, marks
  <2> QED
    BY <1>1, <2>1
<1>9. b2 \in BatchOf(RS, TS) /\ b2.records = more /\ b2.truth = marks
  <2> HIDE DEF more, marks
  <2> QED
    BY <1>1, <1>7 DEF BatchOf
<1> HIDE DEF more, b2
<1>10. ASSUME NEW i \in n + 1 .. n + Slices PROVE Injected(p, more, "structuring", i)
  <2>1. \A s \in 1..Slices : more[n + s] = StructuringSlice(k, s - 1, day)
    BY <1>5, <1>7
  <2>2. n + Slices <= Len(more)
    BY <1>1, <1>7, AnomalySizes
  <2> QED
    BY <1>1, <2>1, <2>2 DEF Injected
<1>11. n <= Len(more) /\ n + 1 .. n + Slices = n + 1 .. Len(more)
  BY <1>1, <1>7, AnomalySizes
<1> HIDE DEF n
<1>12. Anomalous(p, k + 1, b2)
  <2>1. /\ Len(b.records) <= Len(b2.records)
        /\ \A i \in 1..Len(b.records) : b2.records[i] = b.records[i]
    BY <1>7, <1>9, <1>11 DEF n, r
  <2>2. mark.indices = Len(b.records) + 1 .. Len(b2.records)
    BY <1>4, <1>9, <1>11 DEF n
  <2>3. \A i \in mark.indices : Injected(p, b2.records, mark.label, i)
    BY <1>4, <1>9, <1>10
  <2>4. b2.truth = Append(b.truth, mark)
    BY <1>9 DEF t
  <2> QED
    BY <1>4, <1>9, <2>1, <2>2, <2>3, <2>4, InjectionKeeps DEF RS, TS
<1> QED
  BY <1>8, <1>12

(* The k-th injection, as the loop makes it.                               *)
AnomalyInject(p, b, k) ==
  LET label == Cycle(p.anomaly_types, k)
      day   == Cycle(p.draws, k)
  IN  CASE label = "structuring"    -> Structuring(b, k, day)
        [] label = "duplicate"      ->
             AddMarked(b, label, Duplicate(Cycle(AnomalyBaseline(p), k)))
        [] label = "amount_outlier" -> AddMarked(b, label, Outlier(k, day))
        [] OTHER                    -> AddMarked(b, label, OffHours(k, day))

LEMMA InjectKeeps ==
  ASSUME NEW p, AnomalyInputs(p), NEW k \in Nat, NEW b, Anomalous(p, k, b)
  PROVE  Anomalous(p, k + 1, AnomalyInject(p, b, k))
<1> DEFINE label == Cycle(p.anomaly_types, k)
           day == Cycle(p.draws, k)
           source == Cycle(AnomalyBaseline(p), k)
<1>1. day \in Nat /\ label \in AnomalyLabels
  <2>1. day \in Nat
    BY CycleIn DEF AnomalyInputs
  <2>2. \E i \in 1..Len(p.anomaly_types) : label = p.anomaly_types[i]
    BY CycleIn DEF AnomalyInputs
  <2> QED
    BY <2>1, <2>2 DEF AnomalyInputs
<1>2. \E j \in 1..p.base_flows : source = AnomalyBaseline(p)[j]
  <2>1. p.base_flows \in Nat \ {0} /\ Len(AnomalyBaseline(p)) = p.base_flows
    BY DEF AnomalyBaseline, AnomalyInputs
  <2>2. (k % p.base_flows) + 1 \in 1..p.base_flows
    BY <2>1
  <2>3. source = AnomalyBaseline(p)[(k % p.base_flows) + 1]
    BY <2>1 DEF Cycle
  <2> QED
    BY <2>2, <2>3
<1>3. /\ label = "structuring" => AnomalyInject(p, b, k) = Structuring(b, k, day)
      /\ label = "duplicate" => AnomalyInject(p, b, k) = AddMarked(b, label, Duplicate(source))
      /\ label = "amount_outlier" => AnomalyInject(p, b, k) = AddMarked(b, label, Outlier(k, day))
      /\ label = "off_hours" => AnomalyInject(p, b, k) = AddMarked(b, label, OffHours(k, day))
  BY DEF AnomalyInject
<1> HIDE DEF label, day, source
<1>4. CASE label = "structuring"
  BY <1>1, <1>3, <1>4, InjectsSlices
<1>5. CASE label = "duplicate"
  <2> DEFINE rec == Duplicate(source)
  <2>1. rec \in AnomalyRecords(p) /\ \E j \in 1..p.base_flows : rec = Duplicate(AnomalyBaseline(p)[j])
    BY <1>2 DEF AnomalyRecords
  <2> HIDE DEF rec
  <2>2. \A R : R[Len(b.records) + 1] = rec => Injected(p, R, label, Len(b.records) + 1)
    BY <1>5, <2>1 DEF Injected
  <2>3. Anomalous(p, k + 1, AddMarked(b, label, rec))
    BY <1>1, <2>1, <2>2, InjectsOne
  <2> QED
    BY <1>3, <1>5, <2>3 DEF rec
<1>6. CASE label = "amount_outlier"
  <2> DEFINE rec == Outlier(k, day)
  <2>1. rec \in AnomalyRecords(p) /\ \E j, d \in Nat : rec = Outlier(j, d)
    BY <1>1 DEF AnomalyRecords
  <2> HIDE DEF rec
  <2>2. \A R : R[Len(b.records) + 1] = rec => Injected(p, R, label, Len(b.records) + 1)
    BY <1>6, <2>1 DEF Injected
  <2>3. Anomalous(p, k + 1, AddMarked(b, label, rec))
    BY <1>1, <2>1, <2>2, InjectsOne
  <2> QED
    BY <1>3, <1>6, <2>3 DEF rec
<1>7. CASE label = "off_hours"
  <2> DEFINE rec == OffHours(k, day)
  <2>1. rec \in AnomalyRecords(p) /\ \E j, d \in Nat : rec = OffHours(j, d)
    BY <1>1 DEF AnomalyRecords
  <2> HIDE DEF rec
  <2>2. \A R : R[Len(b.records) + 1] = rec => Injected(p, R, label, Len(b.records) + 1)
    BY <1>7, <2>1 DEF Injected
  <2>3. Anomalous(p, k + 1, AddMarked(b, label, rec))
    BY <1>1, <2>1, <2>2, InjectsOne
  <2> QED
    BY <1>3, <1>7, <2>3 DEF rec
<1> QED
  BY <1>1, <1>4, <1>5, <1>6, <1>7 DEF AnomalyLabels

LEMMA AnomalyBatch ==
  ASSUME NEW p, AnomalyInputs(p)
  PROVE  Anomalous(p, p.anomaly_count, Anomaly(p))
<1> DEFINE n == p.anomaly_count
           records == <<Account>> \o AnomalyBaseline(p)
           first == [Empty EXCEPT !.records = records]
           Body(b, k) == AnomalyInject(p, b, k)
           Loop(f) == [k \in 0..n |-> IF k = 0 THEN first ELSE Body(f[k - 1], k - 1)]
           chosen == CHOOSE f : f = Loop(f)
           RS == AnomalyRecords(p)
           TS == AnomalyMarks(p)
           W == [k \in 0..n |-> {b \in BatchOf(RS, TS) : Anomalous(p, k, b)}]
           step == [k \in 0 .. n - 1 |-> [c \in W[k] |-> Body(c, k)]]
<1>1. Anomaly(p) = chosen[n]
  BY Zenon DEF Anomaly, ForRange, AnomalyInject
<1>2. n \in Nat /\ n \in 0..n /\ p.base_flows \in Nat
  BY DEF AnomalyInputs
<1>3. first \in W[0]
  <2> DEFINE g == p.base_flows
             baseline == AnomalyBaseline(p)
  <2>1. /\ baseline = [i \in 1..g |-> baseline[i]]
        /\ \A i \in 1..g : baseline[i] \in RS
        /\ Account \in RS
    <3>1. baseline = [i \in 1..g |-> baseline[i]]
      BY DEF AnomalyBaseline
    <3>2. (\A i \in 1..g : baseline[i] \in RS) /\ Account \in RS
      BY DEF AnomalyRecords
    <3> QED
      BY <3>1, <3>2
  <2> HIDE DEF RS, TS, baseline, g
  <2>2. g \in Nat
    BY <1>2 DEF g
  <2>3. baseline \in Seq(RS) /\ Len(baseline) = g
    BY <2>1, <2>2
  <2>4. /\ records \in Seq(RS) /\ Len(records) = 1 + g /\ records[1] = Account
        /\ \A i \in 1..g : records[i + 1] = baseline[i]
    BY <2>1, <2>2, <2>3 DEF baseline
  <2> HIDE DEF records
  <2>5. first = [records |-> records, truth |-> << >>, sum |-> 0]
    BY DEF Empty
  <2> HIDE DEF first
  <2>6. first \in BatchOf(RS, TS)
    BY <2>4, <2>5 DEF BatchOf
  <2>7. first.records = records /\ first.truth = << >> /\ Len(<< >>) = 0
    BY <2>5
  <2>8. 2 + g .. 1 + g = {} /\ 1..0 = {}
    BY <2>2
  <2>9. Anomalous(p, 0, first)
    BY <2>2, <2>4, <2>6, <2>7, <2>8 DEF Anomalous, RS, TS, g, baseline
  <2>10. 0 \in 0..n
    BY <1>2
  <2> QED
    BY <2>6, <2>9, <2>10
<1>4. ASSUME NEW k \in 0 .. n - 1, NEW c \in W[k]
      PROVE  step[k][c] = Body(c, k) /\ Body(c, k) \in W[k + 1]
  <2>1. k \in 0..n /\ k + 1 \in 0..n /\ k \in Nat
    BY <1>2
  <2>2. Anomalous(p, k, c)
    BY <2>1
  <2>3. Anomalous(p, k + 1, Body(c, k))
    BY <2>1, <2>2, InjectKeeps
  <2>4. Body(c, k) \in BatchOf(RS, TS)
    BY <2>3 DEF Anomalous
  <2> HIDE DEF Body
  <2> QED
    BY <2>1, <2>3, <2>4
<1>5. \A k \in 0 .. n - 1 : \A c \in W[k] : step[k][c] \in W[k + 1]
  BY <1>4
<1> HIDE DEF n, first, Body, W, step
<1>6. PICK run : IsRun(run, n, W, first, step)
  BY <1>2, <1>3, <1>5, RunExists
<1>7. \E f : f = Loop(f)
  <2>0. run = [k \in 0..n |-> run[k]] /\ run[0] = first
    BY <1>2, <1>6, RunFacts
  <2>1. \A k \in 0 .. n - 1 : run[k + 1] = Body(run[k], k)
    <3>1. \A k \in 0 .. n - 1 : run[k] \in W[k] /\ run[k + 1] = step[k][run[k]]
      BY <1>2, <1>6, RunFacts
    <3> QED
      BY <1>4, <3>1
  <2>2. ASSUME NEW k \in 0..n
        PROVE  run[k] = IF k = 0 THEN first ELSE Body(run[k - 1], k - 1)
    <3>1. CASE k = 0
      BY <2>0, <3>1
    <3>2. CASE k # 0
      <4>1. k - 1 \in 0 .. n - 1 /\ (k - 1) + 1 = k
        BY <1>2, <3>2
      <4> QED
        BY <2>1, <3>2, <4>1
    <3> QED
      BY <3>1, <3>2
  <2>3. run = [k \in 0..n |-> IF k = 0 THEN first ELSE Body(run[k - 1], k - 1)]
    BY <2>0, <2>2
  <2> QED
    BY <2>3
<1>8. chosen = Loop(chosen)
  <2> HIDE DEF Loop
  <2> QED
    BY <1>7
<1> HIDE DEF chosen
<1>9. chosen[0] = first /\ \A k \in 0 .. n - 1 : chosen[k + 1] = Body(chosen[k], k)
  BY <1>2, <1>8
<1>10. chosen[n] \in W[n]
  BY <1>2, <1>3, <1>4, <1>9, LoopEnds
<1> QED
  BY <1>1, <1>2, <1>10 DEF W, n

(* The fields of the records.                                              *)
OfBaseline(p, i, draw, party) ==
  /\ AnomalyBaseline(p)[i] =
       Flow(<<"ANM", i - 1>>, Median(party) + 10 * draw, draw, 570, party)
  /\ Duplicate(AnomalyBaseline(p)[i]) =
       Flow(<<"ANM", i - 1>>, Median(party) + 10 * draw, draw, 577, party)

LEMMA BaselineFields ==
  ASSUME NEW p, AnomalyInputs(p), NEW i \in 1..p.base_flows
  PROVE  \E draw \in 0..5, party \in Nat : OfBaseline(p, i, draw, party)
<1> DEFINE draw == Cycle(p.draws, i)
           party == (i - 1) % Counterparties
           amount == Median(party) + 10 * draw
           source == Flow(<<"ANM", i - 1>>, amount, draw, 570, party)
<1>1. p.base_flows \in Nat /\ i \in Nat /\ i - 1 \in Nat
  BY DEF AnomalyInputs
<1>2. party \in Nat
  BY <1>1, AnomalySizes
<1>3. draw \in 0..5
  <2>1. draw \in Nat /\ \E j \in 1..Len(p.draws) : draw = p.draws[j]
    BY <1>1, CycleIn DEF AnomalyInputs
  <2>2. \A j \in 1..Len(p.draws) : p.draws[j] <= 5
    BY DEF AnomalyInputs
  <2> HIDE DEF draw
  <2>3. draw <= 5
    BY <2>1, <2>2
  <2> QED
    BY <2>1, <2>3
<1>4. AnomalyBaseline(p)[i] = source
  <2>1. 9 * 60 + 30 = 570
    OBVIOUS
  <2> QED
    BY <2>1 DEF AnomalyBaseline
<1> HIDE DEF draw, party, amount
<1>5. Duplicate(source) = Flow(<<"ANM", i - 1>>, amount, draw, 577, party)
  BY DEF Duplicate, Flow
<1> HIDE DEF source
<1>6. Duplicate(AnomalyBaseline(p)[i]) = Flow(<<"ANM", i - 1>>, amount, draw, 577, party)
  BY <1>4, <1>5
<1> QED
  BY <1>2, <1>3, <1>4, <1>6 DEF amount, source, OfBaseline

LEMMA FlowFields ==
  ASSUME NEW ref, NEW amount, NEW day, NEW minute, NEW party
  PROVE  LET rec == Flow(ref, amount, day, minute, party) IN
         /\ rec.kind = "cash_flow" /\ rec.ref = ref /\ rec.amount = amount
         /\ rec.day = day /\ rec.minute = minute /\ rec.party = party
BY DEF Flow

(* A reference of the baseline has an amount of the baseline.              *)
LEMMA OrdinaryAmounts ==
  ASSUME NEW p, AnomalyInputs(p), NEW rec \in AnomalyRecords(p)
  PROVE  /\ rec.kind \in {"bank_account", "cash_flow"}
         /\ rec.kind = "cash_flow" /\ rec.ref[1] = "ANM" =>
              /\ rec.party \in Nat
              /\ rec.amount \in Int /\ rec.amount <= Median(rec.party) + 50
<1>1. CASE rec = Account
  BY <1>1 DEF Account
<1>2. ASSUME NEW i \in 1..p.base_flows,
             rec \in {AnomalyBaseline(p)[i], Duplicate(AnomalyBaseline(p)[i])}
      PROVE  /\ rec.kind = "cash_flow" /\ rec.party \in Nat
             /\ rec.amount \in Int /\ rec.amount <= Median(rec.party) + 50
  <2>1. PICK draw \in 0..5, party \in Nat : OfBaseline(p, i, draw, party)
    BY BaselineFields
  <2>2. rec.kind = "cash_flow" /\ rec.party = party /\ rec.amount = Median(party) + 10 * draw
    BY <1>2, <2>1, FlowFields DEF OfBaseline
  <2> QED
    BY <2>2 DEF Median
<1>3. ASSUME NEW k \in Nat, NEW day \in Nat, rec \in {Outlier(k, day), OffHours(k, day)}
      PROVE  rec.kind = "cash_flow" /\ rec.ref[1] # "ANM"
  BY <1>3 DEF Outlier, OffHours, Flow
<1>4. ASSUME NEW k \in Nat, NEW s \in 0 .. Slices - 1, NEW day \in Nat,
             rec = StructuringSlice(k, s, day)
      PROVE  rec.kind = "cash_flow" /\ rec.ref[1] # "ANM"
  BY <1>4 DEF StructuringSlice, Flow
<1> QED
  BY <1>1, <1>2, <1>3, <1>4 DEF AnomalyRecords

(* Each rule detects what is injected for it.                              *)
LEMMA OutlierDetected ==
  ASSUME NEW p, AnomalyInputs(p), Anomalous(p, p.anomaly_count, batch),
         NEW i \in Positions, NEW k \in Nat, NEW day \in Nat, Records[i] = Outlier(k, day)
  PROVE  IsOutlier(i)
<1> DEFINE party == k % Counterparties
<1>1. party \in Nat
  BY AnomalySizes
<1>2. Records[i].party = party /\ Records[i].amount = 12 * Median(party)
  BY FlowFields DEF Outlier
<1> HIDE DEF party
<1>3. ASSUME NEW j \in OrdinaryOf(i) PROVE Records[i].amount > 6 * Records[j].amount
  <2>1. j \in DOMAIN Records /\ Records[j].kind = "cash_flow"
        /\ Records[j].party = party /\ Records[j].ref[1] = "ANM"
    BY <1>2 DEF OrdinaryOf, Flows, Positions
  <2>2. Records[j] \in AnomalyRecords(p)
    BY <2>1, BatchFields DEF Anomalous, Records
  <2>3. Records[j].amount \in Int /\ Records[j].amount <= Median(party) + 50
    BY <2>1, <2>2, OrdinaryAmounts
  <2> QED
    BY <1>1, <1>2, <2>3 DEF Median
<1> QED
  BY <1>3 DEF IsOutlier

LEMMA OffHoursDetected ==
  ASSUME NEW i, NEW k, NEW day, Records[i] = OffHours(k, day)
  PROVE  IsOffHours(i)
<1>1. Records[i].minute = 3 * 60
  BY FlowFields DEF OffHours
<1> QED
  BY <1>1 DEF IsOffHours

LEMMA RepeatedDetected ==
  ASSUME NEW p, AnomalyInputs(p), Anomalous(p, p.anomaly_count, batch),
         NEW i \in Positions, i >= 2 + p.base_flows,
         NEW j \in 1..p.base_flows, Records[i] = Duplicate(AnomalyBaseline(p)[j])
  PROVE  IsRepeated(i)
<1>1. PICK draw \in 0..5, party \in Nat : OfBaseline(p, j, draw, party)
  BY BaselineFields
<1>2. Records[j + 1] = AnomalyBaseline(p)[j]
  BY DEF Anomalous, Records
<1>3. /\ Records \in Seq(AnomalyRecords(p)) /\ p.base_flows \in Nat
      /\ Len(Records) >= 1 + p.base_flows
  BY BatchFields DEF Anomalous, Records, AnomalyInputs
<1>4. i \in Nat /\ j + 1 \in Positions /\ j + 1 < i
  BY <1>3 DEF Positions
<1>5. Records[j + 1].kind = "cash_flow" /\ SameMovement(i, j + 1)
  BY <1>1, <1>2, FlowFields DEF SameMovement, OfBaseline
<1> QED
  BY <1>4, <1>5 DEF IsRepeated, Flows

LEMMA SlicedDetected ==
  ASSUME NEW k \in Nat, NEW day \in Nat, NEW m \in Nat, NEW i \in m + 1 .. m + Slices,
         NEW n \in Nat, Positions = 1..n, m + Slices <= n,
         \A s \in 1..Slices : Records[m + s] = StructuringSlice(k, s - 1, day)
  PROVE  IsSliced(i)
<1> DEFINE Alike == {j \in Flows : /\ Records[j].amount = Records[i].amount
                                   /\ Records[j].party = Records[i].party
                                   /\ Records[j].day = Records[i].day
                                   /\ Records[j].minute \div 60 = Records[i].minute \div 60
                                   /\ ~SameMovement(i, j)}
           Others == (m + 1 .. m + Slices) \ {i}
<1>1. Slices \in Nat \ {0} /\ Slices <= 55
  BY AnomalySizes
<1>2. ASSUME NEW j \in m + 1 .. m + Slices
      PROVE  /\ j \in Flows
             /\ Records[j].amount = StructuringAmount
             /\ Records[j].party = k % Counterparties
             /\ Records[j].day = day
             /\ Records[j].minute \div 60 = 10
             /\ Records[j].ref = <<"ANM-STR", k, j - m - 1>>
  <2>1. j - m \in 1..Slices /\ m + (j - m) = j /\ j \in 1..n
    BY <1>1
  <2>2. Records[j] = StructuringSlice(k, (j - m) - 1, day)
    BY <2>1
  <2>3. (10 * 60 + 5 + ((j - m) - 1)) \div 60 = 10
    BY <1>1, <2>1
  <2>4. /\ Records[j].kind = "cash_flow" /\ Records[j].amount = StructuringAmount
        /\ Records[j].party = k % Counterparties /\ Records[j].day = day
        /\ Records[j].minute = 10 * 60 + 5 + ((j - m) - 1)
        /\ Records[j].ref = <<"ANM-STR", k, (j - m) - 1>>
    BY <2>2, FlowFields DEF StructuringSlice
  <2> QED
    BY <2>1, <2>3, <2>4 DEF Flows
<1>3. ASSUME NEW j \in Others PROVE j \in Alike
  <2>1. j \in m + 1 .. m + Slices /\ j # i
    OBVIOUS
  <2>2. j - m - 1 # i - m - 1
    BY <1>1, <2>1
  <2>3. <<"ANM-STR", k, j - m - 1>> # <<"ANM-STR", k, i - m - 1>>
    BY <2>2
  <2>4. ~SameMovement(i, j)
    BY <1>2, <2>1, <2>3 DEF SameMovement
  <2> QED
    BY <1>2, <2>1, <2>4
<1>4. /\ IsFiniteSet(m + 1 .. m + Slices) /\ Cardinality(m + 1 .. m + Slices) = Slices
  <2>1. m + 1 \in Int /\ m + Slices \in Int /\ ~ (m + 1 > m + Slices)
        /\ (m + Slices) - (m + 1) + 1 = Slices
    BY <1>1
  <2> QED
    BY <2>1, FS_Interval
<1>5. IsFiniteSet(Others) /\ Cardinality(Others) = Slices - 1
  <2>1. IsFiniteSet({i}) /\ Cardinality({i}) = 1 /\ {i} \subseteq m + 1 .. m + Slices
    BY FS_Singleton
  <2> QED
    BY <1>4, <2>1, Remaining
<1>6. IsFiniteSet(Alike)
  <2>1. Alike \subseteq 1..n
    BY DEF Flows
  <2>2. IsFiniteSet(1..n)
    BY IntervalSize
  <2> HIDE DEF Alike
  <2> QED
    BY <2>1, <2>2, FS_Subset
<1> HIDE DEF Others
<1>7. Cardinality(Others) <= Cardinality(Alike) /\ Cardinality(Alike) \in Nat
  <2>1. Others \subseteq Alike
    BY <1>3
  <2> HIDE DEF Alike
  <2> QED
    BY <1>6, <2>1, FS_Subset, FS_CardinalityType
<1>8. Cardinality(Alike) >= Slices - 1
  <2> HIDE DEF Alike
  <2> QED
    BY <1>1, <1>5, <1>7
<1> QED
  BY <1>8 DEF IsSliced

(* Nothing of the baseline is detected.                                    *)
LEMMA BaselinePasses ==
  ASSUME NEW p, AnomalyInputs(p), Anomalous(p, p.anomaly_count, batch),
         NEW i \in Flows, i <= 1 + p.base_flows
  PROVE  ~IsOutlier(i) /\ ~IsOffHours(i) /\ ~IsRepeated(i)
<1>1. /\ Records \in Seq(AnomalyRecords(p)) /\ p.base_flows \in Nat
      /\ Len(Records) >= 1 + p.base_flows
      /\ Records[1] = Account
      /\ \A j \in 1..p.base_flows : Records[j + 1] = AnomalyBaseline(p)[j]
  BY BatchFields DEF Anomalous, Records, AnomalyInputs
<1>2. ASSUME NEW j \in Flows, j <= 1 + p.base_flows
      PROVE  /\ j - 1 \in 1..p.base_flows
             /\ Records[j] = AnomalyBaseline(p)[j - 1]
  <2>1. j \in 1..Len(Records) /\ Records[j].kind = "cash_flow"
    BY <1>1 DEF Flows, Positions
  <2>2. j # 1
    BY <1>1, <2>1 DEF Account
  <2>3. j - 1 \in 1..p.base_flows /\ (j - 1) + 1 = j
    BY <1>1, <1>2, <2>1, <2>2
  <2> QED
    BY <1>1, <2>3
<1>3. PICK draw \in 0..5, party \in Nat : OfBaseline(p, i - 1, draw, party)
  BY <1>2, BaselineFields
<1>4. /\ Records[i].ref = <<"ANM", (i - 1) - 1>> /\ Records[i].minute = 570
      /\ Records[i].amount = Median(party) + 10 * draw
  BY <1>2, <1>3, FlowFields DEF OfBaseline
<1>5. ~IsOffHours(i)
  <2>1. 570 \in 9 * 60 .. 18 * 60
    OBVIOUS
  <2> QED
    BY <1>4, <2>1 DEF IsOffHours
<1>6. ~IsOutlier(i)
  <2>1. i \in OrdinaryOf(i)
    BY <1>4 DEF OrdinaryOf
  <2>2. Records[i].amount \in Nat
    BY <1>4 DEF Median
  <2> QED
    BY <2>1, <2>2 DEF IsOutlier
<1>7. ASSUME NEW j \in Flows, j < i, SameMovement(i, j) PROVE FALSE
  <2>1. i \in Nat /\ j \in Nat
    BY <1>1 DEF Flows, Positions
  <2>2. j <= 1 + p.base_flows
    BY <1>1, <1>7, <2>1
  <2>3. PICK draw2 \in 0..5, party2 \in Nat : OfBaseline(p, j - 1, draw2, party2)
    BY <1>2, <2>2, BaselineFields
  <2>4. Records[j].ref = <<"ANM", (j - 1) - 1>>
    BY <1>2, <2>2, <2>3, FlowFields DEF OfBaseline
  <2>5. (j - 1) - 1 = (i - 1) - 1
    BY <1>4, <1>7, <2>4 DEF SameMovement
  <2> QED
    BY <1>7, <2>1, <2>5
<1> QED
  BY <1>5, <1>6, <1>7 DEF IsRepeated

LEMMA AnomalyInputsOfCall ==
  ASSUME NEW c \in Calls, c.preset = "finhub.anomaly.v1"
  PROVE  AnomalyInputs(Inputs(c))
<1> DEFINE p == Inputs(c)
           schema == Schema[c.preset]
<1>1. c.preset \in DOMAIN Schema /\ \A i \in DOMAIN c.draws : c.draws[i] <= 5
  BY CallsAssumption
<1>2. /\ {"base_flows", "anomaly_count", "anomaly_types"} \subseteq DOMAIN schema
      /\ schema["base_flows"].type = "int" /\ schema["base_flows"].min >= 1
      /\ schema["anomaly_count"].type = "int" /\ schema["anomaly_count"].min >= 1
      /\ schema["anomaly_types"].type = "multi"
  BY <1>1, PresetAssumption DEF HasParams
<1>3. schema["anomaly_types"].options \subseteq AnomalyLabels
  BY <1>1, PresetAssumption DEF AnomalyLabels
<1>4. p.draws \in Seq(Nat) /\ p.draws # << >> /\ p.draws = c.draws
  BY InputsOfCall
<1>5. p["base_flows"] \in Nat \ {0} /\ p["anomaly_count"] \in Nat \ {0}
  BY <1>2, InputTypes
<1>6. /\ p["anomaly_types"] \in Seq(STRING) /\ p["anomaly_types"] # << >>
      /\ \A i \in 1..Len(p["anomaly_types"]) :
           p["anomaly_types"][i] \in schema["anomaly_types"].options
  BY <1>2, InputTypes
<1> HIDE DEF p
<1>7. \A i \in 1..Len(p.draws) : p.draws[i] <= 5
  BY <1>1, <1>4
<1> QED
  BY <1>3, <1>4, <1>5, <1>6, <1>7 DEF AnomalyInputs, p

LEMMA AnomalyReturned ==
  ASSUME Consistent, Returned("finhub.anomaly.v1")
  PROVE  AnomalyInputs(input) /\ Anomalous(input, input.anomaly_count, batch)
<1>1. /\ call \in Calls /\ input = Inputs(call) /\ input.preset = call.preset
      /\ input.preset = "finhub.anomaly.v1" /\ batch = Generated(input)
  BY InputsOfCall DEF Consistent, Returned
<1>2. batch = Anomaly(input)
  BY <1>1 DEF Generated
<1>3. AnomalyInputs(input)
  BY <1>1, AnomalyInputsOfCall
<1> QED
  BY <1>2, <1>3, AnomalyBatch

(* However many anomalies of whatever kinds are injected, the rules detect *)
(* each of them under its label, and none of them finds anything else.     *)
THEOREM RunInjectedIsDetected == Spec => []InjectedIsDetected
<1>1. ASSUME Consistent, Returned("finhub.anomaly.v1")
      PROVE  /\ Len(batch.truth) = input.anomaly_count
             /\ \A entry \in Entries : \A i \in entry.indices : Detects(entry.label, i)
             /\ {i \in Flows : IsOutlier(i) \/ IsOffHours(i) \/ IsRepeated(i)} \subseteq Named
  <2> DEFINE p == input
             n == Len(Records)
             g == p.base_flows
             count == p.anomaly_count
  <2>1. AnomalyInputs(p) /\ Anomalous(p, count, batch)
    BY <1>1, AnomalyReturned
  <2>2. /\ Records \in Seq(AnomalyRecords(p)) /\ batch.truth \in Seq(AnomalyMarks(p))
        /\ g \in Nat /\ n \in Nat /\ Positions = 1..n /\ count \in Nat
    BY <2>1, BatchFields DEF Anomalous, Records, AnomalyInputs, Positions
  <2>3. /\ Len(batch.truth) = count
        /\ \A t \in 1..count : batch.truth[t].indices \subseteq 2 + g .. n
        /\ \A t \in 1..count : \A i \in batch.truth[t].indices :
             Injected(p, Records, batch.truth[t].label, i)
        /\ \A i \in 2 + g .. n : \E t \in 1..count : i \in batch.truth[t].indices
    BY <2>1 DEF Anomalous, Records
  <2>4. Entries = {batch.truth[t] : t \in 1..count}
    BY <2>2, <2>3 DEF Entries, Range
  <2>5. \A t \in 1..count : batch.truth[t].label \in AnomalyLabels
    <3>1. \A t \in 1..count : batch.truth[t] \in AnomalyMarks(p)
      BY <2>2, <2>3
    <3>2. \A mark \in AnomalyMarks(p) : mark.label \in AnomalyLabels
      BY DEF AnomalyMarks
    <3> QED
      BY <3>1, <3>2
  <2> HIDE DEF p, n, g, count
  <2>6. ASSUME NEW t \in 1..count, NEW i \in batch.truth[t].indices
        PROVE  Detects(batch.truth[t].label, i)
    <3> DEFINE label == batch.truth[t].label
    <3>1. i \in Positions /\ i \in Nat /\ i >= 2 + g
      BY <2>2, <2>3
    <3>2. Injected(p, Records, label, i) /\ label \in AnomalyLabels
      BY <2>3, <2>5
    <3> HIDE DEF label
    <3>3. CASE label = "amount_outlier"
      <4>1. IsOutlier(i)
        BY <2>1, <3>1, <3>2, <3>3, OutlierDetected DEF Injected, count
      <4> QED
        BY <3>3, <4>1 DEF Detects, label
    <3>4. CASE label = "off_hours"
      <4>1. IsOffHours(i)
        BY <3>2, <3>4, OffHoursDetected DEF Injected
      <4> QED
        BY <3>4, <4>1 DEF Detects, label
    <3>5. CASE label = "duplicate"
      <4>1. IsRepeated(i)
        BY <2>1, <3>1, <3>2, <3>5, RepeatedDetected DEF Injected, count, g
      <4> QED
        BY <3>5, <4>1 DEF Detects, label
    <3>6. CASE label = "structuring"
      <4>1. PICK k, day, m \in Nat :
              /\ i \in m + 1 .. m + Slices /\ m + Slices <= n
              /\ \A s \in 1..Slices : Records[m + s] = StructuringSlice(k, s - 1, day)
        BY <3>2, <3>6 DEF Injected, n
      <4>2. IsSliced(i)
        BY <2>2, <4>1, SlicedDetected
      <4> QED
        BY <3>6, <4>2 DEF Detects, label
    <3> QED
      BY <3>2, <3>3, <3>4, <3>5, <3>6 DEF AnomalyLabels
  <2>7. ASSUME NEW i \in Flows, IsOutlier(i) \/ IsOffHours(i) \/ IsRepeated(i)
        PROVE  i \in Named
    <3>1. i \in 1..n /\ ~ (i <= 1 + g)
      BY <2>1, <2>2, <2>7, BaselinePasses DEF Flows, g, count
    <3>2. i \in 2 + g .. n
      BY <2>2, <3>1
    <3>3. PICK t \in 1..count : i \in batch.truth[t].indices
      BY <2>3, <3>2
    <3> QED
      BY <2>4, <3>3 DEF Named
  <2>8. \A entry \in Entries : \A i \in entry.indices : Detects(entry.label, i)
    BY <2>4, <2>6
  <2> QED
    BY <2>3, <2>7, <2>8 DEF count, p
<1>2. Consistent => InjectedIsDetected
  BY <1>1 DEF InjectedIsDetected
<1> QED
  BY <1>2, AlwaysConsistent, PTL

-----------------------------------------------------------------------------
(* A batch that takes several records at once.                             *)
LEMMA AddAllTo ==
  ASSUME NEW RS, NEW TS, NEW b \in BatchOf(RS, TS), NEW recs \in Seq(RS)
  PROVE  /\ AddAll(b, recs) \in BatchOf(RS, TS)
         /\ AddAll(b, recs).records = b.records \o recs
         /\ AddAll(b, recs).truth = b.truth
         /\ AddAll(b, recs).sum = b.sum
<1> DEFINE r == b.records
           t == b.truth
           s == b.sum
           more == r \o recs
<1>1. b = [records |-> r, truth |-> t, sum |-> s]
      /\ r \in Seq(RS) /\ t \in Seq(TS) /\ s \in Int
  BY BatchFields
<1> HIDE DEF r, t, s
<1>2. more \in Seq(RS)
  BY <1>1
<1>3. AddAll(b, recs) = [b EXCEPT !.records = more]
  BY DEF AddAll, r
<1> HIDE DEF more
<1>4. [b EXCEPT !.records = more] = [records |-> more, truth |-> t, sum |-> s]
  BY <1>1
<1>5. AddAll(b, recs) = [records |-> more, truth |-> t, sum |-> s]
  BY <1>3, <1>4
<1> QED
  BY <1>1, <1>2, <1>5 DEF BatchOf, r, t, s, more

(* connect.ingestion: what may be in a batch, which is not empty.  No      *)
(* record is marked.                                                       *)
IngestedFlows(p) ==
  {IngestedFlow(p, i, j) : i \in 0 .. p.accounts - 1, j \in 0 .. p.flows_per_account - 1}

IngestionRecords(p) ==
  {IngestedAccount(p, i) : i \in 0 .. p.accounts - 1} \cup IngestedFlows(p)

Ingested(p, b) ==
  /\ b \in BatchOf(IngestionRecords(p), {})
  /\ p.accounts <= Len(b.records)

IngestionInputs(p) ==
  /\ {p.accounts, p.flows_per_account} \subseteq Nat \ {0}
  /\ p.draws \in Seq(Nat) /\ p.draws # << >>

LEMMA FlowsOfAccount ==
  ASSUME NEW p, IngestionInputs(p), NEW k \in 0 .. p.accounts - 1, NEW b, Ingested(p, b)
  PROVE  Ingested(p, AddAll(b, [j \in 1..p.flows_per_account |-> IngestedFlow(p, k, j - 1)]))
<1> DEFINE A == p.accounts
           F == p.flows_per_account
           RS == IngestionRecords(p)
           recs == [j \in 1..F |-> IngestedFlow(p, k, j - 1)]
           r == b.records
           b2 == AddAll(b, recs)
<1>1. A \in Nat \ {0} /\ F \in Nat \ {0} /\ k \in 0 .. A - 1
  BY DEF IngestionInputs
<1>2. b \in BatchOf(RS, {}) /\ r \in Seq(RS) /\ A <= Len(r)
  BY BatchFields DEF Ingested
<1>3. \A j \in 1..F : IngestedFlow(p, k, j - 1) \in RS
  <2>1. \A j \in 1..F : j - 1 \in 0 .. F - 1
    BY <1>1
  <2> QED
    BY <1>1, <2>1 DEF IngestionRecords, IngestedFlows
<1>4. recs \in Seq(RS) /\ Len(recs) = F
  <2> HIDE DEF RS, F
  <2> QED
    BY <1>1, <1>3
<1> HIDE DEF A, F, RS, recs, r
<1>5. b2 \in BatchOf(RS, {}) /\ b2.records = r \o recs
  BY <1>2, <1>4, AddAllTo DEF r
<1>6. A <= Len(r \o recs)
  <2>1. Len(r \o recs) = Len(r) + F /\ Len(r) \in Nat
    BY <1>2, <1>4
  <2> QED
    BY <1>1, <1>2, <2>1
<1> HIDE DEF b2
<1>7. Ingested(p, b2)
  BY <1>5, <1>6 DEF Ingested, A, RS
<1> QED
  BY <1>7 DEF b2, recs, F

LEMMA IngestionBatch ==
  ASSUME NEW p, IngestionInputs(p)
  PROVE  Ingested(p, Ingestion(p))
<1> DEFINE n == p.accounts
           opened == [i \in 1..n |-> IngestedAccount(p, i - 1)]
           first == AddAll(Empty, opened)
           Body(b, k) == AddAll(b, [j \in 1..p.flows_per_account |-> IngestedFlow(p, k, j - 1)])
           Loop(f) == [k \in 0..n |-> IF k = 0 THEN first ELSE Body(f[k - 1], k - 1)]
           chosen == CHOOSE f : f = Loop(f)
           RS == IngestionRecords(p)
           W == [k \in 0..n |-> {b \in BatchOf(RS, {}) : Ingested(p, b)}]
           step == [k \in 0 .. n - 1 |-> [c \in W[k] |-> Body(c, k)]]
<1>1. Ingestion(p) = chosen[n]
  BY Zenon DEF Ingestion, ForRange
<1>2. n \in Nat /\ n \in 0..n
  BY DEF IngestionInputs
<1>3. first \in W[0]
  <2>1. \A i \in 1..n : IngestedAccount(p, i - 1) \in RS
    <3>1. \A i \in 1..n : i - 1 \in 0 .. n - 1
      BY <1>2
    <3> QED
      BY <3>1 DEF IngestionRecords
  <2> HIDE DEF RS, n
  <2>2. opened \in Seq(RS) /\ Len(opened) = n
    BY <1>2, <2>1
  <2> HIDE DEF opened
  <2>3. Empty \in BatchOf(RS, {}) /\ Empty.records = << >>
    BY DEF Empty, BatchOf
  <2>4. first \in BatchOf(RS, {}) /\ first.records = << >> \o opened
    BY <2>2, <2>3, AddAllTo
  <2> HIDE DEF first
  <2>5. first.records = opened
    BY <2>2, <2>4
  <2>6. n <= Len(first.records)
    BY <1>2, <2>2, <2>5
  <2>7. Ingested(p, first)
    BY <2>4, <2>6 DEF Ingested, RS, n
  <2>8. 0 \in 0..n
    BY <1>2
  <2> QED
    BY <2>4, <2>7, <2>8
<1>4. ASSUME NEW k \in 0 .. n - 1, NEW c \in W[k]
      PROVE  step[k][c] = Body(c, k) /\ Body(c, k) \in W[k + 1]
  <2>1. k \in 0..n /\ k + 1 \in 0..n
    BY <1>2
  <2>2. Ingested(p, c)
    BY <2>1
  <2>3. Ingested(p, Body(c, k))
    BY <2>2, FlowsOfAccount
  <2>4. Body(c, k) \in BatchOf(RS, {})
    BY <2>3 DEF Ingested
  <2> HIDE DEF Body
  <2> QED
    BY <2>1, <2>3, <2>4
<1>5. \A k \in 0 .. n - 1 : \A c \in W[k] : step[k][c] \in W[k + 1]
  BY <1>4
<1> HIDE DEF n, first, Body, W, step
<1>6. PICK run : IsRun(run, n, W, first, step)
  BY <1>2, <1>3, <1>5, RunExists
<1>7. \E f : f = Loop(f)
  <2>0. run = [k \in 0..n |-> run[k]] /\ run[0] = first
    BY <1>2, <1>6, RunFacts
  <2>1. \A k \in 0 .. n - 1 : run[k + 1] = Body(run[k], k)
    <3>1. \A k \in 0 .. n - 1 : run[k] \in W[k] /\ run[k + 1] = step[k][run[k]]
      BY <1>2, <1>6, RunFacts
    <3> QED
      BY <1>4, <3>1
  <2>2. ASSUME NEW k \in 0..n
        PROVE  run[k] = IF k = 0 THEN first ELSE Body(run[k - 1], k - 1)
    <3>1. CASE k = 0
      BY <2>0, <3>1
    <3>2. CASE k # 0
      <4>1. k - 1 \in 0 .. n - 1 /\ (k - 1) + 1 = k
        BY <1>2, <3>2
      <4> QED
        BY <2>1, <3>2, <4>1
    <3> QED
      BY <3>1, <3>2
  <2>3. run = [k \in 0..n |-> IF k = 0 THEN first ELSE Body(run[k - 1], k - 1)]
    BY <2>0, <2>2
  <2> QED
    BY <2>3
<1>8. chosen = Loop(chosen)
  <2> HIDE DEF Loop
  <2> QED
    BY <1>7
<1> HIDE DEF chosen
<1>9. chosen[0] = first /\ \A k \in 0 .. n - 1 : chosen[k + 1] = Body(chosen[k], k)
  BY <1>2, <1>8
<1>10. chosen[n] \in W[n]
  BY <1>2, <1>3, <1>4, <1>9, LoopEnds
<1> QED
  BY <1>1, <1>2, <1>10 DEF W, n

LEMMA IngestedKinds ==
  ASSUME NEW p, NEW rec \in IngestionRecords(p)
  PROVE  rec.kind \in {"bank_account", "cash_flow"}
<1>1. \A i : IngestedAccount(p, i).kind = "bank_account"
  BY DEF IngestedAccount, EntityAccount
<1>2. \A i, j : IngestedFlow(p, i, j).kind = "cash_flow"
  BY DEF IngestedFlow, FlowOn
<1> QED
  BY <1>1, <1>2 DEF IngestionRecords, IngestedFlows

LEMMA IngestionInputsOfCall ==
  ASSUME NEW c \in Calls, c.preset = "connect.ingestion.v1"
  PROVE  IngestionInputs(Inputs(c))
<1> DEFINE p == Inputs(c)
           schema == Schema[c.preset]
<1>1. c.preset \in DOMAIN Schema
  BY CallsAssumption
<1>2. /\ {"accounts", "flows_per_account"} \subseteq DOMAIN schema
      /\ schema["accounts"].type = "int" /\ schema["accounts"].min >= 1
      /\ schema["flows_per_account"].type = "int" /\ schema["flows_per_account"].min >= 1
  BY <1>1, PresetAssumption DEF HasParams
<1>3. p.draws \in Seq(Nat) /\ p.draws # << >>
  BY InputsOfCall
<1>4. p["accounts"] \in Nat \ {0}
  BY <1>2, InputTypes
<1>5. p["flows_per_account"] \in Nat \ {0}
  BY <1>2, InputTypes
<1> HIDE DEF p
<1> QED
  BY <1>3, <1>4, <1>5 DEF IngestionInputs, p

LEMMA IngestionReturned ==
  ASSUME Consistent, Returned("connect.ingestion.v1")
  PROVE  IngestionInputs(input) /\ Ingested(input, batch)
<1>1. /\ call \in Calls /\ input = Inputs(call) /\ input.preset = call.preset
      /\ input.preset = "connect.ingestion.v1" /\ batch = Generated(input)
  BY InputsOfCall DEF Consistent, Returned
<1>2. batch = Ingestion(input)
  BY <1>1 DEF Generated
<1>3. IngestionInputs(input)
  BY <1>1, IngestionInputsOfCall
<1> QED
  BY <1>2, <1>3, IngestionBatch

-----------------------------------------------------------------------------
(* A figure that a round adds to, and the records of two batches in one.   *)
LEMMA SumTo ==
  ASSUME NEW RS, NEW TS, NEW b \in BatchOf(RS, TS), NEW x \in Int,
         NEW summed, summed = [b EXCEPT !.sum = @ + x]
  PROVE  /\ summed \in BatchOf(RS, TS)
         /\ summed.records = b.records
         /\ summed.truth = b.truth
         /\ summed.sum = b.sum + x
<1> DEFINE r == b.records
           t == b.truth
           s == b.sum
           more == s + x
<1>1. b = [records |-> r, truth |-> t, sum |-> s]
      /\ r \in Seq(RS) /\ t \in Seq(TS) /\ s \in Int
  BY BatchFields
<1>2. more \in Int
  BY <1>1
<1>3. summed = [b EXCEPT !.sum = more]
  BY DEF more, s
<1> HIDE DEF r, t, s, more
<1>4. summed = [records |-> r, truth |-> t, sum |-> more]
  BY <1>1, <1>3
<1> QED
  BY <1>1, <1>2, <1>4 DEF BatchOf, r, t, s, more

LEMMA ConcatRange ==
  ASSUME NEW S, NEW s \in Seq(S), NEW t \in Seq(S)
  PROVE  s \o t \in Seq(S) /\ Range(s \o t) = Range(s) \cup Range(t)
<1> DEFINE m == Len(s)
           n == Len(t)
           both == s \o t
<1>1. /\ both \in Seq(S) /\ m \in Nat /\ n \in Nat
      /\ DOMAIN s = 1..m /\ DOMAIN t = 1..n /\ DOMAIN both = 1 .. m + n
      /\ \A i \in 1 .. m + n : both[i] = IF i <= m THEN s[i] ELSE t[i - m]
  OBVIOUS
<1> HIDE DEF m, n, both
<1>2. ASSUME NEW x \in Range(both) PROVE x \in Range(s) \cup Range(t)
  <2>1. PICK i \in 1 .. m + n : x = both[i]
    BY <1>1 DEF Range
  <2>2. CASE i <= m
    <3>1. i \in 1..m
      BY <1>1, <2>2
    <3> QED
      BY <1>1, <2>1, <2>2, <3>1 DEF Range
  <2>3. CASE ~ (i <= m)
    <3>1. i - m \in 1..n
      BY <1>1, <2>3
    <3> QED
      BY <1>1, <2>1, <2>3, <3>1 DEF Range
  <2> QED
    BY <2>2, <2>3
<1>3. ASSUME NEW x \in Range(s) PROVE x \in Range(both)
  <2>1. PICK i \in 1..m : x = s[i]
    BY <1>1 DEF Range
  <2>2. i \in 1 .. m + n /\ i <= m
    BY <1>1
  <2> QED
    BY <1>1, <2>1, <2>2 DEF Range
<1>4. ASSUME NEW x \in Range(t) PROVE x \in Range(both)
  <2>1. PICK i \in 1..n : x = t[i]
    BY <1>1 DEF Range
  <2>2. m + i \in 1 .. m + n /\ ~ (m + i <= m) /\ (m + i) - m = i
    BY <1>1
  <2> QED
    BY <1>1, <2>1, <2>2 DEF Range
<1>5. Range(both) = Range(s) \cup Range(t)
  BY <1>2, <1>3, <1>4
<1> QED
  BY <1>1, <1>5 DEF both

(* finhub.consolidation: what is in a batch after k accounts, and the      *)
(* total of their balances.                                                *)
ConsolidatedAccounts(p, k) == {ConsolidatedAccount(p, i) : i \in 0 .. k - 1}

ConsolidatedFlows(p, k) ==
  {ConsolidatedFlow(p, i, j) : i \in 0 .. k - 1, j \in 0 .. FlowsPerAccount - 1}

ConsolidationRecords(p) ==
  ConsolidatedAccounts(p, ExpectedAccounts(p)) \cup ConsolidatedFlows(p, ExpectedAccounts(p))

InEur(account) == account.balance * EurRate[account.currency]

Euros(p) == [rec \in ConsolidatedAccounts(p, ExpectedAccounts(p)) |-> InEur(rec)]

Consolidated(p, k, b) ==
  /\ b \in BatchOf(ConsolidationRecords(p), {})
  /\ Range(b.records) = ConsolidatedAccounts(p, k) \cup ConsolidatedFlows(p, k)
  /\ b.sum = SumOver(Euros(p), ConsolidatedAccounts(p, k))

LEMMA RoundedInt ==
  ASSUME NEW x \in Int
  PROVE  RoundHundredths(x) \in Int
BY DEF RoundHundredths

LEMMA RoundTo ==
  ASSUME NEW RS, NEW TS, NEW b \in BatchOf(RS, TS),
         NEW rounded, rounded = [b EXCEPT !.sum = RoundHundredths(@)]
  PROVE  /\ rounded \in BatchOf(RS, TS)
         /\ rounded.records = b.records
         /\ rounded.sum = RoundHundredths(b.sum)
<1> DEFINE r == b.records
           t == b.truth
           s == b.sum
           less == RoundHundredths(s)
<1>1. b = [records |-> r, truth |-> t, sum |-> s]
      /\ r \in Seq(RS) /\ t \in Seq(TS) /\ s \in Int
  BY BatchFields
<1>2. less \in Int
  BY <1>1, RoundedInt
<1>3. rounded = [b EXCEPT !.sum = less]
  BY DEF less, s
<1> HIDE DEF r, t, s, less
<1>4. rounded = [records |-> r, truth |-> t, sum |-> less]
  BY <1>1, <1>3
<1> QED
  BY <1>1, <1>2, <1>4 DEF BatchOf, r, t, s, less

(* What is returned: the total is rounded.                                 *)
ConsolidatedBatch(p, b) ==
  LET opened == ConsolidatedAccounts(p, ExpectedAccounts(p)) IN
  /\ b \in BatchOf(ConsolidationRecords(p), {})
  /\ Range(b.records) = opened \cup ConsolidatedFlows(p, ExpectedAccounts(p))
  /\ b.sum = RoundHundredths(SumOver(Euros(p), opened))

ConsolidationInputs(p) ==
  /\ {p.entities, p.accounts_per_entity} \subseteq Nat \ {0}
  /\ p.draws \in Seq(Nat) /\ p.draws # << >>
  /\ p.currencies \in Seq(STRING) /\ p.currencies # << >>
  /\ \A i \in 1..Len(p.currencies) : p.currencies[i] \in DOMAIN EurRate

LEMMA ConsolidationSizes ==
  ASSUME NEW p, ConsolidationInputs(p)
  PROVE  /\ p.entities \in Nat \ {0} /\ p.accounts_per_entity \in Nat \ {0}
         /\ ExpectedAccounts(p) \in Nat \ {0}
         /\ FlowsPerAccount \in Nat \ {0} /\ EntitySuffixes \in Nat \ {0}
<1>1. p.entities \in Nat \ {0} /\ p.accounts_per_entity \in Nat \ {0}
  BY DEF ConsolidationInputs
<1>2. \A e \in Nat \ {0}, a \in Nat \ {0} : e * a \in Nat \ {0}
  OBVIOUS
<1> QED
  BY <1>1, <1>2, SizeAssumption DEF ExpectedAccounts

LEMMA ConsolidatedFields ==
  ASSUME NEW p, ConsolidationInputs(p), NEW k \in Nat
  PROVE  LET rec == ConsolidatedAccount(p, k) IN
         /\ rec.kind = "bank_account" /\ rec.ref = <<"ACC", k>>
         /\ InEur(rec) \in Int
         /\ \A j : ConsolidatedFlow(p, k, j).kind = "cash_flow"
<1> DEFINE rec == ConsolidatedAccount(p, k)
<1>1. /\ rec.kind = "bank_account" /\ rec.ref = <<"ACC", k>>
      /\ rec.currency = Cycle(p.currencies, k)
      /\ rec.balance = RoundHundredths(DrawnBalance(p, k))
  BY DEF ConsolidatedAccount, EntityAccount
<1>2. DrawnBalance(p, k) \in Int
  <2>1. Cycle(p.draws, k) \in Nat
    BY CycleIn DEF ConsolidationInputs
  <2> QED
    BY <2>1 DEF DrawnBalance
<1>3. Cycle(p.currencies, k) \in DOMAIN EurRate
  <2>1. \E i \in 1..Len(p.currencies) : Cycle(p.currencies, k) = p.currencies[i]
    BY CycleIn DEF ConsolidationInputs
  <2> QED
    BY <2>1 DEF ConsolidationInputs
<1>4. \A c \in DOMAIN EurRate : EurRate[c] \in Int
  BY DEF EurRate
<1>5. InEur(rec) = RoundHundredths(DrawnBalance(p, k)) * EurRate[Cycle(p.currencies, k)]
  BY <1>1 DEF InEur
<1>6. \A j : ConsolidatedFlow(p, k, j).kind = "cash_flow"
  BY DEF ConsolidatedFlow, FlowOn
<1> HIDE DEF rec
<1>7. InEur(rec) \in Int
  <2> DEFINE x == RoundHundredths(DrawnBalance(p, k))
             y == EurRate[Cycle(p.currencies, k)]
  <2>1. x \in Int /\ y \in Int
    BY <1>2, <1>3, <1>4, RoundedInt
  <2> HIDE DEF x, y
  <2>2. x * y \in Int
    BY <2>1
  <2> QED
    BY <1>5, <2>2 DEF x, y
<1> QED
  BY <1>1, <1>6, <1>7 DEF rec

LEMMA ConsolidatedSets ==
  ASSUME NEW p, ConsolidationInputs(p), NEW k \in 0 .. ExpectedAccounts(p)
  PROVE  /\ IsFiniteSet(ConsolidatedAccounts(p, k))
         /\ Cardinality(ConsolidatedAccounts(p, k)) = k
         /\ ConsolidatedAccounts(p, k) \subseteq ConsolidationRecords(p)
         /\ ConsolidatedFlows(p, k) \subseteq ConsolidationRecords(p)
         /\ \A rec \in ConsolidatedAccounts(p, k) : Euros(p)[rec] = InEur(rec)
                                                    /\ Euros(p)[rec] \in Int
<1> DEFINE n == ExpectedAccounts(p)
           account == [i \in 0 .. k - 1 |-> ConsolidatedAccount(p, i)]
<1>1. n \in Nat /\ k \in Nat /\ 0 .. k - 1 \subseteq 0 .. n - 1 /\ 0 .. k - 1 \subseteq Nat
  BY ConsolidationSizes
<1> HIDE DEF n
<1>2. IsFiniteSet(0 .. k - 1) /\ Cardinality(0 .. k - 1) = k
  <2>1. 0 \in Int /\ k - 1 \in Int /\ (0 > k - 1 => k = 0) /\ (k - 1) - 0 + 1 = k
    BY <1>1
  <2> QED
    BY <2>1, FS_Interval
<1>3. \A i \in 0 .. k - 1 : account[i] = ConsolidatedAccount(p, i)
  OBVIOUS
<1> HIDE DEF account
<1>4. ASSUME NEW i \in 0 .. k - 1, NEW j \in 0 .. k - 1, account[i] = account[j]
      PROVE  i = j
  <2>1. i \in Nat /\ j \in Nat
    BY <1>1
  <2>2. <<"ACC", i>> = <<"ACC", j>>
    BY <1>3, <1>4, <2>1, ConsolidatedFields
  <2> QED
    BY <2>2
<1>5. /\ IsFiniteSet({account[i] : i \in 0 .. k - 1})
      /\ Cardinality({account[i] : i \in 0 .. k - 1}) = k
  <2> DEFINE I == 0 .. k - 1
  <2>1. IsFiniteSet(I) /\ Cardinality(I) = k /\ \A i, j \in I : account[i] = account[j] => i = j
    BY <1>2, <1>4
  <2> HIDE DEF I
  <2>2. IsFiniteSet({account[i] : i \in I}) /\ Cardinality({account[i] : i \in I}) = k
    BY <2>1, ImageCardinality
  <2> QED
    BY <2>2 DEF I
<1>6. ConsolidatedAccounts(p, k) = {account[i] : i \in 0 .. k - 1}
  BY <1>3 DEF ConsolidatedAccounts
<1>7. /\ ConsolidatedAccounts(p, k) \subseteq ConsolidatedAccounts(p, n)
      /\ ConsolidatedFlows(p, k) \subseteq ConsolidatedFlows(p, n)
  BY <1>1 DEF ConsolidatedAccounts, ConsolidatedFlows
<1>8. ASSUME NEW rec \in ConsolidatedAccounts(p, k)
      PROVE  Euros(p)[rec] = InEur(rec) /\ Euros(p)[rec] \in Int
  <2>1. Euros(p)[rec] = InEur(rec)
    BY <1>7 DEF Euros, n
  <2>2. PICK i \in 0 .. k - 1 : rec = ConsolidatedAccount(p, i)
    BY DEF ConsolidatedAccounts
  <2>3. InEur(rec) \in Int
    BY <1>1, <2>2, ConsolidatedFields
  <2> QED
    BY <2>1, <2>3
<1> QED
  BY <1>5, <1>6, <1>7, <1>8 DEF ConsolidationRecords, n

(* One account more, its flows and its balance.                            *)
ConsolidateOne(p, b, k) ==
  AddAll([Add(b, ConsolidatedAccount(p, k)) EXCEPT !.sum = @ + InEur(ConsolidatedAccount(p, k))],
         [j \in 1..FlowsPerAccount |-> ConsolidatedFlow(p, k, j - 1)])

LEMMA AccountConsolidates ==
  ASSUME NEW p, ConsolidationInputs(p), NEW k \in 0 .. ExpectedAccounts(p) - 1,
         NEW b, Consolidated(p, k, b)
  PROVE  Consolidated(p, k + 1, ConsolidateOne(p, b, k))
<1> DEFINE n == ExpectedAccounts(p)
           RS == ConsolidationRecords(p)
           acc == ConsolidatedAccount(p, k)
           F == FlowsPerAccount
           recs == [j \in 1..F |-> ConsolidatedFlow(p, k, j - 1)]
           moved == {ConsolidatedFlow(p, k, j) : j \in 0 .. F - 1}
           opened == ConsolidatedAccounts(p, k)
           S == ConsolidatedFlows(p, k)
           b1 == Add(b, acc)
           b2 == [b1 EXCEPT !.sum = @ + InEur(acc)]
           b3 == AddAll(b2, recs)
<1>1. n \in Nat \ {0} /\ F \in Nat \ {0} /\ k \in Nat /\ k \in 0..n /\ k + 1 \in 0..n
      /\ 0 .. (k + 1) - 1 = (0 .. k - 1) \cup {k}
  BY ConsolidationSizes
<1>2. /\ b \in BatchOf(RS, {}) /\ b.records \in Seq(RS)
      /\ Range(b.records) = opened \cup S
      /\ b.sum = SumOver(Euros(p), opened)
  BY BatchFields DEF Consolidated
<1>3. ConsolidatedAccounts(p, k + 1) = opened \cup {acc}
  BY <1>1 DEF ConsolidatedAccounts
<1>4. ConsolidatedFlows(p, k + 1) = S \cup moved
  <2>1. \A x : x \in ConsolidatedFlows(p, k + 1) <=>
               \E i \in (0 .. k - 1) \cup {k}, j \in 0 .. F - 1 : x = ConsolidatedFlow(p, i, j)
    BY <1>1 DEF ConsolidatedFlows
  <2>2. \A x : x \in S <=> \E i \in 0 .. k - 1, j \in 0 .. F - 1 : x = ConsolidatedFlow(p, i, j)
    BY DEF ConsolidatedFlows
  <2> HIDE DEF S, F
  <2> QED
    BY <2>1, <2>2
<1>5. /\ ConsolidatedAccounts(p, k + 1) \subseteq RS /\ ConsolidatedFlows(p, k + 1) \subseteq RS
      /\ \A rec \in ConsolidatedAccounts(p, k + 1) : Euros(p)[rec] \in Int
      /\ Euros(p)[acc] = InEur(acc)
  BY <1>1, <1>3, ConsolidatedSets
<1>6. IsFiniteSet(opened)
  BY <1>1, ConsolidatedSets
<1>7. acc \notin opened
  <2> SUFFICES ASSUME acc \in opened PROVE FALSE
    OBVIOUS
  <2>1. PICK i \in 0 .. k - 1 : acc = ConsolidatedAccount(p, i)
    BY DEF ConsolidatedAccounts
  <2>2. i \in Nat /\ i # k
    BY <1>1
  <2>3. acc.ref = <<"ACC", k>> /\ acc.ref = <<"ACC", i>>
    BY <1>1, <2>1, <2>2, ConsolidatedFields
  <2> HIDE DEF acc
  <2> QED
    BY <2>2, <2>3
<1>8. /\ SumOver(Euros(p), opened) \in Int
      /\ SumOver(Euros(p), opened \cup {acc}) = SumOver(Euros(p), opened) + InEur(acc)
  <2> DEFINE f == Euros(p)
  <2>1. \A x \in opened \cup {acc} : f[x] \in Int
    BY <1>3, <1>5
  <2>2. f[acc] = InEur(acc)
    BY <1>5
  <2> HIDE DEF f, opened, acc
  <2>3. SumOver(f, opened) \in Int /\ SumOver(f, opened \cup {acc}) = SumOver(f, opened) + f[acc]
    BY <1>6, <1>7, <2>1, SumGrows
  <2> QED
    BY <2>2, <2>3 DEF f
<1>9. InEur(acc) \in Int
  BY <1>3, <1>5
<1>10. acc \in RS /\ moved \subseteq RS
  BY <1>3, <1>4, <1>5
<1>11. recs \in Seq(RS) /\ Range(recs) = moved
  <2>1. \A j \in 1..F : ConsolidatedFlow(p, k, j - 1) \in moved
    <3>1. \A j \in 1..F : j - 1 \in 0 .. F - 1
      BY <1>1
    <3> HIDE DEF F
    <3> QED
      BY <3>1
  <2>2. \A j \in 1..F : ConsolidatedFlow(p, k, j - 1) \in RS
    BY <1>10, <2>1
  <2>3. Range(recs) = {recs[j] : j \in 1..F}
    BY DEF Range
  <2>4. Range(recs) = {ConsolidatedFlow(p, k, j - 1) : j \in 1..F}
    BY <2>3
  <2>5. ASSUME NEW j \in 0 .. F - 1
        PROVE  \E l \in 1..F : ConsolidatedFlow(p, k, j) = ConsolidatedFlow(p, k, l - 1)
    <3>1. j + 1 \in 1..F /\ (j + 1) - 1 = j
      BY <1>1
    <3> QED
      BY <3>1
  <2> DEFINE R == Range(recs)
  <2>6. recs \in Seq(RS)
    <3> HIDE DEF RS, F, moved
    <3> QED
      BY <1>1, <2>2
  <2>7. R = moved
    <3> HIDE DEF R, F
    <3> QED
      BY <2>1, <2>4, <2>5 DEF R
  <2> QED
    BY <2>6, <2>7
<1> HIDE DEF n, RS, acc, recs, moved, opened, S, b1, b2, b3, F
<1>12. /\ b1 \in BatchOf(RS, {}) /\ b1.records = Append(b.records, acc)
       /\ b1.sum = b.sum
  BY <1>2, <1>10, AddTo DEF b1
<1>13. /\ b2 \in BatchOf(RS, {}) /\ b2.records = b1.records
       /\ b2.sum = b1.sum + InEur(acc)
  BY <1>9, <1>12, SumTo DEF b2
<1>14. /\ b3 \in BatchOf(RS, {}) /\ b3.records = b2.records \o recs /\ b3.sum = b2.sum
  BY <1>11, <1>13, AddAllTo DEF b3
<1>15. Range(b3.records) = (opened \cup {acc}) \cup (S \cup moved)
  <2>1. Range(b1.records) = Range(b.records) \cup {acc}
    BY <1>2, <1>10, <1>12, AppendRange
  <2>2. b2.records \in Seq(RS)
    BY <1>13, BatchFields
  <2>3. Range(b2.records \o recs) = Range(b2.records) \cup Range(recs)
    BY <1>11, <2>2, ConcatRange
  <2> QED
    BY <1>2, <1>11, <1>13, <1>14, <2>1, <2>3
<1>16. b3.sum = SumOver(Euros(p), opened \cup {acc})
  BY <1>2, <1>8, <1>12, <1>13, <1>14
<1>17. Consolidated(p, k + 1, b3)
  BY <1>3, <1>4, <1>14, <1>15, <1>16 DEF Consolidated, RS
<1> QED
  BY <1>17 DEF b3, b2, b1, acc, recs, F, ConsolidateOne

LEMMA ConsolidationBatch ==
  ASSUME NEW p, ConsolidationInputs(p)
  PROVE  ConsolidatedBatch(p, Consolidation(p))
<1> DEFINE n == ExpectedAccounts(p)
           Body(b, k) == ConsolidateOne(p, b, k)
           Loop(f) == [k \in 0..n |-> IF k = 0 THEN Empty ELSE Body(f[k - 1], k - 1)]
           chosen == CHOOSE f : f = Loop(f)
           RS == ConsolidationRecords(p)
           W == [k \in 0..n |-> {b \in BatchOf(RS, {}) : Consolidated(p, k, b)}]
           step == [k \in 0 .. n - 1 |-> [c \in W[k] |-> Body(c, k)]]
<1>1. Consolidation(p) = [chosen[n] EXCEPT !.sum = RoundHundredths(@)]
  BY Zenon DEF Consolidation, ForRange, ConsolidateOne, ExpectedAccounts, Converted, InEur
<1>2. n \in Nat \ {0} /\ n \in Nat /\ 0 \in 0..n /\ n \in 0..n
  BY ConsolidationSizes
<1>3. Empty \in W[0]
  <2>1. Empty \in BatchOf(RS, {}) /\ Empty.records = << >> /\ Empty.sum = 0
    BY DEF Empty, BatchOf
  <2>2. 0 .. 0 - 1 = {} /\ Range(<< >>) = {}
    BY DEF Range
  <2>3. ConsolidatedAccounts(p, 0) = {} /\ ConsolidatedFlows(p, 0) = {}
    BY <2>2 DEF ConsolidatedAccounts, ConsolidatedFlows
  <2>4. SumOver(Euros(p), {}) = 0
    <3>1. IsFiniteSet({}) /\ {} \subseteq RS
      BY FS_EmptySet
    <3>2. ConsolidatedAccount(p, 0) \in ConsolidatedAccounts(p, 1)
      <4>1. 0 \in 0 .. 1 - 1
        OBVIOUS
      <4> QED
        BY <4>1 DEF ConsolidatedAccounts
    <3>3. 1 \in 0..n
      BY <1>2
    <3>4. Euros(p)[ConsolidatedAccount(p, 0)] \in Int
      BY <3>2, <3>3, ConsolidatedSets
    <3> DEFINE f == Euros(p)
               y == ConsolidatedAccount(p, 0)
    <3>5. y \notin {} /\ \A x \in {} \cup {y} : f[x] \in Int
      BY <3>4
    <3> HIDE DEF f, y
    <3>6. SumOver(f, {}) = 0
      BY <3>1, <3>5, SumGrows
    <3> QED
      BY <3>6 DEF f
  <2>5. Consolidated(p, 0, Empty)
    <3> HIDE DEF RS
    <3> QED
      BY <2>1, <2>2, <2>3, <2>4 DEF Consolidated, RS
  <2> QED
    BY <1>2, <2>1, <2>5
<1>4. ASSUME NEW k \in 0 .. n - 1, NEW c \in W[k]
      PROVE  step[k][c] = Body(c, k) /\ Body(c, k) \in W[k + 1]
  <2>1. k \in 0..n /\ k + 1 \in 0..n
    BY <1>2
  <2>2. Consolidated(p, k, c)
    BY <2>1
  <2>3. Consolidated(p, k + 1, Body(c, k))
    BY <2>2, AccountConsolidates
  <2>4. Body(c, k) \in BatchOf(RS, {})
    BY <2>3 DEF Consolidated
  <2> HIDE DEF Body
  <2> QED
    BY <2>1, <2>3, <2>4
<1>5. \A k \in 0 .. n - 1 : \A c \in W[k] : step[k][c] \in W[k + 1]
  BY <1>4
<1> HIDE DEF n, Body, W, step
<1>6. PICK run : IsRun(run, n, W, Empty, step)
  BY <1>2, <1>3, <1>5, RunExists
<1>7. \E f : f = Loop(f)
  <2>0. run = [k \in 0..n |-> run[k]] /\ run[0] = Empty
    BY <1>2, <1>6, RunFacts
  <2>1. \A k \in 0 .. n - 1 : run[k + 1] = Body(run[k], k)
    <3>1. \A k \in 0 .. n - 1 : run[k] \in W[k] /\ run[k + 1] = step[k][run[k]]
      BY <1>2, <1>6, RunFacts
    <3> QED
      BY <1>4, <3>1
  <2>2. ASSUME NEW k \in 0..n
        PROVE  run[k] = IF k = 0 THEN Empty ELSE Body(run[k - 1], k - 1)
    <3>1. CASE k = 0
      BY <2>0, <3>1
    <3>2. CASE k # 0
      <4>1. k - 1 \in 0 .. n - 1 /\ (k - 1) + 1 = k
        BY <1>2, <3>2
      <4> QED
        BY <2>1, <3>2, <4>1
    <3> QED
      BY <3>1, <3>2
  <2>3. run = [k \in 0..n |-> IF k = 0 THEN Empty ELSE Body(run[k - 1], k - 1)]
    BY <2>0, <2>2
  <2> QED
    BY <2>3
<1>8. chosen = Loop(chosen)
  <2> HIDE DEF Loop
  <2> QED
    BY <1>7
<1> HIDE DEF chosen
<1>9. chosen[0] = Empty /\ \A k \in 0 .. n - 1 : chosen[k + 1] = Body(chosen[k], k)
  BY <1>2, <1>8
<1>10. chosen[n] \in W[n]
  BY <1>2, <1>3, <1>4, <1>9, LoopEnds
<1>11. chosen[n] \in BatchOf(RS, {}) /\ Consolidated(p, n, chosen[n])
  BY <1>2, <1>10 DEF W
<1> DEFINE all == chosen[n]
           rounded == Consolidation(p)
<1> HIDE DEF all, rounded
<1>12. /\ rounded \in BatchOf(RS, {}) /\ rounded.records = all.records
       /\ rounded.sum = RoundHundredths(all.sum)
  <2>1. all \in BatchOf(RS, {}) /\ rounded = [all EXCEPT !.sum = RoundHundredths(@)]
    BY <1>1, <1>11 DEF all, rounded
  <2> QED
    BY <2>1, RoundTo
<1>13. ConsolidatedBatch(p, rounded)
  BY <1>11, <1>12 DEF ConsolidatedBatch, Consolidated, RS, n, all
<1> QED
  BY <1>13 DEF rounded

LEMMA ConsolidationInputsOfCall ==
  ASSUME NEW c \in Calls, c.preset = "finhub.consolidation.v1"
  PROVE  ConsolidationInputs(Inputs(c))
<1> DEFINE p == Inputs(c)
           schema == Schema[c.preset]
<1>1. c.preset \in DOMAIN Schema
  BY CallsAssumption
<1>2. /\ {"entities", "accounts_per_entity", "currencies"} \subseteq DOMAIN schema
      /\ schema["entities"].type = "int" /\ schema["entities"].min >= 1
      /\ schema["accounts_per_entity"].type = "int" /\ schema["accounts_per_entity"].min >= 1
      /\ schema["currencies"].type = "multi"
  BY <1>1, PresetAssumption DEF HasParams
<1>3. schema["currencies"].options \subseteq DOMAIN EurRate
  BY <1>1, PresetAssumption
<1>4. p.draws \in Seq(Nat) /\ p.draws # << >>
  BY InputsOfCall
<1>5. p["entities"] \in Nat \ {0}
  BY <1>2, InputTypes
<1>6. p["accounts_per_entity"] \in Nat \ {0}
  BY <1>2, InputTypes
<1>7. /\ p["currencies"] \in Seq(STRING) /\ p["currencies"] # << >>
      /\ \A i \in 1..Len(p["currencies"]) : p["currencies"][i] \in schema["currencies"].options
  BY <1>2, InputTypes
<1> HIDE DEF p
<1> QED
  BY <1>3, <1>4, <1>5, <1>6, <1>7 DEF ConsolidationInputs, p

LEMMA ConsolidationReturned ==
  ASSUME Consistent, Returned("finhub.consolidation.v1")
  PROVE  ConsolidationInputs(input) /\ ConsolidatedBatch(input, batch)
<1>1. /\ call \in Calls /\ input = Inputs(call) /\ input.preset = call.preset
      /\ input.preset = "finhub.consolidation.v1" /\ batch = Generated(input)
  BY InputsOfCall DEF Consistent, Returned
<1>2. batch = Consolidation(input)
  BY <1>1 DEF Generated
<1>3. ConsolidationInputs(input)
  BY <1>1, ConsolidationInputsOfCall
<1> QED
  BY <1>2, <1>3, ConsolidationBatch

(* The fold that ConsolidationAddsUp takes the sum with.                   *)
LEMMA EurosOf ==
  ASSUME NEW p, NEW S, IsFiniteSet(S),
         \A rec \in S : Euros(p)[rec] = InEur(rec) /\ Euros(p)[rec] \in Int
  PROVE  MapThenSumSet(LAMBDA rec : rec.balance * EurRate[rec.currency], S)
           = SumOver(Euros(p), S)
<1> DEFINE Round(g) == [s \in SUBSET S |->
                          IF s = {} THEN 0
                          ELSE InEur(CHOOSE x \in s : TRUE) + g[s \ {CHOOSE x \in s : TRUE}]]
           f == Euros(p)
           chosen == CHOOSE g : g = Round(g)
           sum == CHOOSE g : g = SumRound(g, f, S)
<1>1. MapThenSumSet(LAMBDA rec : rec.balance * EurRate[rec.currency], S) = chosen[S]
  BY Zenon DEF MapThenSumSet, MapThenFoldSet, InEur
<1>2. ASSUME NEW g PROVE Round(g) = SumRound(g, f, S)
  <2>1. ASSUME NEW s \in SUBSET S, s # {}
        PROVE  InEur(CHOOSE x \in s : TRUE) = f[CHOOSE x \in s : TRUE]
    <3> DEFINE x == CHOOSE y \in s : TRUE
    <3>1. x \in s
      BY <2>1
    <3> HIDE DEF x
    <3> QED
      BY <3>1 DEF x
  <2> HIDE DEF f
  <2> QED
    BY <2>1 DEF SumRound
<1> HIDE DEF Round
<1>3. \A x \in S : f[x] \in Int
  OBVIOUS
<1> HIDE DEF f
<1>4. PICK g : g = SumRound(g, f, S)
  BY <1>3, SumExists
<1>5. chosen = SumRound(chosen, f, S) /\ sum = SumRound(sum, f, S)
  <2>1. \E h : h = Round(h)
    BY <1>2, <1>4
  <2>2. chosen = Round(chosen)
    BY <2>1
  <2>3. sum = SumRound(sum, f, S)
    BY <1>4
  <2> QED
    BY <1>2, <2>2, <2>3
<1>6. SumOver(f, S) = sum[S]
  BY Zenon DEF SumOver
<1> HIDE DEF chosen, sum
<1>7. chosen[S] = sum[S]
  BY <1>5, SumsAgree
<1> QED
  BY <1>1, <1>6, <1>7 DEF f

(* A consolidation announces what a cockpit computes from the accounts     *)
(* Core keeps of it, whatever is asked for: how many there are, and their  *)
(* total in euros, which is not the total of what was drawn.               *)
THEOREM RunConsolidationAddsUp == Spec => []ConsolidationAddsUp
<1>1. ASSUME Consistent, Returned("finhub.consolidation.v1")
      PROVE  ConsolidationAddsUp
  <2> DEFINE p == input
             n == ExpectedAccounts(p)
             opened == ConsolidatedAccounts(p, n)
  <2>1. ConsolidationInputs(p) /\ ConsolidatedBatch(p, batch)
    BY <1>1, ConsolidationReturned
  <2>2. n \in Nat /\ n \in 0..n
    BY <2>1, ConsolidationSizes
  <2>3. /\ Stored = opened \cup ConsolidatedFlows(p, n)
        /\ batch.sum = RoundHundredths(SumOver(Euros(p), opened))
    BY <2>1 DEF ConsolidatedBatch, Stored, Records
  <2>4. \A rec \in opened : rec.kind = "bank_account"
    BY <2>1, <2>2, ConsolidatedFields DEF ConsolidatedAccounts
  <2>5. \A rec \in ConsolidatedFlows(p, n) : rec.kind = "cash_flow"
    BY <2>1, <2>2, ConsolidatedFields DEF ConsolidatedFlows
  <2>6. Kept = opened
    BY <2>3, <2>4, <2>5 DEF Kept
  <2>7. /\ IsFiniteSet(opened) /\ Cardinality(opened) = n
        /\ \A rec \in opened : Euros(p)[rec] = InEur(rec) /\ Euros(p)[rec] \in Int
    BY <2>1, <2>2, ConsolidatedSets
  <2> HIDE DEF opened, n
  <2>8. MapThenSumSet(LAMBDA rec : rec.balance * EurRate[rec.currency], opened)
          = SumOver(Euros(p), opened)
    BY <2>7, EurosOf
  <2>9. batch.sum = RoundHundredths(
          MapThenSumSet(LAMBDA rec : rec.balance * EurRate[rec.currency], Kept))
    BY <2>3, <2>6, <2>8
  <2>10. Cardinality(Kept) = ExpectedAccounts(p)
    BY <2>6, <2>7 DEF n
  <2> QED
    BY Zenon, <2>9, <2>10 DEF ConsolidationAddsUp
<1>2. Consistent => ConsolidationAddsUp
  BY <1>1 DEF ConsolidationAddsUp
<1> QED
  BY <1>2, AlwaysConsistent, PTL

-----------------------------------------------------------------------------
(* finhub.forecasting: the slots from lo up to hi that happen, in order.   *)
HappenIn(p, lo, hi, s) ==
  /\ s \in Seq(Nat)
  /\ \A i, j \in 1..Len(s) : i < j => s[i] < s[j]
  /\ \A i \in 1..Len(s) : s[i] \in lo .. hi - 1 /\ Occurs(p, s[i])
  /\ \A x \in lo .. hi - 1 : Occurs(p, x) => \E i \in 1..Len(s) : s[i] = x

LEMMA NoneHappen ==
  ASSUME NEW p, NEW lo \in Nat
  PROVE  HappenIn(p, lo, lo, << >>)
BY DEF HappenIn

LEMMA OneMayHappen ==
  ASSUME NEW p, NEW lo \in Nat, NEW hi \in Nat, lo <= hi, NEW s, HappenIn(p, lo, hi, s)
  PROVE  /\ Occurs(p, hi) => HappenIn(p, lo, hi + 1, Append(s, hi))
         /\ ~Occurs(p, hi) => HappenIn(p, lo, hi + 1, s)
<1> DEFINE n == Len(s)
           t == Append(s, hi)
<1>1. /\ s \in Seq(Nat) /\ n \in Nat
      /\ \A i, j \in 1..n : i < j => s[i] < s[j]
      /\ \A i \in 1..n : s[i] \in lo .. hi - 1 /\ Occurs(p, s[i])
      /\ \A x \in lo .. hi - 1 : Occurs(p, x) => \E i \in 1..n : s[i] = x
  BY DEF HappenIn
<1>2. /\ lo .. (hi + 1) - 1 = (lo .. hi - 1) \cup {hi}
      /\ \A x \in lo .. hi - 1 : x < hi
  OBVIOUS
<1>3. ASSUME Occurs(p, hi) PROVE HappenIn(p, lo, hi + 1, t)
  <2>1. /\ t \in Seq(Nat) /\ Len(t) = n + 1 /\ t[n + 1] = hi
        /\ \A i \in 1..n : t[i] = s[i]
    BY <1>1
  <2> HIDE DEF t, n
  <2>2. 1 .. n + 1 = (1..n) \cup {n + 1} /\ \A i \in 1..n : i \in Nat /\ i < n + 1
    BY <1>1
  <2>3. ASSUME NEW i \in 1 .. n + 1, NEW j \in 1 .. n + 1, i < j PROVE t[i] < t[j]
    <3>1. i \in 1..n
      BY <1>1, <2>3
    <3>2. CASE j \in 1..n
      BY <1>1, <2>1, <2>3, <3>1, <3>2
    <3>3. CASE j = n + 1
      <4>1. s[i] \in lo .. hi - 1
        BY <1>1, <3>1
      <4> QED
        BY <1>2, <2>1, <3>1, <3>3, <4>1
    <3> QED
      BY <2>2, <3>2, <3>3
  <2>4. ASSUME NEW i \in 1 .. n + 1 PROVE t[i] \in lo .. (hi + 1) - 1 /\ Occurs(p, t[i])
    <3>1. CASE i \in 1..n
      BY <1>1, <1>2, <2>1, <3>1
    <3>2. CASE i = n + 1
      BY <1>2, <1>3, <2>1, <3>2
    <3> QED
      BY <2>2, <3>1, <3>2
  <2>5. ASSUME NEW x \in lo .. (hi + 1) - 1, Occurs(p, x)
        PROVE  \E i \in 1 .. n + 1 : t[i] = x
    <3>1. CASE x = hi
      BY <2>1, <2>2, <3>1
    <3>2. CASE x \in lo .. hi - 1
      <4>1. PICK i \in 1..n : s[i] = x
        BY <1>1, <2>5, <3>2
      <4> QED
        BY <2>1, <2>2, <4>1
    <3> QED
      BY <1>2, <3>1, <3>2
  <2> QED
    BY <2>1, <2>3, <2>4, <2>5 DEF HappenIn
<1>4. ASSUME ~Occurs(p, hi) PROVE HappenIn(p, lo, hi + 1, s)
  <2>1. \A x \in lo .. (hi + 1) - 1 : Occurs(p, x) => x \in lo .. hi - 1
    BY <1>2, <1>4
  <2>2. \A x \in lo .. (hi + 1) - 1 : Occurs(p, x) => \E i \in 1..n : s[i] = x
    BY <1>1, <2>1
  <2>3. \A i \in 1..n : s[i] \in lo .. (hi + 1) - 1 /\ Occurs(p, s[i])
    BY <1>1, <1>2
  <2> QED
    BY <1>1, <2>2, <2>3 DEF HappenIn
<1> QED
  BY <1>3, <1>4

LEMMA BothHappen ==
  ASSUME NEW p, NEW lo \in Nat, NEW mid \in Nat, NEW hi \in Nat, lo <= mid, mid <= hi,
         NEW s, HappenIn(p, lo, mid, s), NEW t, HappenIn(p, mid, hi, t)
  PROVE  HappenIn(p, lo, hi, s \o t)
<1> DEFINE m == Len(s)
           n == Len(t)
           u == s \o t
<1>1. /\ s \in Seq(Nat) /\ m \in Nat
      /\ \A i, j \in 1..m : i < j => s[i] < s[j]
      /\ \A i \in 1..m : s[i] \in lo .. mid - 1 /\ Occurs(p, s[i])
      /\ \A x \in lo .. mid - 1 : Occurs(p, x) => \E i \in 1..m : s[i] = x
  BY DEF HappenIn
<1>2. /\ t \in Seq(Nat) /\ n \in Nat
      /\ \A i, j \in 1..n : i < j => t[i] < t[j]
      /\ \A i \in 1..n : t[i] \in mid .. hi - 1 /\ Occurs(p, t[i])
      /\ \A x \in mid .. hi - 1 : Occurs(p, x) => \E i \in 1..n : t[i] = x
  BY DEF HappenIn
<1>3. /\ u \in Seq(Nat) /\ Len(u) = m + n
      /\ \A i \in 1 .. m + n : u[i] = IF i <= m THEN s[i] ELSE t[i - m]
  BY <1>1, <1>2
<1> HIDE DEF m, n, u
<1>4. /\ \A i \in 1 .. m + n : /\ i <= m => i \in 1..m
                               /\ ~ (i <= m) => i - m \in 1..n
      /\ \A i \in 1..m : i \in 1 .. m + n /\ i <= m
      /\ \A i \in 1..n : m + i \in 1 .. m + n /\ ~ (m + i <= m) /\ (m + i) - m = i
  BY <1>1, <1>2
<1>5. /\ lo .. hi - 1 = (lo .. mid - 1) \cup (mid .. hi - 1)
      /\ \A x \in lo .. mid - 1, y \in mid .. hi - 1 : x < y
  OBVIOUS
<1>6. ASSUME NEW i \in 1 .. m + n, NEW j \in 1 .. m + n, i < j PROVE u[i] < u[j]
  <2>1. CASE j <= m
    <3>1. i <= m /\ i \in 1..m /\ j \in 1..m
      BY <1>1, <1>2, <1>6, <2>1
    <3> QED
      BY <1>1, <1>3, <1>6, <2>1, <3>1
  <2>2. CASE ~ (j <= m) /\ i <= m
    <3>1. s[i] \in lo .. mid - 1 /\ t[j - m] \in mid .. hi - 1
      BY <1>1, <1>2, <1>4, <2>2
    <3> QED
      BY <1>3, <1>5, <2>2, <3>1
  <2>3. CASE ~ (j <= m) /\ ~ (i <= m)
    <3>1. i - m \in 1..n /\ j - m \in 1..n /\ i - m < j - m
      BY <1>1, <1>2, <1>4, <1>6, <2>3
    <3> QED
      BY <1>2, <1>3, <2>3, <3>1
  <2> QED
    BY <2>1, <2>2, <2>3
<1>7. ASSUME NEW i \in 1 .. m + n PROVE u[i] \in lo .. hi - 1 /\ Occurs(p, u[i])
  <2>1. CASE i <= m
    BY <1>1, <1>3, <1>4, <1>5, <2>1
  <2>2. CASE ~ (i <= m)
    BY <1>2, <1>3, <1>4, <1>5, <2>2
  <2> QED
    BY <2>1, <2>2
<1>8. ASSUME NEW x \in lo .. hi - 1, Occurs(p, x) PROVE \E i \in 1 .. m + n : u[i] = x
  <2>1. CASE x \in lo .. mid - 1
    <3>1. PICK i \in 1..m : s[i] = x
      BY <1>1, <1>8, <2>1
    <3> QED
      BY <1>3, <1>4, <3>1
  <2>2. CASE x \in mid .. hi - 1
    <3>1. PICK i \in 1..n : t[i] = x
      BY <1>2, <1>8, <2>2
    <3>2. u[m + i] = t[i] /\ m + i \in 1 .. m + n
      BY <1>3, <1>4
    <3> QED
      BY <3>1, <3>2
  <2> QED
    BY <1>5, <2>1, <2>2
<1> QED
  BY <1>3, <1>6, <1>7, <1>8 DEF HappenIn, u

(* The slots of one day.                                                   *)
LEMMA DayHappens ==
  ASSUME NEW p, NEW offset \in Nat
  PROVE  HappenIn(p, 5 * offset, 5 * offset + 5, SlotsOfDay(p, offset))
<1> DEFINE lo == 5 * offset
           m == 5
           all == [n \in 1..5 |-> 5 * offset + n - 1]
           Loop(f) == [i \in 0..Len(all) |->
                         IF i = 0 THEN << >>
                         ELSE IF Occurs(p, all[i]) THEN Append(f[i - 1], all[i]) ELSE f[i - 1]]
           chosen == CHOOSE f : f = Loop(f)
           Body(s, k) == IF Occurs(p, lo + k) THEN Append(s, lo + k) ELSE s
           W == [k \in 0..m |-> {s \in Seq(Nat) : HappenIn(p, lo, lo + k, s)}]
           step == [k \in 0 .. m - 1 |-> [s \in W[k] |-> Body(s, k)]]
<1>0. m \in Nat
  OBVIOUS
<1>1. SlotsOfDay(p, offset) = chosen[Len(all)]
  BY Zenon DEF SlotsOfDay, Those
<1>2. lo \in Nat /\ Len(all) = m /\ m = 5 /\ \A i \in 1..5 : all[i] = lo + (i - 1)
  OBVIOUS
<1>3. << >> \in W[0]
  BY <1>2, NoneHappen
<1>4. ASSUME NEW k \in 0 .. m - 1, NEW s \in W[k]
      PROVE  step[k][s] = Body(s, k) /\ Body(s, k) \in W[k + 1]
  <2>1. k \in 0..m /\ k + 1 \in 0..m /\ lo + k \in Nat /\ lo <= lo + k
        /\ lo + (k + 1) = (lo + k) + 1
    BY <1>2
  <2>2. HappenIn(p, lo, lo + k, s)
    BY <2>1
  <2> DEFINE hi == lo + k
  <2> HIDE DEF lo
  <2>3. HappenIn(p, lo, hi + 1, Body(s, k))
    <3>1. hi \in Nat /\ lo \in Nat /\ lo <= hi /\ HappenIn(p, lo, hi, s)
      BY <1>2, <2>1, <2>2
    <3> HIDE DEF hi
    <3>2. /\ Occurs(p, hi) => HappenIn(p, lo, hi + 1, Append(s, hi))
          /\ ~Occurs(p, hi) => HappenIn(p, lo, hi + 1, s)
      BY <3>1, OneMayHappen
    <3> QED
      BY <3>2 DEF hi
  <2>4. Body(s, k) \in Seq(Nat)
    BY <2>3 DEF HappenIn
  <2> HIDE DEF Body
  <2> QED
    BY <2>1, <2>3, <2>4
<1>5. \A k \in 0 .. m - 1 : \A s \in W[k] : step[k][s] \in W[k + 1]
  BY <1>4
<1> HIDE DEF lo, all, W, step, m
<1>6. PICK run : IsRun(run, m, W, << >>, step)
  BY <1>0, <1>3, <1>5, RunExists
<1>7. /\ run = [k \in 0..m |-> run[k]] /\ run[0] = << >>
      /\ \A k \in 0 .. m - 1 : run[k] \in W[k] /\ run[k + 1] = step[k][run[k]]
  BY <1>0, <1>6, RunFacts
<1>8. \A k \in 0 .. m - 1 : run[k + 1] = Body(run[k], k)
  BY <1>4, <1>7
<1>9. ASSUME NEW f, NEW i \in 1..5
      PROVE  (IF Occurs(p, all[i]) THEN Append(f[i - 1], all[i]) ELSE f[i - 1])
               = Body(f[i - 1], i - 1)
  BY <1>2
<1>10. \E f : f = Loop(f)
  <2>1. ASSUME NEW i \in 0..m
        PROVE  run[i] = IF i = 0 THEN << >>
                        ELSE IF Occurs(p, all[i]) THEN Append(run[i - 1], all[i])
                             ELSE run[i - 1]
    <3>1. CASE i = 0
      BY <1>7, <3>1
    <3>2. CASE i # 0
      <4>1. i \in 1..5 /\ i - 1 \in 0 .. m - 1 /\ (i - 1) + 1 = i
        BY <1>2, <3>2
      <4>2. run[i] = Body(run[i - 1], i - 1)
        BY <1>8, <4>1
      <4> HIDE DEF Body
      <4> QED
        BY <1>9, <3>2, <4>1, <4>2
    <3> QED
      BY <3>1, <3>2
  <2>2. run = Loop(run)
    <3> HIDE DEF Body
    <3> QED
      BY <1>2, <1>7, <2>1
  <2> QED
    BY <2>2
<1>11. chosen = Loop(chosen)
  <2> HIDE DEF Loop
  <2> QED
    BY <1>10
<1> HIDE DEF chosen
<1>12. chosen[0] = << >> /\ \A k \in 0 .. m - 1 : chosen[k + 1] = Body(chosen[k], k)
  <2>1. chosen[0] = << >>
    BY <1>2, <1>11
  <2>2. ASSUME NEW k \in 0 .. m - 1 PROVE chosen[k + 1] = Body(chosen[k], k)
    <3>1. k + 1 \in 0..m /\ k + 1 # 0 /\ k + 1 \in 1..5 /\ (k + 1) - 1 = k
      BY <1>2
    <3> HIDE DEF Body
    <3> QED
      BY <1>2, <1>9, <1>11, <3>1
  <2> QED
    BY <2>1, <2>2
<1>13. chosen[m] \in W[m]
  BY <1>0, <1>3, <1>4, <1>12, LoopEnds
<1> QED
  BY <1>1, <1>2, <1>13 DEF W, lo, m

(* The batch: the accounts, then a flow for each slot that happens.        *)
Forecast(p, slots, b) ==
  /\ HappenIn(p, 0, 5 * p.days, slots)
  /\ b.records = [i \in 1 .. p.accounts + Len(slots) |->
                    IF i <= p.accounts THEN HistoryAccount(i - 1)
                    ELSE HistoryFlow(p, slots[i - p.accounts])]
  /\ b.truth = << >>
  /\ b.sum = Len(slots)

LEMMA ForecastingBatch ==
  ASSUME NEW p, p.days \in Nat \ {0}, p.accounts \in Nat \ {0}
  PROVE  \E slots : Forecast(p, slots, Forecasting(p))
<1> DEFINE n == p.days
           Loop(f) == [d \in 0..n |-> IF d = 0 THEN << >> ELSE f[d - 1] \o SlotsOfDay(p, d - 1)]
           chosen == CHOOSE f : f = Loop(f)
           slots == chosen[n]
           Body(s, k) == s \o SlotsOfDay(p, k)
           W == [k \in 0..n |-> {s \in Seq(Nat) : HappenIn(p, 0, 5 * k, s)}]
           step == [k \in 0 .. n - 1 |-> [s \in W[k] |-> Body(s, k)]]
           opened == [i \in 1..p.accounts |-> HistoryAccount(i - 1)]
           moved == [i \in DOMAIN slots |-> HistoryFlow(p, slots[i])]
           records == opened \o moved
<1>1. Forecasting(p) = [Empty EXCEPT !.records = records, !.sum = Len(slots)]
  BY Zenon DEF Forecasting
<1>2. n \in Nat \ {0} /\ n \in Nat /\ 0 \in 0..n /\ n \in 0..n
  OBVIOUS
<1>3. << >> \in W[0]
  <2>1. 5 * 0 = 0 /\ 0 \in Nat
    OBVIOUS
  <2> QED
    BY <1>2, <2>1, NoneHappen
<1>4. ASSUME NEW k \in 0 .. n - 1, NEW s \in W[k]
      PROVE  step[k][s] = Body(s, k) /\ Body(s, k) \in W[k + 1]
  <2>1. k \in 0..n /\ k + 1 \in 0..n /\ k \in Nat
    BY <1>2
  <2> DEFINE mid == 5 * k
             hi == mid + 5
  <2>2. mid \in Nat /\ hi \in Nat /\ 0 \in Nat /\ 0 <= mid /\ mid <= hi /\ 5 * (k + 1) = hi
    BY <2>1
  <2>3. HappenIn(p, 0, mid, s)
    BY <2>1
  <2>4. HappenIn(p, mid, hi, SlotsOfDay(p, k))
    BY <2>1, DayHappens
  <2> HIDE DEF mid, hi
  <2>5. HappenIn(p, 0, hi, Body(s, k))
    BY <2>2, <2>3, <2>4, BothHappen
  <2>6. Body(s, k) \in Seq(Nat)
    BY <2>5 DEF HappenIn
  <2> HIDE DEF Body
  <2> QED
    BY <2>1, <2>2, <2>5, <2>6
<1>5. \A k \in 0 .. n - 1 : \A s \in W[k] : step[k][s] \in W[k + 1]
  BY <1>4
<1> HIDE DEF n, W, step, Body, slots, records
<1>6. PICK run : IsRun(run, n, W, << >>, step)
  BY <1>2, <1>3, <1>5, RunExists
<1>7. /\ run = [k \in 0..n |-> run[k]] /\ run[0] = << >>
      /\ \A k \in 0 .. n - 1 : run[k] \in W[k] /\ run[k + 1] = step[k][run[k]]
  BY <1>2, <1>6, RunFacts
<1>8. \A k \in 0 .. n - 1 : run[k + 1] = Body(run[k], k)
  BY <1>4, <1>7
<1>9. \E f : f = Loop(f)
  <2>1. ASSUME NEW d \in 0..n
        PROVE  run[d] = IF d = 0 THEN << >> ELSE Body(run[d - 1], d - 1)
    <3>1. CASE d = 0
      BY <1>7, <3>1
    <3>2. CASE d # 0
      <4>1. d - 1 \in 0 .. n - 1 /\ (d - 1) + 1 = d
        BY <1>2, <3>2
      <4> QED
        BY <1>8, <3>2, <4>1
    <3> QED
      BY <3>1, <3>2
  <2>2. run = [d \in 0..n |-> IF d = 0 THEN << >> ELSE Body(run[d - 1], d - 1)]
    BY <1>7, <2>1
  <2>3. run = Loop(run)
    BY <2>2 DEF Body
  <2> QED
    BY <2>3
<1>10. chosen = Loop(chosen)
  <2> HIDE DEF Loop
  <2> QED
    BY <1>9
<1> HIDE DEF chosen
<1>11. chosen[0] = << >> /\ \A k \in 0 .. n - 1 : chosen[k + 1] = Body(chosen[k], k)
  <2>1. chosen[0] = << >>
    BY <1>2, <1>10
  <2>2. ASSUME NEW k \in 0 .. n - 1 PROVE chosen[k + 1] = chosen[k] \o SlotsOfDay(p, k)
    <3>1. k + 1 \in 0..n /\ k + 1 # 0 /\ (k + 1) - 1 = k
      BY <1>2
    <3> QED
      BY <1>10, <3>1
  <2> QED
    BY <2>1, <2>2 DEF Body
<1>12. slots \in W[n]
  <2>1. chosen[0] \in W[0]
    BY <1>3, <1>11
  <2>2. \A k \in 0 .. n - 1 : chosen[k] \in W[k] => chosen[k + 1] \in W[k + 1]
    BY <1>4, <1>11
  <2>3. chosen[n] \in W[n]
    BY <1>2, <2>1, <2>2, LoopEnds
  <2> QED
    BY <2>3 DEF slots
<1>13. slots \in Seq(Nat) /\ HappenIn(p, 0, 5 * n, slots)
  BY <1>2, <1>12 DEF W
<1> DEFINE a == p.accounts
           l == Len(slots)
<1>14. a \in Nat /\ l \in Nat /\ DOMAIN slots = 1..l
  BY <1>13
<1>15. records = [i \in 1 .. a + l |->
                    IF i <= a THEN HistoryAccount(i - 1) ELSE HistoryFlow(p, slots[i - a])]
  <2> HIDE DEF a, l
  <2>1. opened = [i \in 1..a |-> opened[i]] /\ moved = [i \in 1..l |-> moved[i]]
    BY <1>14 DEF a
  <2>2. \A i \in 1..a : opened[i] = HistoryAccount(i - 1)
    BY DEF a
  <2>3. \A i \in 1..l : moved[i] = HistoryFlow(p, slots[i])
    BY <1>14
  <2> HIDE DEF opened, moved
  <2>4. [i \in 1..a |-> opened[i]] \o [i \in 1..l |-> moved[i]]
          = [i \in 1 .. a + l |-> IF i <= a THEN opened[i] ELSE moved[i - a]]
    BY <1>14, ConcatPrefixes
  <2>5. \A i \in 1 .. a + l : /\ i <= a => i \in 1..a
                              /\ ~ (i <= a) => i - a \in 1..l
    BY <1>14
  <2>6. [i \in 1 .. a + l |-> IF i <= a THEN opened[i] ELSE moved[i - a]]
          = [i \in 1 .. a + l |->
               IF i <= a THEN HistoryAccount(i - 1) ELSE HistoryFlow(p, slots[i - a])]
    BY <2>2, <2>3, <2>5
  <2>7. records = opened \o moved
    BY DEF records
  <2> QED
    BY <2>1, <2>4, <2>6, <2>7
<1> DEFINE b == Forecasting(p)
<1>16. b.records = records /\ b.truth = << >> /\ b.sum = l
  <2> HIDE DEF l
  <2>1. b = [records |-> records, truth |-> << >>, sum |-> l]
    BY <1>1 DEF Empty, l
  <2> HIDE DEF b
  <2> QED
    BY <2>1
<1> HIDE DEF b
<1>17. Forecast(p, slots, b)
  BY <1>13, <1>15, <1>16 DEF Forecast, n
<1> QED
  BY <1>17 DEF b

(* What a forecast's parameters are: at least two months of history.       *)
ForecastingInputs(p) ==
  /\ p.days \in Nat /\ p.days >= 62
  /\ p.accounts \in Nat \ {0}
  /\ p.recurring_ratio = NaN \/ p.recurring_ratio \in 0..100
  /\ p.noise = NaN \/ p.noise \in Nat
  /\ p.today \in Nat

LEMMA ForecastingInputsOfCall ==
  ASSUME NEW c \in Calls, c.preset = "finhub.forecasting.v1"
  PROVE  ForecastingInputs(Inputs(c))
<1> DEFINE p == Inputs(c)
           schema == Schema[c.preset]
<1>1. c.preset \in DOMAIN Schema
  BY CallsAssumption
<1>2. /\ {"days", "accounts", "recurring_ratio", "noise"} \subseteq DOMAIN schema
      /\ schema["days"].type = "int" /\ schema["days"].min >= 1
      /\ schema["accounts"].type = "int" /\ schema["accounts"].min >= 1
      /\ schema["recurring_ratio"].type = "float" /\ schema["noise"].type = "float"
  BY <1>1, PresetAssumption DEF HasParams
<1>3. schema["days"].min >= 62 /\ schema["recurring_ratio"].max <= 100
  BY <1>1, PresetAssumption
<1>4. Sound(schema["days"]) /\ Sound(schema["recurring_ratio"]) /\ Sound(schema["noise"])
  BY <1>1, <1>2, SchemaAssumption
<1>5. /\ schema["days"].min \in Nat
      /\ schema["recurring_ratio"].max \in Nat /\ schema["noise"].max \in Nat
  BY <1>2, <1>4 DEF Sound
<1>6. p["days"] \in Nat /\ p["days"] >= schema["days"].min
  BY <1>2, InputTypes
<1>7. p["accounts"] \in Nat \ {0}
  BY <1>2, InputTypes
<1>8. p["recurring_ratio"] = NaN \/ p["recurring_ratio"] \in 0 .. schema["recurring_ratio"].max
  BY <1>2, InputTypes
<1>9. p["noise"] = NaN \/ p["noise"] \in 0 .. schema["noise"].max
  BY <1>2, InputTypes
<1>10. p.today \in Nat
  BY InputsOfCall
<1> HIDE DEF p, schema
<1>11. p["days"] >= 62
  BY <1>3, <1>5, <1>6
<1>12. p["recurring_ratio"] = NaN \/ p["recurring_ratio"] \in 0..100
  BY <1>3, <1>5, <1>8
<1>13. p["noise"] = NaN \/ p["noise"] \in Nat
  BY <1>5, <1>9
<1> QED
  BY <1>6, <1>7, <1>10, <1>11, <1>12, <1>13 DEF ForecastingInputs, p

LEMMA ForecastingReturned ==
  ASSUME Consistent, Returned("finhub.forecasting.v1")
  PROVE  ForecastingInputs(input) /\ \E slots : Forecast(input, slots, batch)
<1>1. /\ call \in Calls /\ input = Inputs(call) /\ input.preset = call.preset
      /\ input.preset = "finhub.forecasting.v1" /\ batch = Generated(input)
  BY InputsOfCall DEF Consistent, Returned
<1>2. batch = Forecasting(input)
  BY <1>1 DEF Generated
<1>3. ForecastingInputs(input)
  BY <1>1, ForecastingInputsOfCall
<1>4. input.days \in Nat \ {0} /\ input.accounts \in Nat \ {0}
  BY <1>3 DEF ForecastingInputs
<1> QED
  BY <1>2, <1>3, <1>4, ForecastingBatch

(* A day of the year is in one month, and counted from where that begins;  *)
(* every month has at least 28 days.                                       *)
LEMMA MonthLengths ==
  /\ \A m \in 1..12 : /\ MonthEnds[m] \in Int /\ MonthEnds[m + 1] \in Int
                       /\ 0 <= MonthEnds[m] /\ MonthEnds[m] <= 334
                       /\ MonthEnds[m] + 28 <= MonthEnds[m + 1]
                       /\ MonthEnds[m + 1] <= MonthEnds[m] + 31
  /\ \A m, n \in 1..12 : m < n => MonthEnds[m + 1] <= MonthEnds[n]
  /\ MonthEnds[1] = 0 /\ MonthEnds[12] = 334 /\ MonthEnds[13] = 365
BY DEF MonthEnds

LEMMA InMonth ==
  ASSUME NEW day \in 0..364
  PROVE  \E m \in 1..12 : MonthEnds[m] <= day /\ day < MonthEnds[m + 1]
BY DEF MonthEnds

LEMMA DayInMonth ==
  ASSUME NEW date \in Int, NEW m \in 1..12,
         MonthEnds[m] <= date % 365, date % 365 < MonthEnds[m + 1]
  PROVE  DayOfMonth(date) = (date % 365) + 1 - MonthEnds[m]
<1> DEFINE day == date % 365
           begun == {MonthEnds[i] : i \in {n \in 1..12 : MonthEnds[n] <= day}}
<1>0. day \in Int /\ MonthEnds[m] \in begun /\ MonthEnds[m] \in Int
  BY MonthLengths
<1>1. \A x \in begun : x <= MonthEnds[m] /\ x \in Int
  <2> SUFFICES ASSUME NEW n \in 1..12, MonthEnds[n] <= day
               PROVE  MonthEnds[n] <= MonthEnds[m] /\ MonthEnds[n] \in Int
    OBVIOUS
  <2>1. MonthEnds[n] \in Int /\ MonthEnds[m + 1] \in Int
    BY MonthLengths
  <2>2. ~(m < n)
    BY <1>0, <2>1, MonthLengths
  <2>3. n < m => MonthEnds[n] <= MonthEnds[n + 1] /\ MonthEnds[n + 1] <= MonthEnds[m]
    BY MonthLengths
  <2> QED
    BY <1>0, <2>1, <2>2, <2>3, MonthLengths
<1> HIDE DEF begun
<1>2. Max(begun) = MonthEnds[m]
  <2>1. \A x \in begun : (\A y \in begun : x >= y) => x = MonthEnds[m]
    BY <1>0, <1>1
  <2>2. \A y \in begun : MonthEnds[m] >= y
    BY <1>0, <1>1
  <2> QED
    BY <1>0, <2>1, <2>2 DEF Max
<1> QED
  BY <1>2 DEF DayOfMonth, begun

(* The days of the year that are the dom-th of a month.                    *)
OfMonth(date, dom) == \E m \in 1..12 : date % 365 = MonthEnds[m] + dom - 1

LEMMA DayOfTheMonth ==
  ASSUME NEW date \in Int, NEW dom \in 1..28
  PROVE  (DayOfMonth(date) = dom) <=> OfMonth(date, dom)
<1>0. date % 365 \in 0..364
  OBVIOUS
<1>1. ASSUME DayOfMonth(date) = dom
      PROVE  \E m \in 1..12 : date % 365 = MonthEnds[m] + dom - 1
  <2>1. PICK m \in 1..12 : MonthEnds[m] <= date % 365 /\ date % 365 < MonthEnds[m + 1]
    BY <1>0, InMonth
  <2>2. DayOfMonth(date) = (date % 365) + 1 - MonthEnds[m]
    BY <2>1, DayInMonth
  <2> QED
    BY <1>0, <1>1, <2>2, MonthLengths
<1>2. ASSUME NEW m \in 1..12, date % 365 = MonthEnds[m] + dom - 1
      PROVE  DayOfMonth(date) = dom
  <2>1. MonthEnds[m] <= date % 365 /\ date % 365 < MonthEnds[m + 1]
    BY <1>0, <1>2, MonthLengths
  <2>2. DayOfMonth(date) = (date % 365) + 1 - MonthEnds[m]
    BY <2>1, DayInMonth
  <2> QED
    BY <1>0, <1>2, <2>2, MonthLengths
<1> QED
  BY <1>1, <1>2 DEF OfMonth

LEMMA DaysEarlier ==
  ASSUME NEW date \in Int, NEW x \in 0..364, NEW day, day = date % 365
  PROVE  (date - x) % 365 = IF x <= day THEN day - x ELSE day - x + 365
OBVIOUS

LEMMA PrecedingMonth ==
  ASSUME NEW m \in 1..12
  PROVE  \E last \in 1..12, gap \in 28..31 :
           /\ m = 1 => last = 12 /\ gap = 31
           /\ m # 1 => m = last + 1 /\ MonthEnds[m] = MonthEnds[last] + gap
BY DEF MonthEnds

(* Before the dom-th of a month comes that of the month before, 28 to 31   *)
(* days earlier, and none in between.                                      *)
Preceded(date, dom, gap) ==
  /\ DayOfMonth(date - gap) = dom
  /\ \A x \in 1 .. gap - 1 : DayOfMonth(date - x) # dom

LEMMA MonthBefore ==
  ASSUME NEW date \in Int, NEW dom \in 1..28, DayOfMonth(date) = dom
  PROVE  \E gap \in 28..31 : Preceded(date, dom, gap)
<1> DEFINE day == date % 365
<1>0. day \in 0..364
  OBVIOUS
<1>1. PICK m \in 1..12 : day = MonthEnds[m] + dom - 1
  BY DayOfTheMonth DEF OfMonth
<1>2. PICK last \in 1..12, gap \in 28..31 :
           /\ m = 1 => last = 12 /\ gap = 31
           /\ m # 1 => m = last + 1 /\ MonthEnds[m] = MonthEnds[last] + gap
  BY PrecedingMonth
<1>3. \A x \in 0..364 : (date - x) % 365 = IF x <= day THEN day - x ELSE day - x + 365
  OBVIOUS
<1> HIDE DEF day
<1>4. DayOfMonth(date - gap) = dom
  <2> DEFINE date2 == date - gap
  <2>0. gap \in 0..364
    OBVIOUS
  <2>1. date2 % 365 = IF gap <= day THEN day - gap ELSE day - gap + 365
    BY <1>3, <2>0, Zenon
  <2>2. date2 \in Int
    OBVIOUS
  <2> HIDE DEF date2
  <2>3. MonthEnds[m] \in Int /\ MonthEnds[last] \in Int /\ 0 <= MonthEnds[last]
    BY MonthLengths
  <2>4. m = 1 => MonthEnds[m] = 0 /\ MonthEnds[last] = 334
    BY <1>2, MonthLengths
  <2>5. date2 % 365 = MonthEnds[last] + dom - 1
    BY <1>0, <1>1, <1>2, <2>1, <2>3, <2>4
  <2>6. OfMonth(date2, dom)
    BY <2>5 DEF OfMonth
  <2>7. DayOfMonth(date2) = dom
    BY <2>2, <2>6, DayOfTheMonth
  <2> QED
    BY <2>7 DEF date2
<1>5. ASSUME NEW x \in 1 .. gap - 1, DayOfMonth(date - x) = dom
      PROVE  FALSE
  <2> DEFINE date2 == date - x
  <2>0. x \in 0..364
    OBVIOUS
  <2>1. date2 % 365 = IF x <= day THEN day - x ELSE day - x + 365
    BY <1>3, <2>0, Zenon
  <2>2. date2 \in Int /\ DayOfMonth(date2) = dom
    BY <1>5
  <2> HIDE DEF date2
  <2>3. OfMonth(date2, dom)
    BY <2>2, DayOfTheMonth
  <2>4. PICK n \in 1..12 : date2 % 365 = MonthEnds[n] + dom - 1
    BY <2>3 DEF OfMonth
  <2>5. /\ MonthEnds[m] \in Int /\ MonthEnds[last] \in Int
        /\ MonthEnds[n] \in Int /\ MonthEnds[n + 1] \in Int
        /\ 0 <= MonthEnds[n] /\ MonthEnds[n] <= 334 /\ 0 <= MonthEnds[last]
        /\ MonthEnds[n] + 28 <= MonthEnds[n + 1]
    BY MonthLengths
  <2>6. CASE m = 1
    <3>1. MonthEnds[m] = 0 /\ gap = 31 /\ MonthEnds[12] = 334
      BY <1>2, <2>6, MonthLengths
    <3>2. n # 12 => MonthEnds[n + 1] <= MonthEnds[12]
      BY MonthLengths
    <3> QED
      BY <1>0, <1>1, <2>1, <2>4, <2>5, <2>6, <3>1, <3>2
  <2>7. CASE m # 1
    <3>1. m = last + 1 /\ MonthEnds[m] = MonthEnds[last] + gap
      BY <1>2, <2>7
    <3>2. n < last => MonthEnds[n + 1] <= MonthEnds[last]
      BY MonthLengths
    <3>3. m < n => MonthEnds[m] < MonthEnds[n]
      BY MonthLengths
    <3>4. n < last \/ n = last \/ n = m \/ m < n
      BY <3>1
    <3>5. n = last \/ n = m \/ MonthEnds[n] + 28 <= MonthEnds[last] \/ MonthEnds[m] < MonthEnds[n]
      BY <2>5, <3>2, <3>3, <3>4
    <3> QED
      BY <1>0, <1>1, <2>1, <2>4, <2>5, <3>1, <3>5
  <2> QED
    BY <2>6, <2>7
<1> QED
  BY <1>4, <1>5 DEF Preceded

(* Thirty-one days in a row have the dom-th of a month among them.         *)
LEMMA MonthHasDay ==
  ASSUME NEW date \in Int, NEW dom \in 1..28
  PROVE  \E x \in 0..30 : DayOfMonth(date - x) = dom
<1> DEFINE day == date % 365
<1>0. day \in 0..364
  OBVIOUS
<1>1. PICK m \in 1..12 : MonthEnds[m] <= day /\ day < MonthEnds[m + 1]
  BY <1>0, InMonth
<1>2. PICK last \in 1..12, gap \in 28..31 :
           /\ m = 1 => last = 12 /\ gap = 31
           /\ m # 1 => m = last + 1 /\ MonthEnds[m] = MonthEnds[last] + gap
  BY PrecedingMonth
<1>3. \A x \in 0..364 : (date - x) % 365 = IF x <= day THEN day - x ELSE day - x + 365
  OBVIOUS
<1> HIDE DEF day
<1>4. /\ MonthEnds[m] \in Int /\ MonthEnds[last] \in Int /\ 0 <= MonthEnds[last]
      /\ 0 <= MonthEnds[m] /\ MonthEnds[m + 1] \in Int
      /\ MonthEnds[m + 1] <= MonthEnds[m] + 31
  BY MonthLengths
<1>5. m = 1 => MonthEnds[m] = 0 /\ MonthEnds[last] = 334
  BY <1>2, MonthLengths
<1>6. \E x \in 0..30, n \in 1..12 : (date - x) % 365 = MonthEnds[n] + dom - 1
  <2>1. CASE MonthEnds[m] + dom - 1 <= day
    <3> DEFINE x == day - (MonthEnds[m] + dom - 1)
    <3>1. x \in 0..30 /\ x <= day
      BY <1>0, <1>1, <1>4, <2>1
    <3>2. (date - x) % 365 = day - x
      BY <1>3, <3>1
    <3>3. day - x = MonthEnds[m] + dom - 1
      BY <1>0, <1>4
    <3> HIDE DEF x
    <3> QED
      BY <3>1, <3>2, <3>3
  <2>2. CASE MonthEnds[m] + dom - 1 > day /\ m = 1
    <3> DEFINE x == day + 31 - (dom - 1)
    <3>1. x \in 0..30 /\ ~(x <= day)
      BY <1>0, <1>5, <2>2
    <3>2. (date - x) % 365 = day - x + 365
      BY <1>3, <3>1
    <3> QED
      BY <1>0, <1>2, <1>5, <2>2, <3>1, <3>2
  <2>3. CASE MonthEnds[m] + dom - 1 > day /\ m # 1
    <3> DEFINE x == day - (MonthEnds[last] + dom - 1)
    <3>1. x \in 0..30 /\ x <= day
      BY <1>0, <1>1, <1>2, <1>4, <2>3
    <3>2. (date - x) % 365 = day - x
      BY <1>3, <3>1
    <3>3. day - x = MonthEnds[last] + dom - 1
      BY <1>0, <1>4
    <3> HIDE DEF x
    <3> QED
      BY <3>1, <3>2, <3>3
  <2> QED
    BY <1>0, <1>4, <2>1, <2>2, <2>3
<1>7. PICK x \in 0..30 : \E n \in 1..12 : (date - x) % 365 = MonthEnds[n] + dom - 1
  BY <1>6
<1> DEFINE date2 == date - x
<1>8. OfMonth(date2, dom) /\ date2 \in Int
  BY <1>7 DEF OfMonth
<1> HIDE DEF date2
<1>9. DayOfMonth(date2) = dom
  BY <1>8, DayOfTheMonth
<1> QED
  BY <1>9 DEF date2

(* A slot is a day of the history and one of the names of that day.        *)
SlotName(slot) ==
  IF slot % 5 = 4 THEN "collection" ELSE Recurring[(slot % 5) + 1].name

LEMMA RecurringNames ==
  /\ DOMAIN Recurring = 1..4 /\ Len(Recurring) = 4
  /\ \A i \in 1..4 : Recurring[i].name # "collection"
  /\ \A i, j \in 1..4 : Recurring[i].name = Recurring[j].name => i = j
  /\ \A i \in 1..4 : Recurring[i].dom \in 1..28
  /\ \A i \in 1..4 : Recurring[i].base \in Int /\ Recurring[i].base <= 55000
BY DEF Recurring

LEMMA CycleRecurring ==
  ASSUME NEW k \in 0..3
  PROVE  Cycle(Recurring, k) = Recurring[k + 1]
<1>1. k % 4 = k
  OBVIOUS
<1> QED
  BY <1>1, RecurringNames DEF Cycle

OfHistory(p, slot, rec) ==
  /\ rec.kind = "cash_flow"
  /\ rec.day = p.days - 1 - slot \div 5
  /\ rec.ref[2] = SlotName(slot)
  /\ rec.ref[3] = DateOf(p, slot)
  /\ slot % 5 = 4 => rec.amount = VariableAmount(p)
  /\ slot % 5 # 4 => rec.amount = RecurringAmount(p, Recurring[(slot % 5) + 1])

LEMMA HistoryFields ==
  ASSUME NEW p, ForecastingInputs(p), NEW slot \in Nat
  PROVE  OfHistory(p, slot, HistoryFlow(p, slot))
<1> DEFINE day == slot \div 5
           k == slot % 5
<1>1. /\ day \in Nat /\ k \in 0..4
      /\ p.today \in Nat /\ p.days \in Nat
  BY DEF ForecastingInputs
<1>2. DateOf(p, slot) = p.today - (p.days - 1) + day
  BY DEF DateOf, HistoryStart
<1>3. p.today - DateOf(p, slot) = p.days - 1 - day
  BY <1>1, <1>2
<1> HIDE DEF day, k
<1>4. CASE k = 4
  BY <1>3, <1>4 DEF OfHistory, HistoryFlow, IsCollection, FlowOn, SlotName, day, k
<1>5. CASE k # 4
  <2>1. k \in 0..3
    BY <1>1, <1>5
  <2>2. Cycle(Recurring, k) = Recurring[k + 1]
    BY <2>1, CycleRecurring
  <2> QED
    BY <1>3, <1>5, <2>2 DEF OfHistory, HistoryFlow, IsCollection, FlowOn, SlotName, day, k
<1> QED
  BY <1>4, <1>5

LEMMA HistoryFlowsDiffer ==
  ASSUME NEW p, ForecastingInputs(p), NEW s \in Nat, NEW t \in Nat,
         HistoryFlow(p, s) = HistoryFlow(p, t)
  PROVE  s = t
<1>1. SlotName(s) = SlotName(t) /\ DateOf(p, s) = DateOf(p, t)
  BY HistoryFields DEF OfHistory
<1>2. /\ p.today \in Nat /\ p.days \in Nat
      /\ DateOf(p, s) = p.today - (p.days - 1) + s \div 5
      /\ DateOf(p, t) = p.today - (p.days - 1) + t \div 5
  BY DEF ForecastingInputs, DateOf, HistoryStart
<1>3. /\ s \div 5 \in Nat /\ t \div 5 \in Nat /\ s % 5 \in 0..4 /\ t % 5 \in 0..4
      /\ s = 5 * (s \div 5) + (s % 5) /\ t = 5 * (t \div 5) + (t % 5)
  OBVIOUS
<1> DEFINE j == s % 5
           k == t % 5
<1>4. j \in 0..4 /\ k \in 0..4
  BY <1>3
<1>5. (IF j = 4 THEN "collection" ELSE Recurring[j + 1].name)
        = (IF k = 4 THEN "collection" ELSE Recurring[k + 1].name)
  BY <1>1 DEF SlotName
<1> HIDE DEF j, k
<1>6. /\ j # 4 => j + 1 \in 1..4 /\ Recurring[j + 1].name # "collection"
      /\ k # 4 => k + 1 \in 1..4 /\ Recurring[k + 1].name # "collection"
  BY <1>4, RecurringNames
<1>7. j = 4 <=> k = 4
  BY <1>5, <1>6
<1>8. j # 4 => j + 1 = k + 1
  BY <1>5, <1>6, <1>7, RecurringNames
<1>9. j = k
  BY <1>4, <1>7, <1>8
<1>10. s \div 5 = t \div 5
  <2> DEFINE u == s \div 5
             v == t \div 5
             h == p.today - (p.days - 1)
  <2>1. u \in Nat /\ v \in Nat /\ h \in Int
    BY <1>2, <1>3
  <2>2. h + u = h + v
    BY <1>1, <1>2
  <2> HIDE DEF u, v, h
  <2>3. u = v
    BY <2>1, <2>2
  <2> QED
    BY <2>3 DEF u, v
<1> QED
  BY <1>3, <1>9, <1>10 DEF j, k

(* When the k-th name of a day comes: by the day of the month, and last,   *)
(* the collection, on business days.                                       *)
LEMMA SlotOccurs ==
  ASSUME NEW p, ForecastingInputs(p), NEW d \in 0 .. p.days - 1, NEW k \in 0..4
  PROVE  /\ 5 * (p.days - 1 - d) + k \in 0 .. 5 * p.days - 1
         /\ k # 4 => (Occurs(p, 5 * (p.days - 1 - d) + k)
                        <=> DayOfMonth(p.today - d) = Recurring[k + 1].dom)
         /\ k = 4 => (Occurs(p, 5 * (p.days - 1 - d) + k)
                        <=> BusinessDay(p.today - d) /\ HasVariable(p))
<1> DEFINE e == p.days - 1 - d
           slot == 5 * e + k
<1>1. p.days \in Nat /\ p.today \in Nat /\ e \in Nat /\ e <= p.days - 1 /\ d \in Int
  BY DEF ForecastingInputs
<1> HIDE DEF e
<1>2. slot \div 5 = e /\ slot % 5 = k /\ slot \in 0 .. 5 * p.days - 1
  BY <1>1
<1> HIDE DEF slot
<1>3. DateOf(p, slot) = p.today - d
  BY <1>1, <1>2 DEF DateOf, HistoryStart, e
<1>4. k # 4 => Cycle(Recurring, k) = Recurring[k + 1]
  BY CycleRecurring
<1>5. k # 4 => (Occurs(p, slot) <=> DayOfMonth(p.today - d) = Recurring[k + 1].dom)
  BY <1>2, <1>3, <1>4 DEF Occurs, IsCollection
<1>6. k = 4 => (Occurs(p, slot) <=> BusinessDay(p.today - d) /\ HasVariable(p))
  BY <1>2, <1>3 DEF Occurs, IsCollection
<1> QED
  BY <1>2, <1>5, <1>6 DEF slot, e

(* Where the flows of a history are, and when they are dated.              *)
LEMMA HistoryPositions ==
  ASSUME Consistent, Returned("finhub.forecasting.v1"),
         NEW slots, Forecast(input, slots, batch)
  PROVE  /\ input.accounts \in Nat /\ Len(slots) \in Nat
         /\ Positions = 1 .. input.accounts + Len(slots)
         /\ Flows = input.accounts + 1 .. input.accounts + Len(slots)
         /\ \A i \in 1 .. Len(slots) :
              /\ slots[i] \in 0 .. 5 * input.days - 1
              /\ Records[input.accounts + i] = HistoryFlow(input, slots[i])
         /\ \A i \in 1 .. input.accounts : Records[i] = HistoryAccount(i - 1)
<1> DEFINE a == input.accounts
           l == Len(slots)
<1>1. ForecastingInputs(input)
  BY ForecastingReturned
<1>2. /\ a \in Nat \ {0} /\ l \in Nat
      /\ Records = [i \in 1 .. a + l |-> IF i <= a THEN HistoryAccount(i - 1)
                                         ELSE HistoryFlow(input, slots[i - a])]
      /\ \A i \in 1..l : slots[i] \in 0 .. 5 * input.days - 1
  BY <1>1 DEF ForecastingInputs, Forecast, HappenIn, Records
<1>3. \A i : HistoryAccount(i).kind = "bank_account"
  BY DEF HistoryAccount, EntityAccount
<1>4. \A slot : HistoryFlow(input, slot).kind = "cash_flow"
  BY DEF HistoryFlow, FlowOn
<1> HIDE DEF a, l
<1>5. /\ Positions = 1 .. a + l
      /\ \A i \in Positions : Records[i] = IF i <= a THEN HistoryAccount(i - 1)
                                           ELSE HistoryFlow(input, slots[i - a])
  BY <1>2 DEF Positions
<1>6. \A i \in Positions : Records[i].kind = IF i <= a THEN "bank_account" ELSE "cash_flow"
  BY <1>3, <1>4, <1>5
<1>7. Flows = a + 1 .. a + l
  BY <1>2, <1>5, <1>6 DEF Flows
<1>8. \A i \in 1..l : Records[a + i] = HistoryFlow(input, slots[i])
  <2> SUFFICES ASSUME NEW i \in 1..l PROVE Records[a + i] = HistoryFlow(input, slots[i])
    OBVIOUS
  <2>1. a + i \in Positions /\ ~(a + i <= a) /\ (a + i) - a = i
    BY <1>2, <1>5
  <2> QED
    BY <1>5, <2>1
<1>9. \A i \in 1..a : Records[i] = HistoryAccount(i - 1)
  BY <1>2, <1>5
<1> QED
  BY <1>2, <1>5, <1>7, <1>8, <1>9 DEF a, l

(* A slot of the history that occurs has its flow, and a flow has its slot. *)
LEMMA FlowsAreSlots ==
  ASSUME Consistent, Returned("finhub.forecasting.v1")
  PROVE  /\ \A i \in Flows : \E slot \in 0 .. 5 * input.days - 1 :
              /\ Occurs(input, slot) /\ Records[i] = HistoryFlow(input, slot)
              /\ OfHistory(input, slot, Records[i])
         /\ \A slot \in 0 .. 5 * input.days - 1 :
              Occurs(input, slot) => \E i \in Flows :
                /\ Records[i] = HistoryFlow(input, slot)
                /\ OfHistory(input, slot, Records[i])
<1>1. ForecastingInputs(input) /\ \E slots : Forecast(input, slots, batch)
  BY ForecastingReturned
<1>2. PICK slots : Forecast(input, slots, batch)
  BY <1>1
<1> DEFINE a == input.accounts
           l == Len(slots)
           S == 0 .. 5 * input.days - 1
<1>3. /\ a \in Nat /\ l \in Nat
      /\ Flows = a + 1 .. a + l
      /\ \A i \in 1..l : slots[i] \in S /\ Records[a + i] = HistoryFlow(input, slots[i])
  BY <1>2, HistoryPositions
<1>4. /\ \A i \in 1..l : Occurs(input, slots[i])
      /\ \A slot \in S : Occurs(input, slot) => \E i \in 1..l : slots[i] = slot
  BY <1>2 DEF Forecast, HappenIn
<1>5. \A slot \in S : OfHistory(input, slot, HistoryFlow(input, slot))
  BY <1>1, HistoryFields
<1> HIDE DEF a, l, S
<1>6. ASSUME NEW i \in Flows
      PROVE  \E slot \in S : /\ Occurs(input, slot) /\ Records[i] = HistoryFlow(input, slot)
                             /\ OfHistory(input, slot, Records[i])
  <2> DEFINE j == i - a
  <2>1. j \in 1..l /\ i = a + j
    BY <1>3
  <2> HIDE DEF j
  <2>2. Records[i] = HistoryFlow(input, slots[j]) /\ slots[j] \in S /\ Occurs(input, slots[j])
    BY <1>3, <1>4, <2>1
  <2>3. OfHistory(input, slots[j], Records[i])
    BY <1>5, <2>2
  <2> QED
    BY <2>2, <2>3
<1>7. ASSUME NEW slot \in S, Occurs(input, slot)
      PROVE  \E i \in Flows : /\ Records[i] = HistoryFlow(input, slot)
                              /\ OfHistory(input, slot, Records[i])
  <2>1. PICK j \in 1..l : slots[j] = slot
    BY <1>4, <1>7
  <2>2. a + j \in Flows
    BY <1>3
  <2>3. Records[a + j] = HistoryFlow(input, slot)
    BY <1>3, <2>1
  <2>4. OfHistory(input, slot, Records[a + j])
    BY <1>5, <2>3
  <2> QED
    BY <2>2, <2>3, <2>4
<1> QED
  BY <1>6, <1>7 DEF S

LEMMA DaysOfSlots ==
  ASSUME Consistent, Returned("finhub.forecasting.v1"), NEW k \in 0..4
  PROVE  DaysOf(SlotName(k)) =
           {d \in 0 .. input.days - 1 : Occurs(input, 5 * (input.days - 1 - d) + k)}
<1> DEFINE n == input.days
           S == 0 .. 5 * n - 1
           name == SlotName(k)
<1>1. ForecastingInputs(input) /\ n \in Nat /\ n >= 62
  BY ForecastingReturned DEF ForecastingInputs
<1>2. \A i \in Flows : \E slot \in S : Occurs(input, slot) /\ OfHistory(input, slot, Records[i])
  BY FlowsAreSlots
<1>3. \A slot \in S : Occurs(input, slot) => \E i \in Flows : OfHistory(input, slot, Records[i])
  BY FlowsAreSlots
<1>4. \A j \in 0..4 : SlotName(j) = name => j = k
  <2> SUFFICES ASSUME NEW j \in 0..4, SlotName(j) = SlotName(k) PROVE j = k
    OBVIOUS
  <2>1. j % 5 = j /\ k % 5 = k
    OBVIOUS
  <2>2. (IF j = 4 THEN "collection" ELSE Recurring[j + 1].name)
          = (IF k = 4 THEN "collection" ELSE Recurring[k + 1].name)
    BY <2>1 DEF SlotName
  <2>3. /\ j # 4 => j + 1 \in 1..4 /\ Recurring[j + 1].name # "collection"
        /\ k # 4 => k + 1 \in 1..4 /\ Recurring[k + 1].name # "collection"
    BY RecurringNames
  <2>4. j = 4 <=> k = 4
    BY <2>2, <2>3
  <2>5. j # 4 => j + 1 = k + 1
    BY <2>2, <2>3, <2>4, RecurringNames
  <2> QED
    BY <2>4, <2>5
<1>5. \A slot \in S : SlotName(slot) = SlotName(slot % 5) /\ slot % 5 \in 0..4
  <2> SUFFICES ASSUME NEW slot \in S
               PROVE  SlotName(slot) = SlotName(slot % 5) /\ slot % 5 \in 0..4
    OBVIOUS
  <2>1. (slot % 5) % 5 = slot % 5 /\ slot % 5 \in 0..4
    BY <1>1
  <2> QED
    BY <2>1 DEF SlotName
<1>6. ASSUME NEW i \in Flows, Records[i].ref[2] = name
      PROVE  /\ Records[i].day \in 0 .. n - 1
             /\ Occurs(input, 5 * (n - 1 - Records[i].day) + k)
  <2>1. PICK slot \in S : Occurs(input, slot) /\ OfHistory(input, slot, Records[i])
    BY <1>2
  <2>2. Records[i].day = n - 1 - slot \div 5 /\ SlotName(slot) = name
    BY <1>6, <2>1 DEF OfHistory
  <2>3. slot % 5 = k
    BY <1>4, <1>5, <2>2
  <2>4. slot \div 5 \in 0 .. n - 1 /\ slot = 5 * (slot \div 5) + k
    BY <1>1, <2>3
  <2> DEFINE e == slot \div 5
             d == Records[i].day
  <2>5. d = n - 1 - e /\ e \in 0 .. n - 1 /\ slot = 5 * e + k
    BY <2>2, <2>4
  <2> HIDE DEF e, d
  <2>6. d \in 0 .. n - 1 /\ n - 1 - d = e
    BY <1>1, <2>5
  <2>7. Occurs(input, 5 * (n - 1 - d) + k)
    BY <2>1, <2>5, <2>6
  <2> QED
    BY <2>6, <2>7 DEF d
<1>7. ASSUME NEW d \in 0 .. n - 1, Occurs(input, 5 * (n - 1 - d) + k)
      PROVE  \E i \in Flows : Records[i].ref[2] = name /\ Records[i].day = d
  <2> DEFINE slot == 5 * (n - 1 - d) + k
  <2>1. slot \in S /\ slot \div 5 = n - 1 - d /\ slot % 5 = k
    BY <1>1
  <2>2. PICK i \in Flows : OfHistory(input, slot, Records[i])
    BY <1>3, <1>7, <2>1
  <2>3. SlotName(slot) = name
    BY <1>5, <2>1
  <2>4. Records[i].day = n - 1 - slot \div 5 /\ Records[i].ref[2] = SlotName(slot)
    BY <2>2 DEF OfHistory
  <2>5. n - 1 - (n - 1 - d) = d
    BY <1>1
  <2> QED
    BY <2>1, <2>3, <2>4, <2>5
<1> HIDE DEF n, name
<1>8. {Records[i].day : i \in {f \in Flows : Records[f].ref[2] = name}}
        = {d \in 0 .. n - 1 : Occurs(input, 5 * (n - 1 - d) + k)}
  BY <1>6, <1>7
<1> QED
  BY <1>8 DEF DaysOf, n, name

(* Two months or more have the dom-th of a month twice, a month apart.     *)
DaysOfTheMonth(today, n, dom) == {d \in 0 .. n - 1 : DayOfMonth(today - d) = dom}

LEMMA TwoInTwoMonths ==
  ASSUME NEW today \in Int, NEW n \in Nat, n >= 62, NEW dom \in 1..28
  PROVE  MonthApart(DaysOfTheMonth(today, n, dom))
<1> DEFINE S == {d \in 0 .. n - 1 : DayOfMonth(today - d) = dom}
<1>1. ASSUME NEW d \in S
      PROVE  \E gap \in 28..31 : /\ DayOfMonth(today - (d + gap)) = dom
                                 /\ \A x \in 1 .. gap - 1 : d + x \notin S
  <2>1. today - d \in Int /\ DayOfMonth(today - d) = dom /\ d \in Int
    OBVIOUS
  <2>2. PICK gap \in 28..31 : Preceded(today - d, dom, gap)
    BY <2>1, MonthBefore
  <2>3. \A x \in Int : today - d - x = today - (d + x)
    BY <2>1
  <2>4. DayOfMonth(today - (d + gap)) = dom
    BY <2>2, <2>3 DEF Preceded
  <2>5. ASSUME NEW x \in 1 .. gap - 1, d + x \in S PROVE FALSE
    <3>1. DayOfMonth(today - (d + x)) = dom
      BY <2>5
    <3>2. today - d - x = today - (d + x)
      BY <2>3
    <3> QED
      BY <2>2, <3>1, <3>2 DEF Preceded
  <2> QED
    BY <2>4, <2>5
<1>2. \A d \in S : d \in 0 .. n - 1
  OBVIOUS
<1>3. \A d \in 0 .. n - 1 : DayOfMonth(today - d) = dom => d \in S
  OBVIOUS
<1>4. S \subseteq 0 .. n - 1
  OBVIOUS
<1>5. \E d \in S : d <= 30
  <2>1. PICK x \in 0..30 : DayOfMonth(today - x) = dom
    BY MonthHasDay
  <2> QED
    BY <2>1
<1> HIDE DEF S
<1>6. ASSUME NEW d \in S
      PROVE  \/ d = Max(S)
             \/ \E gap \in 28..31 : d + gap \in S
  <2>1. PICK gap \in 28..31 : /\ DayOfMonth(today - (d + gap)) = dom
                              /\ \A x \in 1 .. gap - 1 : d + x \notin S
    BY <1>1
  <2>2. CASE d + gap <= n - 1
    <3>1. d + gap \in 0 .. n - 1
      BY <1>2, <2>2
    <3> QED
      BY <1>3, <2>1, <3>1
  <2>3. CASE ~(d + gap <= n - 1)
    <3>1. ASSUME NEW e \in S, ~(d >= e) PROVE FALSE
      <4> DEFINE x == e - d
      <4>1. d \in 0 .. n - 1 /\ e \in 0 .. n - 1
        BY <1>2
      <4>2. x \in 1 .. gap - 1 /\ d + x = e
        BY <2>3, <3>1, <4>1
      <4> HIDE DEF x
      <4> QED
        BY <2>1, <4>2
    <3>2. \A e \in S : d >= e /\ e \in Int
      BY <1>2, <3>1
    <3>3. \A m \in S : (\A e \in S : m >= e) => m = d
      BY <3>2
    <3>4. d = Max(S)
      BY <3>2, <3>3 DEF Max
    <3> QED
      BY <3>4
  <2> QED
    BY <2>2, <2>3
<1>7. Cardinality(S) >= 2
  <2>1. PICK d \in S : d <= 30
    BY <1>5
  <2>2. PICK gap \in 28..31 : DayOfMonth(today - (d + gap)) = dom
    BY <1>1
  <2> DEFINE e == d + gap
  <2>3. e \in S /\ e # d
    BY <1>2, <1>3, <2>1, <2>2
  <2> HIDE DEF e
  <2>4. IsFiniteSet(S)
    <3>1. IsFiniteSet(0 .. n - 1)
      BY FS_Interval
    <3> QED
      BY <1>4, <3>1, FS_Subset
  <2>5. IsFiniteSet({d} \cup {e}) /\ Cardinality({d} \cup {e}) = 2
    <3>1. IsFiniteSet({d}) /\ Cardinality({d}) = 1
      BY FS_Singleton
    <3> QED
      BY <2>3, <3>1, FS_AddElement
  <2>6. Cardinality({d} \cup {e}) <= Cardinality(S)
    BY <2>3, <2>4, FS_Subset
  <2>7. Cardinality(S) \in Nat
    BY <2>4, FS_CardinalityType
  <2> QED
    BY <2>5, <2>6, <2>7
<1>8. MonthApart(S)
  BY <1>6, <1>7 DEF MonthApart
<1> QED
  BY <1>8 DEF S, DaysOfTheMonth

(* No amount is taken for the NaN one but by a NaN.                        *)
LEMMA RecurringAmounts ==
  ASSUME NEW p, ForecastingInputs(p), NEW i \in 1..4
  PROVE  (RecurringAmount(p, Recurring[i]) = NanAmount) <=> (p.recurring_ratio = NaN)
<1>1. CASE p.recurring_ratio = NaN
  BY <1>1 DEF RecurringAmount
<1>2. CASE p.recurring_ratio # NaN
  <2> DEFINE r == p.recurring_ratio
             b == Recurring[i].base
  <2>1. r \in 0..100 /\ RecurringAmount(p, Recurring[i]) = (b * 2 * r) \div 100
    BY <1>2 DEF ForecastingInputs, RecurringAmount
  <2>2. b = 0 - 42000 \/ b = 0 - 8500 \/ b = 0 - 1200 \/ b = 55000
    BY DEF Recurring
  <2> HIDE DEF r, b
  <2>3. b * 2 * r <= 11000000 /\ b * 2 * r \in Int
    BY <2>1, <2>2
  <2> DEFINE x == b * 2 * r
  <2> HIDE DEF x
  <2>4. x \div 100 <= 110000 /\ x \div 100 \in Int
    BY <2>3 DEF x
  <2> QED
    BY <1>2, <2>1, <2>4 DEF NanAmount, x
<1> QED
  BY <1>1, <1>2

LEMMA VariableAmounts ==
  ASSUME NEW p, ForecastingInputs(p), p.recurring_ratio # NaN
  PROVE  (VariableAmount(p) = NanAmount) <=> (p.noise = NaN)
<1>1. p.recurring_ratio \in 0..100
  BY DEF ForecastingInputs
<1> QED
  BY <1>1 DEF VariableAmount, NanAmount

(* The flows Core keeps of a history are all it has: no two are the same.  *)
LEMMA HistoryPoints ==
  ASSUME Consistent, Returned("finhub.forecasting.v1")
  PROVE  Cardinality({rec \in Stored : rec.kind = "cash_flow"}) = batch.sum
<1>1. ForecastingInputs(input) /\ \E slots : Forecast(input, slots, batch)
  BY ForecastingReturned
<1>2. PICK slots : Forecast(input, slots, batch)
  BY <1>1
<1> DEFINE a == input.accounts
           l == Len(slots)
           flow == [i \in 1..l |-> HistoryFlow(input, slots[i])]
<1>3. /\ a \in Nat /\ l \in Nat
      /\ Positions = 1 .. a + l
      /\ Flows = a + 1 .. a + l
      /\ \A i \in 1..l : slots[i] \in Nat /\ Records[a + i] = HistoryFlow(input, slots[i])
  <2>1. input.days \in Nat
    BY <1>1 DEF ForecastingInputs
  <2> QED
    BY <1>2, <2>1, HistoryPositions
<1>4. \A i, j \in 1..l : slots[i] = slots[j] => i = j
  <2>1. \A i, j \in 1..l : i < j => slots[i] < slots[j]
    BY <1>2 DEF Forecast, HappenIn
  <2> QED
    BY <1>3, <2>1
<1>5. batch.sum = l
  BY <1>2 DEF Forecast
<1> HIDE DEF a, l
<1>6. \A i, j \in 1..l : flow[i] = flow[j] => i = j
  <2> SUFFICES ASSUME NEW i \in 1..l, NEW j \in 1..l, flow[i] = flow[j] PROVE i = j
    OBVIOUS
  <2>1. HistoryFlow(input, slots[i]) = HistoryFlow(input, slots[j])
    OBVIOUS
  <2>2. slots[i] = slots[j]
    BY <1>1, <1>3, <2>1, HistoryFlowsDiffer
  <2> QED
    BY <1>4, <2>2
<1>7. \A i \in 1..l : flow[i] = Records[a + i]
  BY <1>3
<1> HIDE DEF flow
<1>8. Cardinality({flow[i] : i \in 1..l}) = l
  <2> DEFINE I == 1..l
  <2>1. IsFiniteSet(I) /\ Cardinality(I) = l
    BY <1>3, IntervalSize
  <2>2. \A i, j \in I : flow[i] = flow[j] => i = j
    BY <1>6
  <2> HIDE DEF I
  <2>3. Cardinality({flow[i] : i \in I}) = Cardinality(I)
    BY <2>1, <2>2, ImageCardinality
  <2> QED
    BY <2>1, <2>3 DEF I
<1>9. {rec \in Stored : rec.kind = "cash_flow"} = {flow[i] : i \in 1..l}
  <2>1. Stored = {Records[i] : i \in Positions}
    BY DEF Stored, Range, Positions
  <2>2. \A i \in Positions : Records[i].kind = "cash_flow" <=> i \in a + 1 .. a + l
    BY <1>3 DEF Flows
  <2>3. ASSUME NEW i \in a + 1 .. a + l PROVE Records[i] \in {flow[j] : j \in 1..l}
    <3> DEFINE j == i - a
    <3>1. j \in 1..l /\ a + j = i
      BY <1>3
    <3> HIDE DEF j
    <3> QED
      BY <1>7, <3>1
  <2>4. ASSUME NEW j \in 1..l
        PROVE  a + j \in Positions /\ a + j \in a + 1 .. a + l
    BY <1>3
  <2>5. \A rec \in Stored : rec.kind = "cash_flow" => rec \in {flow[j] : j \in 1..l}
    BY <2>1, <2>2, <2>3
  <2>6. \A j \in 1..l : flow[j] \in Stored /\ flow[j].kind = "cash_flow"
    <3> SUFFICES ASSUME NEW j \in 1..l PROVE flow[j] \in Stored /\ flow[j].kind = "cash_flow"
      OBVIOUS
    <3>1. flow[j] = Records[a + j]
      BY <1>7
    <3> QED
      BY <2>1, <2>2, <2>4, <3>1
  <2> QED
    BY <2>5, <2>6
<1> QED
  BY <1>5, <1>8, <1>9

(* A forecasting history can be learned from: as many points as announced, *)
(* inside the window, every recurring series at least twice and a month    *)
(* apart, a collection on every business day or on none, and NaN amounts   *)
(* exactly when a parameter they are made of is a NaN.                     *)
THEOREM RunHistoryIsLearnable == Spec => []HistoryIsLearnable
<1>1. ASSUME Consistent, Returned("finhub.forecasting.v1")
      PROVE  /\ Cardinality({rec \in Stored : rec.kind = "cash_flow"}) = batch.sum
             /\ \A i \in Flows : Records[i].day \in 0 .. input.days - 1
             /\ \A i \in DOMAIN Recurring : MonthApart(DaysOf(Recurring[i].name))
             /\ DaysOf("collection") =
                  {d \in 0 .. input.days - 1 :
                     input.recurring_ratio \in 0..99 /\ (input.today - d) % 7 < 5}
             /\ (\E i \in Flows : Records[i].amount = NanAmount) =
                  (\/ input.recurring_ratio = NaN
                   \/ input.noise = NaN /\ input.recurring_ratio < 100)
  <2> DEFINE n == input.days
             today == input.today
             ratio == input.recurring_ratio
             S == 0 .. 5 * n - 1
             daysOf(k) == {d \in 0 .. n - 1 : Occurs(input, 5 * (n - 1 - d) + k)}
  <2>1. /\ ForecastingInputs(input) /\ n \in Nat /\ n >= 62 /\ today \in Nat
        /\ ratio = NaN \/ ratio \in 0..100
    BY <1>1, ForecastingReturned DEF ForecastingInputs
  <2>2. /\ \A i \in Flows : \E slot \in S : /\ Occurs(input, slot)
                                           /\ OfHistory(input, slot, Records[i])
        /\ \A slot \in S : Occurs(input, slot) =>
                             \E i \in Flows : OfHistory(input, slot, Records[i])
    BY <1>1, FlowsAreSlots
  <2>3. \A k \in 0..4 : DaysOf(SlotName(k)) = daysOf(k)
    BY <1>1, DaysOfSlots
  <2>4. HasVariable(input) <=> ratio \in 0..99
    BY <2>1 DEF HasVariable, NaN
  <2>5. \A i \in Flows : Records[i].day \in 0 .. n - 1
    <3> SUFFICES ASSUME NEW i \in Flows PROVE Records[i].day \in 0 .. n - 1
      OBVIOUS
    <3>1. PICK slot \in S : OfHistory(input, slot, Records[i])
      BY <2>2
    <3>2. Records[i].day = n - 1 - slot \div 5 /\ slot \div 5 \in 0 .. n - 1
      BY <2>1, <3>1 DEF OfHistory
    <3> QED
      BY <2>1, <3>2
  <2>6. ASSUME NEW i \in 1..4
        PROVE  /\ DaysOf(Recurring[i].name) = daysOf(i - 1)
               /\ MonthApart(DaysOf(Recurring[i].name))
    <3> DEFINE k == i - 1
               dom == Recurring[i].dom
    <3>1. k \in 0..3 /\ k # 4 /\ k % 5 = k /\ k + 1 = i /\ dom \in 1..28
      BY RecurringNames
    <3> HIDE DEF k
    <3>2. SlotName(k) = Recurring[i].name
      BY <3>1 DEF SlotName
    <3>3. \A d \in 0 .. n - 1 : Occurs(input, 5 * (n - 1 - d) + k)
                                  <=> DayOfMonth(today - d) = dom
      <4> SUFFICES ASSUME NEW d \in 0 .. n - 1
                   PROVE  Occurs(input, 5 * (n - 1 - d) + k)
                            <=> DayOfMonth(today - d) = dom
        OBVIOUS
      <4>1. k \in 0..4
        BY <3>1
      <4> QED
        BY <2>1, <3>1, <4>1, SlotOccurs
    <3>4. DaysOf(Recurring[i].name) = DaysOfTheMonth(today, n, dom)
      BY <2>3, <3>1, <3>2, <3>3 DEF DaysOfTheMonth
    <3>5. MonthApart(DaysOfTheMonth(today, n, dom))
      <4> HIDE DEF n, dom, today
      <4>1. today \in Int
        BY <2>1
      <4> QED
        BY <2>1, <3>1, <4>1, TwoInTwoMonths
    <3>6. DaysOf(Recurring[i].name) = daysOf(k)
      BY <2>3, <3>1, <3>2
    <3> QED
      BY <3>4, <3>5, <3>6 DEF k
  <2>7. \A d \in 0 .. n - 1 : Occurs(input, 5 * (n - 1 - d) + 4)
                                <=> ratio \in 0..99 /\ (today - d) % 7 < 5
    <3> SUFFICES ASSUME NEW d \in 0 .. n - 1
                 PROVE  Occurs(input, 5 * (n - 1 - d) + 4)
                          <=> ratio \in 0..99 /\ (today - d) % 7 < 5
      OBVIOUS
    <3> QED
      BY <2>1, <2>4, SlotOccurs DEF BusinessDay
  <2>8. DaysOf("collection") = {d \in 0 .. n - 1 : ratio \in 0..99 /\ (today - d) % 7 < 5}
    <3>1. SlotName(4) = "collection"
      BY DEF SlotName
    <3>2. DaysOf("collection") = daysOf(4)
      BY <2>3, <3>1
    <3> QED
      BY <2>7, <3>2
  <2>9. ASSUME NEW i \in Flows, Records[i].amount = NanAmount
        PROVE  ratio = NaN \/ (input.noise = NaN /\ ratio < 100)
    <3>1. PICK slot \in S : Occurs(input, slot) /\ OfHistory(input, slot, Records[i])
      BY <2>2
    <3> DEFINE k == slot % 5
    <3>2. k \in 0..4 /\ slot \in Nat
      BY <2>1
    <3>3. CASE k = 4
      <4>1. HasVariable(input) /\ VariableAmount(input) = NanAmount
        BY <2>9, <3>1, <3>3 DEF Occurs, IsCollection, OfHistory
      <4> QED
        BY <2>1, <4>1, VariableAmounts DEF HasVariable
    <3>4. CASE k # 4
      <4> HIDE DEF k
      <4>1. k + 1 \in 1..4
        BY <3>2, <3>4
      <4>2. RecurringAmount(input, Recurring[k + 1]) = NanAmount
        BY <2>9, <3>1, <3>4 DEF OfHistory, k
      <4> QED
        BY <2>1, <4>1, <4>2, RecurringAmounts
    <3> QED
      BY <3>3, <3>4
  <2>10. ASSUME ratio = NaN
         PROVE  \E i \in Flows : Records[i].amount = NanAmount
    <3>1. DaysOf(Recurring[1].name) = daysOf(0) /\ MonthApart(DaysOf(Recurring[1].name))
      BY <2>6
    <3>2. DaysOf(Recurring[1].name) # {}
      <4>1. Cardinality({}) = 0 /\ ~(0 >= 2)
        BY FS_EmptySet
      <4> QED
        BY <3>1, <4>1 DEF MonthApart
    <3>3. PICK d \in 0 .. n - 1 : Occurs(input, 5 * (n - 1 - d) + 0)
      BY <3>1, <3>2
    <3> DEFINE slot == 5 * (n - 1 - d) + 0
    <3>4. slot \in S /\ slot % 5 = 0
      BY <2>1
    <3>5. Occurs(input, slot)
      BY <3>3
    <3> HIDE DEF slot
    <3>6. PICK i \in Flows : OfHistory(input, slot, Records[i])
      BY <2>2, <3>4, <3>5
    <3>7. Records[i].amount = RecurringAmount(input, Recurring[1])
      BY <3>4, <3>6 DEF OfHistory
    <3> QED
      BY <2>1, <2>10, <3>7, RecurringAmounts
  <2>11. ASSUME ratio # NaN, input.noise = NaN, ratio < 100
         PROVE  \E i \in Flows : Records[i].amount = NanAmount
    <3>1. \E d \in 0..6 : (today - d) % 7 < 5
      BY <2>1
    <3>2. PICK d \in 0..6 : (today - d) % 7 < 5
      BY <3>1
    <3> DEFINE slot == 5 * (n - 1 - d) + 4
    <3>3. d \in 0 .. n - 1 /\ ratio \in 0..99
      BY <2>1, <2>11
    <3>4. slot \in S /\ slot % 5 = 4
      BY <2>1, <3>3
    <3>5. Occurs(input, slot)
      BY <2>7, <3>2, <3>3
    <3> HIDE DEF slot
    <3>6. PICK i \in Flows : OfHistory(input, slot, Records[i])
      BY <2>2, <3>4, <3>5
    <3>7. Records[i].amount = VariableAmount(input)
      BY <3>4, <3>6 DEF OfHistory
    <3> QED
      BY <2>1, <2>11, <3>7, VariableAmounts
  <2>12. Cardinality({rec \in Stored : rec.kind = "cash_flow"}) = batch.sum
    BY <1>1, HistoryPoints
  <2>13. \A i \in DOMAIN Recurring : MonthApart(DaysOf(Recurring[i].name))
    BY <2>6, RecurringNames
  <2>14. (\E i \in Flows : Records[i].amount = NanAmount)
           = (ratio = NaN \/ (input.noise = NaN /\ ratio < 100))
    BY <2>9, <2>10, <2>11
  <2> QED
    BY <2>5, <2>8, <2>12, <2>13, <2>14
<1>2. Consistent => HistoryIsLearnable
  BY <1>1 DEF HistoryIsLearnable
<1> QED
  BY <1>2, AlwaysConsistent, PTL

-----------------------------------------------------------------------------
(* What TypeOK says of a batch that has been generated, preset by preset.  *)
BatchTyped ==
  /\ Records # << >>
  /\ Named \subseteq Positions
  /\ \A i \in Positions :
       Records[i].kind \in {"bank_account", "cash_flow", "financial_transaction"}

LEMMA FirewallTyped ==
  ASSUME Consistent, Returned("connect.firewall.v1")
  PROVE  BatchTyped
<1>1. FirewallInputs(input)
  BY FirewallReturned
<1>2. PICK n \in Nat : batch = [records |-> FirewallRecords(input, n),
                                truth |-> FirewallTruth(input, n), sum |-> 0]
  BY FirewallReturned
<1> DEFINE g == input.base_flows
           R == FirewallRecords(input, n)
           T == FirewallTruth(input, n)
<1>3. g \in Nat /\ Records = R /\ batch.truth = T
  BY <1>1, <1>2 DEF FirewallInputs, Records
<1>4. /\ DOMAIN R = 1 .. 1 + g + n /\ R[1] = Account
      /\ \A i \in 2 .. 1 + g : R[i].kind = "cash_flow"
      /\ \A k \in 1..n : R[1 + g + k] = FirewallBad(input, k - 1)
  BY <1>1, FirewallPositions
<1>5. \A k \in 1..n : T[k].indices = {1 + g + k}
  BY DEF FirewallTruth
<1>6. DOMAIN T = 1..n
  BY DEF FirewallTruth
<1> HIDE DEF R, T
<1>7. R # << >>
  <2>1. 1 \in DOMAIN R
    BY <1>3, <1>4
  <2> QED
    BY <2>1
<1>8. Named \subseteq Positions
  <2>1. Named = UNION {T[k].indices : k \in 1..n}
    BY <1>3, <1>6 DEF Named, Entries, Range
  <2>2. ASSUME NEW k \in 1..n PROVE 1 + g + k \in 1 .. 1 + g + n
    <3> HIDE DEF g
    <3> QED
      BY <1>3
  <2>3. Positions = 1 .. 1 + g + n
    BY <1>3, <1>4 DEF Positions
  <2> QED
    BY <1>5, <2>1, <2>2, <2>3
<1>9. ASSUME NEW i \in Positions
      PROVE  Records[i].kind \in {"bank_account", "cash_flow", "financial_transaction"}
  <2>1. i \in 1 .. 1 + g + n
    BY <1>3, <1>4 DEF Positions
  <2>2. CASE i = 1
    BY <1>3, <1>4, <2>2 DEF Account
  <2>3. CASE i \in 2 .. 1 + g
    BY <1>3, <1>4, <2>3
  <2>4. CASE i > 1 + g
    <3> DEFINE k == i - g - 1
    <3>1. k \in 1..n /\ 1 + g + k = i /\ k - 1 \in Nat
      <4> HIDE DEF g
      <4> QED
        BY <1>3, <2>1, <2>4
    <3>2. Records[i] = FirewallBad(input, k - 1)
      BY <1>3, <1>4, <3>1
    <3> HIDE DEF k
    <3> DEFINE bad == FirewallBad(input, k - 1)
    <3>3. bad.kind = "cash_flow"
      <4>1. bad.kind = "cash_flow" \/ \E j \in 1 .. input.base_flows : bad = FirewallGood(input)[j]
        BY <1>1, <3>1, FirewallBadIs
      <4>2. \A j \in 1 .. input.base_flows : FirewallGood(input)[j].kind = "cash_flow"
        BY <1>1, FirewallGoodIs
      <4> HIDE DEF bad
      <4> QED
        BY <4>1, <4>2
    <3> QED
      BY <3>2, <3>3
  <2> QED
    <3> HIDE DEF g
    <3> QED
      BY <1>3, <2>1, <2>2, <2>3, <2>4
<1> QED
  BY <1>3, <1>7, <1>8, <1>9 DEF BatchTyped

LEMMA BreakerTyped ==
  ASSUME Consistent, Returned("finhub.circuit_breaker.v1")
  PROVE  BatchTyped
<1> DEFINE n == Transfers(input)
           m == 1 + BaselineFlows
<1>1. n \in Nat \ {0} /\ m \in Nat /\ BaselineFlows \in Nat /\ m >= 1
  BY BreakerSizes
<1>2. /\ Records = BreakerRecords(input) /\ Positions = 1 .. m + n
      /\ BreakerInputs(input) /\ batch.truth = BreakerTruth(input)
  BY BreakerReturned DEF Records, Positions, BreakerRecords
<1>3. Named \subseteq Positions
  <2>1. DOMAIN batch.truth = 1..n /\ \A j \in 1..n : batch.truth[j].indices = {m + j}
    BY <1>2 DEF BreakerTruth
  <2>2. Named = UNION {batch.truth[j].indices : j \in 1..n}
    BY <2>1 DEF Named, Entries, Range
  <2>3. \A j \in 1..n : m + j \in 1 .. m + n
    <3> HIDE DEF n, m
    <3> QED
      BY <1>1
  <2> QED
    BY <1>2, <2>1, <2>2, <2>3
<1>4. Records[1].kind = "bank_account"
  BY <1>1, <1>2 DEF BreakerRecords, Account
<1>5. \A i \in 2 .. m + n : Records[i].kind = "cash_flow"
  BY <1>2, BreakerParties
<1> HIDE DEF n, m
<1>6. \A i \in Positions : i = 1 \/ i \in 2 .. m + n
  BY <1>1, <1>2
<1>7. Records # << >>
  <2>1. 1 \in DOMAIN Records
    BY <1>1, <1>2 DEF Positions
  <2> QED
    BY <2>1
<1> QED
  BY <1>3, <1>4, <1>5, <1>6, <1>7 DEF BatchTyped

LEMMA ReconciliationTyped ==
  ASSUME Consistent, Returned("finhub.reconciliation.v1")
  PROVE  BatchTyped
<1>1. ReconInputs(input) /\ Reconciled(input, input.pairs, batch)
  BY ReconciliationReturned
<1>2. /\ Records \in Seq(ReconRecords(input)) /\ batch.truth \in Seq(ReconMarks)
      /\ Account \in Range(Records)
      /\ \A j \in 1..Len(batch.truth) : batch.truth[j].indices \subseteq 1..Len(Records)
  BY <1>1, BatchFields DEF Reconciled, Records
<1>3. Positions = 1..Len(Records) /\ DOMAIN batch.truth = 1..Len(batch.truth)
  BY <1>2 DEF Positions
<1>4. Named \subseteq Positions
  BY <1>2, <1>3 DEF Named, Entries, Range
<1>5. \A i \in Positions :
        Records[i].kind \in {"bank_account", "cash_flow", "financial_transaction"}
  <2>1. \A i \in Positions : Records[i] \in ReconRecords(input)
    BY <1>2, <1>3
  <2> QED
    BY <1>1, <2>1, ReconKinds
<1>6. Records # << >>
  BY <1>2 DEF Range
<1> QED
  BY <1>4, <1>5, <1>6 DEF BatchTyped

LEMMA AnomalyTyped ==
  ASSUME Consistent, Returned("finhub.anomaly.v1")
  PROVE  BatchTyped
<1> DEFINE g == input.base_flows
           n == Len(Records)
           count == input.anomaly_count
<1>1. AnomalyInputs(input) /\ Anomalous(input, count, batch)
  BY AnomalyReturned
<1>2. /\ Records \in Seq(AnomalyRecords(input)) /\ batch.truth \in Seq(AnomalyMarks(input))
      /\ Positions = 1..n /\ n \in Nat /\ n >= 1 + g /\ g \in Nat /\ count \in Nat
      /\ Len(batch.truth) = count
  BY <1>1, BatchFields DEF Anomalous, AnomalyInputs, Records, Positions
<1>3. \A t \in 1..count : batch.truth[t].indices \subseteq 2 + g .. n
  BY <1>1 DEF Anomalous, Records
<1>4. Named \subseteq Positions
  <2>1. Named = UNION {batch.truth[t].indices : t \in 1..count}
    BY <1>2 DEF Named, Entries, Range
  <2>2. 2 + g .. n \subseteq 1..n
    <3> HIDE DEF g, n
    <3> QED
      BY <1>2
  <2> QED
    BY <1>2, <1>3, <2>1, <2>2
<1>5. \A i \in Positions :
        Records[i].kind \in {"bank_account", "cash_flow", "financial_transaction"}
  <2>1. \A i \in Positions : Records[i] \in AnomalyRecords(input)
    BY <1>2
  <2> QED
    BY <1>1, <2>1, OrdinaryAmounts
<1>6. Records # << >>
  BY <1>2
<1> QED
  BY <1>4, <1>5, <1>6 DEF BatchTyped

(* A batch without marks names no position.                                *)
LEMMA NoMarks ==
  ASSUME batch.truth \in Seq({})
  PROVE  Named = {}
BY DEF Named, Entries, Range

LEMMA IngestionTyped ==
  ASSUME Consistent, Returned("connect.ingestion.v1")
  PROVE  BatchTyped
<1>1. IngestionInputs(input) /\ Ingested(input, batch)
  BY IngestionReturned
<1>2. /\ Records \in Seq(IngestionRecords(input)) /\ batch.truth \in Seq({})
      /\ input.accounts \in Nat \ {0} /\ input.accounts <= Len(Records)
  BY <1>1, BatchFields DEF Ingested, IngestionInputs, Records
<1>3. \A rec \in IngestionRecords(input) : rec.kind \in {"bank_account", "cash_flow"}
  BY IngestedKinds
<1>4. \A i \in Positions : Records[i] \in IngestionRecords(input)
  BY <1>2 DEF Positions
<1>5. Records # << >>
  BY <1>2
<1> QED
  BY <1>2, <1>3, <1>4, <1>5, NoMarks DEF BatchTyped

LEMMA ConsolidationTyped ==
  ASSUME Consistent, Returned("finhub.consolidation.v1")
  PROVE  BatchTyped
<1> DEFINE n == ExpectedAccounts(input)
<1>1. ConsolidationInputs(input) /\ ConsolidatedBatch(input, batch)
  BY ConsolidationReturned
<1>2. n \in Nat \ {0} /\ n \in 0..n
  BY <1>1, ConsolidationSizes
<1>3. /\ Records \in Seq(ConsolidationRecords(input)) /\ batch.truth \in Seq({})
      /\ Range(Records) = ConsolidatedAccounts(input, n) \cup ConsolidatedFlows(input, n)
  BY <1>1, BatchFields DEF ConsolidatedBatch, Records
<1>4. \A rec \in ConsolidationRecords(input) : rec.kind \in {"bank_account", "cash_flow"}
  <2>1. \A k \in 0 .. n - 1 : k \in Nat
    BY <1>2
  <2>2. \A rec \in ConsolidatedAccounts(input, n) : rec.kind = "bank_account"
    BY <1>1, <2>1, ConsolidatedFields DEF ConsolidatedAccounts
  <2>3. \A rec \in ConsolidatedFlows(input, n) : rec.kind = "cash_flow"
    BY <1>1, <2>1, ConsolidatedFields DEF ConsolidatedFlows
  <2> QED
    BY <2>2, <2>3 DEF ConsolidationRecords
<1>5. \A i \in Positions : Records[i] \in ConsolidationRecords(input)
  BY <1>3 DEF Positions
<1>6. Records # << >>
  <2>1. 0 \in 0 .. n - 1
    BY <1>2
  <2>2. ConsolidatedAccount(input, 0) \in Range(Records)
    BY <1>3, <2>1 DEF ConsolidatedAccounts
  <2> QED
    BY <2>2 DEF Range
<1> QED
  BY <1>3, <1>4, <1>5, <1>6, NoMarks DEF BatchTyped

LEMMA ForecastingTyped ==
  ASSUME Consistent, Returned("finhub.forecasting.v1")
  PROVE  BatchTyped
<1>1. ForecastingInputs(input) /\ \E slots : Forecast(input, slots, batch)
  BY ForecastingReturned
<1>2. PICK slots : Forecast(input, slots, batch)
  BY <1>1
<1> DEFINE a == input.accounts
           l == Len(slots)
<1>3. /\ a \in Nat \ {0} /\ l \in Nat
      /\ Records = [i \in 1 .. a + l |-> IF i <= a THEN HistoryAccount(i - 1)
                                         ELSE HistoryFlow(input, slots[i - a])]
      /\ batch.truth = << >>
  BY <1>1, <1>2 DEF ForecastingInputs, Forecast, HappenIn, Records
<1>4. \A i : HistoryAccount(i).kind = "bank_account"
  BY DEF HistoryAccount, EntityAccount
<1>5. \A slot : HistoryFlow(input, slot).kind = "cash_flow"
  BY DEF HistoryFlow, FlowOn
<1> HIDE DEF a, l
<1>6. /\ Positions = 1 .. a + l
      /\ \A i \in Positions : Records[i] = IF i <= a THEN HistoryAccount(i - 1)
                                           ELSE HistoryFlow(input, slots[i - a])
  BY <1>3 DEF Positions
<1>7. \A i \in Positions : Records[i].kind \in {"bank_account", "cash_flow"}
  BY <1>4, <1>5, <1>6
<1>8. Records # << >>
  <2>1. 1 \in DOMAIN Records
    BY <1>3, <1>6 DEF Positions
  <2> QED
    BY <2>1
<1>9. batch.truth \in Seq({})
  BY <1>3
<1> QED
  BY <1>7, <1>8, <1>9, NoMarks DEF BatchTyped

(* Whatever is asked of whichever generator, its batch has records of the  *)
(* canonical kinds, and a position its ground truth names is one of them:  *)
(* the emitter never looks up a record that is not there.                  *)
THEOREM RunTypeOK == Spec => []TypeOK
<1>1. ASSUME Consistent, phase = "generated" PROVE BatchTyped
  <2>1. /\ call \in Calls /\ input = Inputs(call) /\ input.preset = call.preset
    BY <1>1, InputsOfCall DEF Consistent
  <2>2. input.preset \in
          {"connect.firewall.v1", "connect.ingestion.v1", "finhub.anomaly.v1",
           "finhub.circuit_breaker.v1", "finhub.consolidation.v1",
           "finhub.forecasting.v1", "finhub.reconciliation.v1"}
    <3>1. call.preset \in DOMAIN Schema
      BY <2>1, CallsAssumption
    <3> QED
      BY <2>1, <3>1, PresetAssumption
  <2>3. Returned(input.preset)
    BY <1>1 DEF Returned
  <2> QED
    BY <1>1, <2>2, <2>3, FirewallTyped, IngestionTyped, AnomalyTyped, BreakerTyped,
       ConsolidationTyped, ForecastingTyped, ReconciliationTyped
<1>2. ASSUME Consistent PROVE TypeOK
  <2>1. call \in Calls /\ phase \in {"called", "coerced", "generated", "raised"}
    BY <1>2 DEF Consistent
  <2>2. CASE phase = "generated"
    BY <1>1, <1>2, <2>1, <2>2 DEF BatchTyped, TypeOK, Records
  <2>3. CASE phase # "generated"
    <3>1. batch = Empty
      BY <1>2, <2>3 DEF Consistent
    <3>2. batch.records = << >> /\ batch.truth = << >> /\ << >> \in Seq({})
      BY <3>1 DEF Empty
    <3>3. Named = {} /\ Positions = {}
      BY <3>2, NoMarks DEF Positions, Records
    <3> QED
      BY <2>1, <2>3, <3>2, <3>3 DEF TypeOK
  <2> QED
    BY <2>2, <2>3
<1>3. Consistent => TypeOK
  BY <1>2
<1> QED
  BY <1>3, AlwaysConsistent, PTL

=============================================================================
