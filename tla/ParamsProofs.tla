---------------------------- MODULE ParamsProofs ----------------------------
(***************************************************************************)
(* Coercion of parameters, for any schema of sound specs and any value a   *)
(* request may hold.                                                       *)
(***************************************************************************)
EXTENDS Params, Loops

(* A value keeps its place between the bounds, and one that is there stays.*)
LEMMA ClampBetween ==
  ASSUME NEW spec, spec.min \in Nat, spec.max \in Nat, spec.min <= spec.max,
         NEW x \in Int
  PROVE  /\ Clamp(x, spec) \in spec.min .. spec.max
         /\ x \in spec.min .. spec.max => Clamp(x, spec) = x
BY DEF Clamp

LEMMA TruncatedInt ==
  /\ \A x \in Int : Truncated(x) \in Int
  /\ \A n \in Nat : Truncated(100 * n) = n
<1>1. \A x \in Int : Truncated(x) \in Int
  BY DEF Truncated
<1>2. ASSUME NEW n \in Nat PROVE Truncated(100 * n) = n
  <2>1. 100 * n >= 0 /\ (100 * n) \div 100 = n
    OBVIOUS
  <2> QED
    BY <2>1 DEF Truncated
<1> QED
  BY <1>1, <1>2

-----------------------------------------------------------------------------
LEMMA IntSettles ==
  ASSUME NEW spec, Sound(spec), spec.type \in {"int", "window"},
         NEW x \in spec.min .. spec.max
  PROVE  Settled(x, spec)
<1>1. spec.min \in Nat /\ spec.max \in Nat /\ spec.min <= spec.max /\ x \in Nat
  BY DEF Sound
<1>2. Whole(x).kind = "integer" /\ Whole(x).number = 100 * x
  BY DEF Whole, Value
<1>3. ReadsAsInt(Whole(x))
  BY <1>2 DEF ReadsAsInt
<1>4. Clamp(Truncated(Whole(x).number), spec) = x
  BY <1>1, <1>2, TruncatedInt, ClampBetween
<1>5. Coerced(Whole(x), spec) = x
  <2>1. CASE spec.type = "int"
    BY <1>3, <1>4, <2>1 DEF Coerced
  <2>2. CASE spec.type = "window"
    BY <1>3, <1>4, <2>2 DEF Coerced, CoerceWindow
  <2> QED
    BY <2>1, <2>2
<1>6. Resent(x, spec) = Whole(x) /\ Fits(x, spec)
  BY DEF Resent, Fits
<1> QED
  BY <1>5, <1>6 DEF Settled

LEMMA FloatSettles ==
  ASSUME NEW spec, Sound(spec), spec.type = "float",
         NEW x, x = NaN \/ x \in spec.min .. spec.max
  PROVE  Settled(x, spec)
<1>1. spec.min \in Nat /\ spec.max \in Nat /\ spec.min <= spec.max
  BY DEF Sound
<1>2. CASE x = NaN
  <2>1. Resent(x, spec) = NotANumber
    BY <1>2 DEF Resent
  <2>2. Coerced(NotANumber, spec) = NaN
    BY DEF Coerced, NotANumber, Value
  <2> QED
    BY <1>2, <2>1, <2>2 DEF Settled
<1>3. CASE x # NaN
  <2>1. x \in spec.min .. spec.max /\ x \in Int
    BY <1>1, <1>3
  <2>2. Resent(x, spec) = Fraction(x)
    BY <1>3 DEF Resent
  <2>3. Fraction(x).kind = "decimal" /\ Fraction(x).number = x
    BY DEF Fraction, Value
  <2>4. Clamp(x, spec) = x
    BY <1>1, <2>1, ClampBetween
  <2>5. Coerced(Fraction(x), spec) = x
    BY <2>3, <2>4 DEF Coerced, ReadsAsFloat
  <2>6. Fits(x, spec)
    BY <2>1 DEF Fits
  <2> QED
    BY <2>2, <2>5, <2>6 DEF Settled
<1> QED
  BY <1>2, <1>3

LEMMA EnumSettles ==
  ASSUME NEW spec, Sound(spec), spec.type = "enum", NEW x, IsOption(x, spec)
  PROVE  Settled(x, spec)
<1>1. Resent(x, spec) = Word(x) /\ Fits(x, spec)
  BY DEF Resent, Fits
<1>2. Word(x).kind = "word" /\ Word(x).words[1] = x
  BY DEF Word, Value
<1>3. Coerced(Word(x), spec) = x
  BY <1>2 DEF Coerced
<1> QED
  BY <1>1, <1>3 DEF Settled

-----------------------------------------------------------------------------
(* The loop over a list of words unfolds round by round: what is kept of   *)
(* the first i of them.                                                    *)
LEMMA OptionsLoop ==
  ASSUME NEW ws \in Seq(STRING), NEW spec
  PROVE  \E kept :
           /\ Options(ws, spec) = kept[Len(ws)]
           /\ kept[0] = << >>
           /\ \A i \in 1..Len(ws) :
                kept[i] = IF IsOption(ws[i], spec) THEN Append(kept[i - 1], ws[i])
                          ELSE kept[i - 1]
<1> DEFINE n == Len(ws)
           Round(c, k) == IF IsOption(ws[k], spec) THEN Append(c, ws[k]) ELSE c
           Loop(f, m) == [i \in 0..m |-> IF i = 0 THEN << >> ELSE Round(f[i - 1], i)]
           kept == CHOOSE f : f = Loop(f, n)
<1>1. Options(ws, spec) = kept[n]
  BY Zenon DEF Options, Those
<1>2. \A c, k : Round(c, k) = IF IsOption(ws[k], spec) THEN Append(c, ws[k]) ELSE c
  OBVIOUS
<1> HIDE DEF Round
<1>3. \E f : f = Loop(f, n)
  <2> DEFINE T == {m \in 0..n : \E f : f = Loop(f, m)}
  <2>1. 0 \in T
    <3> DEFINE f == [i \in 0..0 |-> << >>]
    <3>1. f = Loop(f, 0)
      OBVIOUS
    <3> HIDE DEF f
    <3> QED
      BY <3>1
  <2>2. ASSUME NEW m \in 0 .. n - 1, m \in T PROVE m + 1 \in T
    <3>1. PICK f : f = Loop(f, m)
      BY <2>2
    <3> DEFINE g == [i \in 0 .. m + 1 |-> IF i <= m THEN f[i] ELSE Round(f[m], i)]
    <3>2. ASSUME NEW i \in 0 .. m + 1
          PROVE  g[i] = IF i = 0 THEN << >> ELSE Round(g[i - 1], i)
      BY <3>1
    <3>3. g = Loop(g, m + 1)
      BY <3>2
    <3> HIDE DEF g
    <3> QED
      BY <3>3
  <2> HIDE DEF T
  <2>3. n \in 0..n /\ n \in Nat
    OBVIOUS
  <2> QED
    BY <2>1, <2>2, <2>3, UpTo DEF T
<1>4. kept = Loop(kept, n)
  <2> HIDE DEF Loop
  <2> QED
    BY <1>3
<1> HIDE DEF kept
<1>5. kept[0] = << >> /\ \A i \in 1..n : kept[i] = Round(kept[i - 1], i)
  BY <1>4
<1> QED
  BY <1>1, <1>2, <1>5

(* What is kept are options, and of options all.                           *)
LEMMA OptionsKeepsOptions ==
  ASSUME NEW ws \in Seq(STRING), NEW spec
  PROVE  /\ Options(ws, spec) \in Seq(STRING)
         /\ \A i \in 1..Len(Options(ws, spec)) : IsOption(Options(ws, spec)[i], spec)
         /\ (\A i \in 1..Len(ws) : IsOption(ws[i], spec)) => Options(ws, spec) = ws
<1>1. PICK kept :
        /\ Options(ws, spec) = kept[Len(ws)]
        /\ kept[0] = << >>
        /\ \A i \in 1..Len(ws) :
             kept[i] = IF IsOption(ws[i], spec) THEN Append(kept[i - 1], ws[i])
                       ELSE kept[i - 1]
  BY OptionsLoop
<1>2. Len(ws) \in Nat /\ Len(ws) \in 0..Len(ws)
  OBVIOUS
<1>3. /\ kept[Len(ws)] \in Seq(STRING)
      /\ \A i \in 1..Len(kept[Len(ws)]) : IsOption(kept[Len(ws)][i], spec)
  <2> DEFINE T == {n \in 0..Len(ws) :
                     /\ kept[n] \in Seq(STRING)
                     /\ \A i \in 1..Len(kept[n]) : IsOption(kept[n][i], spec)}
  <2>1. 0 \in T
    <3>1. 0 \in 0..Len(ws) /\ << >> \in Seq(STRING) /\ 1..Len(<< >>) = {}
      OBVIOUS
    <3>2. kept[0] \in Seq(STRING) /\ 1..Len(kept[0]) = {}
      BY <1>1, <3>1
    <3> QED
      BY <3>1, <3>2
  <2>2. ASSUME NEW n \in 0 .. Len(ws) - 1, n \in T PROVE n + 1 \in T
    <3>1. n + 1 \in 1..Len(ws) /\ (n + 1) - 1 = n /\ n + 1 \in 0..Len(ws)
      OBVIOUS
    <3>2. ws[n + 1] \in STRING
      BY <3>1
    <3>3. kept[n] \in Seq(STRING) /\ \A i \in 1..Len(kept[n]) : IsOption(kept[n][i], spec)
      BY <2>2
    <3>4. kept[n + 1] = IF IsOption(ws[n + 1], spec) THEN Append(kept[n], ws[n + 1])
                        ELSE kept[n]
      BY <1>1, <3>1
    <3>5. CASE IsOption(ws[n + 1], spec)
      <4>1. kept[n + 1] \in Seq(STRING) /\ Len(kept[n + 1]) = Len(kept[n]) + 1
        BY <3>2, <3>3, <3>4, <3>5
      <4>2. ASSUME NEW i \in 1..Len(kept[n + 1]) PROVE IsOption(kept[n + 1][i], spec)
        BY <3>2, <3>3, <3>4, <3>5, <4>1
      <4> QED
        BY <3>1, <4>1, <4>2
    <3>6. CASE ~IsOption(ws[n + 1], spec)
      BY <3>1, <3>3, <3>4, <3>6
    <3> QED
      BY <3>5, <3>6
  <2> HIDE DEF T
  <2>3. Len(ws) \in T
    BY <1>2, <2>1, <2>2, UpTo
  <2> QED
    BY <2>3 DEF T
<1>4. ASSUME \A i \in 1..Len(ws) : IsOption(ws[i], spec)
      PROVE  kept[Len(ws)] = ws
  <2> DEFINE T == {n \in 0..Len(ws) : kept[n] = [i \in 1..n |-> ws[i]]}
  <2>1. 0 \in T
    <3>1. 0 \in 0..Len(ws) /\ [i \in 1..0 |-> ws[i]] = << >>
      OBVIOUS
    <3> QED
      BY <1>1, <3>1
  <2>2. ASSUME NEW n \in 0 .. Len(ws) - 1, n \in T PROVE n + 1 \in T
    <3>1. n + 1 \in 1..Len(ws) /\ (n + 1) - 1 = n /\ n + 1 \in 0..Len(ws) /\ n \in Nat
      OBVIOUS
    <3>2. kept[n + 1] = Append([i \in 1..n |-> ws[i]], ws[n + 1])
      BY <1>1, <1>4, <2>2, <3>1
    <3> QED
      BY <3>1, <3>2, AppendPrefix
  <2> HIDE DEF T
  <2>3. Len(ws) \in T
    BY <1>2, <2>1, <2>2, UpTo
  <2>4. kept[Len(ws)] = [i \in 1..Len(ws) |-> ws[i]]
    BY <2>3 DEF T
  <2> QED
    BY <2>4
<1> QED
  BY <1>1, <1>3, <1>4

LEMMA MultiSettles ==
  ASSUME NEW spec, spec.type = "multi",
         NEW x \in Seq(STRING), Fits(x, spec)
  PROVE  Settled(x, spec)
<1>1. x # << >> /\ \A i \in 1..Len(x) : IsOption(x[i], spec)
  BY DEF Fits
<1>2. Resent(x, spec) = List(x) /\ List(x).kind = "list" /\ List(x).words = x
  BY DEF Resent, List, Value
<1>3. Options(x, spec) = x
  BY <1>1, OptionsKeepsOptions
<1>4. Coerced(List(x), spec) = x
  BY <1>1, <1>2, <1>3 DEF Coerced
<1> QED
  BY <1>2, <1>4 DEF Settled

(* A default, which is what a parameter that is not given becomes.         *)
LEMMA DefaultSettles ==
  ASSUME NEW spec, Sound(spec)
  PROVE  Settled(spec.default, spec)
<1>1. CASE spec.type \in {"int", "window"}
  BY <1>1, IntSettles DEF Sound, Fits
<1>2. CASE spec.type = "float"
  BY <1>2, FloatSettles DEF Sound, Fits
<1>3. CASE spec.type = "enum"
  BY <1>3, EnumSettles DEF Sound, Fits
<1>4. CASE spec.type = "multi"
  BY <1>4, MultiSettles DEF Sound
<1> QED
  BY <1>1, <1>2, <1>3, <1>4 DEF Sound

LEMMA CoercedSettles ==
  ASSUME NEW spec, Sound(spec), NEW v, IsValue(v)
  PROVE  Settled(Coerced(v, spec), spec)
<1>1. Settled(spec.default, spec) /\ v.number \in Int /\ v.words \in Seq(STRING)
  BY DefaultSettles DEF IsValue
<1>2. ASSUME spec.type \in {"int", "float", "window"}
      PROVE  /\ spec.min \in Nat /\ spec.max \in Nat /\ spec.min <= spec.max
             /\ Clamp(v.number, spec) \in spec.min .. spec.max
             /\ Clamp(Truncated(v.number), spec) \in spec.min .. spec.max
             /\ Clamp(spec.default, spec) = spec.default
  <2>1. spec.min \in Nat /\ spec.max \in Nat /\ spec.min <= spec.max
    BY <1>2 DEF Sound
  <2>2. spec.default \in spec.min .. spec.max
    BY <1>2 DEF Sound, Fits
  <2>3. Truncated(v.number) \in Int
    BY <1>1, TruncatedInt
  <2>4. spec.default \in Int
    BY <2>1, <2>2
  <2> QED
    BY <1>1, <2>1, <2>2, <2>3, <2>4, ClampBetween
<1>3. CASE spec.type = "int"
  <2>1. \/ Coerced(v, spec) = Clamp(Truncated(v.number), spec)
        \/ Coerced(v, spec) = spec.default
    BY <1>3 DEF Coerced
  <2> QED
    BY <1>1, <1>2, <1>3, <2>1, IntSettles
<1>4. CASE spec.type = "window"
  <2>1. \/ Coerced(v, spec) = Clamp(Truncated(v.number), spec)
        \/ Coerced(v, spec) = Clamp(spec.default, spec)
    BY <1>4 DEF Coerced, CoerceWindow
  <2> QED
    BY <1>1, <1>2, <1>4, <2>1, IntSettles
<1>5. CASE spec.type = "float"
  <2>1. \/ Coerced(v, spec) = NaN
        \/ Coerced(v, spec) = Clamp(v.number, spec)
        \/ Coerced(v, spec) = spec.default
    BY <1>5 DEF Coerced
  <2>2. Clamp(v.number, spec) \in spec.min .. spec.max
    BY <1>2, <1>5
  <2> QED
    BY <1>1, <1>5, <2>1, <2>2, FloatSettles
<1>6. CASE spec.type = "enum"
  <2>1. \/ Coerced(v, spec) = spec.default
        \/ Coerced(v, spec) = v.words[1] /\ IsOption(v.words[1], spec)
    BY <1>6 DEF Coerced
  <2> QED
    BY <1>1, <1>6, <2>1, EnumSettles
<1>7. CASE spec.type = "multi"
  <2> DEFINE ws == Options(v.words, spec)
  <2>1. \/ Coerced(v, spec) = spec.default
        \/ Coerced(v, spec) = ws /\ ws # << >>
    BY <1>7 DEF Coerced
  <2>2. ws \in Seq(STRING) /\ \A i \in 1..Len(ws) : IsOption(ws[i], spec)
    BY <1>1, OptionsKeepsOptions
  <2>3. ws # << >> => Fits(ws, spec)
    BY <1>7, <2>2 DEF Fits
  <2> QED
    BY <1>1, <1>7, <2>1, <2>2, <2>3, MultiSettles
<1> QED
  BY <1>3, <1>4, <1>5, <1>6, <1>7 DEF Sound

-----------------------------------------------------------------------------
(* What coerce_params hands a generator: whatever keys the request has and *)
(* whatever JSON is under them, every parameter is one its schema allows   *)
(* or a NaN, and a run can be repeated from what it was made from.         *)
THEOREM ParamsSettle ==
  ASSUME NEW preset \in DOMAIN Schema,
         NEW params, \A name \in DOMAIN params : IsValue(params[name]),
         NEW name \in DOMAIN Schema[preset]
  PROVE  Settled(CoerceParams(Schema[preset], params)[name], Schema[preset][name])
<1> DEFINE spec == Schema[preset][name]
<1>1. Sound(spec)
  BY SchemaAssumption
<1>2. CASE name \in DOMAIN params
  <2>1. CoerceParams(Schema[preset], params)[name] = Coerced(params[name], spec)
    BY <1>2 DEF CoerceParams
  <2>2. IsValue(params[name])
    BY <1>2
  <2> QED
    BY <1>1, <2>1, <2>2, CoercedSettles
<1>3. CASE name \notin DOMAIN params
  <2>1. CoerceParams(Schema[preset], params)[name] = spec.default
    BY <1>3 DEF CoerceParams
  <2> QED
    BY <1>1, <2>1, DefaultSettles
<1> QED
  BY <1>2, <1>3

=============================================================================
