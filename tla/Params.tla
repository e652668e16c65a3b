------------------------------- MODULE Params -------------------------------
(***************************************************************************)
(* coerce_params, _clamp and _coerce_window of generators/base.py: what    *)
(* becomes of the params object of a request, which may hold any JSON, on  *)
(* its way to a generator.  Numbers are hundredths, so 1.5 is 150.         *)
(***************************************************************************)
EXTENDS Integers, Sequences

CONSTANT Schema   \* preset id -> parameter name -> ParamSpec

-----------------------------------------------------------------------------
(* A JSON value, by what int() and float() make of it.  Python's parser    *)
(* takes Infinity and NaN for numbers; text is whether the number came as  *)
(* a string.  A huge integer is one beyond the range of a float.  true and *)
(* false go the way of 1 and 0, an object that of null.                    *)
Value(kind, text, number, words) ==
  [kind |-> kind, text |-> text, number |-> number, words |-> words]

Whole(n)      == Value("integer", FALSE, 100 * n, << >>)
Fraction(x)   == Value("decimal", FALSE, x, << >>)
Numeral(v)    == [v EXCEPT !.text = TRUE]
Huge          == Value("huge", FALSE, 100000000, << >>)
Infinity      == Value("infinite", FALSE, 100000000, << >>)
Negative(v)   == [v EXCEPT !.number = 0 - @]
NotANumber    == Value("nan", FALSE, 0, << >>)
Trailing(n)   == Value("trailing", TRUE, 100 * n, << >>)
Word(w)       == Value("word", TRUE, 0, <<w>>)
List(ws)      == Value("list", FALSE, 0, ws)
Null          == Value("null", FALSE, 0, << >>)

(* What a coerced float parameter that is no number reads as: every other  *)
(* one is at least the lower bound, which no schema has below zero.        *)
NaN == 0 - 1

-----------------------------------------------------------------------------
(* int(): truncates, refuses a string with a fraction, raises ValueError   *)
(* or TypeError for what is not a number, OverflowError for an infinity.   *)
IntOverflows(v) == v.kind = "infinite" /\ ~v.text

ReadsAsInt(v) ==
  \/ v.kind \in {"integer", "huge"}
  \/ v.kind = "decimal" /\ ~v.text

Truncated(x) == IF x >= 0 THEN x \div 100 ELSE 0 - ((0 - x) \div 100)

(* float(): OverflowError for a huge integer, though not for its digits as *)
(* a string, which are an infinity.                                        *)
FloatOverflows(v) == v.kind = "huge" /\ ~v.text

ReadsAsFloat(v) ==
  \/ v.kind \in {"integer", "decimal", "infinite"}
  \/ v.kind = "huge" /\ v.text

(* Fault: the upper bound is not applied.                                  *)
FaultClamp(x, spec) == IF x < spec.min THEN spec.min ELSE x

(* _clamp: every parameter with a range has both bounds.                   *)
Clamp(x, spec) ==
  LET raised == IF x < spec.min THEN spec.min ELSE x
  IN  IF raised > spec.max THEN spec.max ELSE raised

(* _coerce_window: a number of days, or "last-<N>d".  Anything else is the *)
(* default, kept here as its number of days.                               *)
CoerceWindow(v, spec) ==
  IF v.kind = "trailing" \/ ReadsAsInt(v)
  THEN Clamp(Truncated(v.number), spec)
  ELSE Clamp(spec.default, spec)

(* `x in spec.options`.                                                    *)
IsOption(w, spec) == w \in spec.options

(* [x for x in s if Test(x)], as the loop it is.                           *)
Those(s, Test(_)) ==
  LET kept[i \in 0..Len(s)] ==
        IF i = 0 THEN << >>
        ELSE IF Test(s[i]) THEN Append(kept[i - 1], s[i]) ELSE kept[i - 1]
  IN  kept[Len(s)]

(* What is left of a list of words: its options, in its order.             *)
Options(ws, spec) ==
  LET Kept(w) == IsOption(w, spec)
  IN  Those(ws, Kept)

(* One round of the loop of coerce_params for a parameter that is given:   *)
(* what does not read as its type leaves the default in place.             *)
Coerced(v, spec) ==
  CASE spec.type = "int" ->
         IF ReadsAsInt(v) THEN Clamp(Truncated(v.number), spec) ELSE spec.default
    [] spec.type = "float" ->
         IF v.kind = "nan" THEN NaN
         ELSE IF ReadsAsFloat(v) THEN Clamp(v.number, spec) ELSE spec.default
    [] spec.type = "enum" ->
         IF v.kind = "word" /\ IsOption(v.words[1], spec) THEN v.words[1] ELSE spec.default
    [] spec.type = "multi" ->
         IF v.kind = "list" /\ Options(v.words, spec) # << >>
         THEN Options(v.words, spec) ELSE spec.default
    [] spec.type = "window" -> CoerceWindow(v, spec)

Given(schema, params) == DOMAIN schema \cap DOMAIN params

(* Fault: TypeError is not caught either.                                  *)
FaultOverflows(v, spec) ==
  \/ spec.type \in {"int", "window"} /\ (IntOverflows(v) \/ v.kind \in {"list", "null"})
  \/ spec.type = "float" /\ FloatOverflows(v)

(* The exception that neither except clause catches.                       *)
Overflows(v, spec) ==
  \/ spec.type \in {"int", "window"} /\ IntOverflows(v)
  \/ spec.type = "float" /\ FloatOverflows(v)

CoercionRaises(schema, params) ==
  \E name \in Given(schema, params) : Overflows(params[name], schema[name])

(* What coerce_params returns: keys the schema does not have are dropped.  *)
CoerceParams(schema, params) ==
  [name \in DOMAIN schema |->
     IF name \in DOMAIN params THEN Coerced(params[name], schema[name])
                               ELSE schema[name].default]

-----------------------------------------------------------------------------
(* A value of a parameter that its generator may rely on.                  *)
Fits(x, spec) ==
  CASE spec.type \in {"int", "window", "float"} -> x \in spec.min .. spec.max
    [] spec.type = "enum"  -> IsOption(x, spec)
    [] spec.type = "multi" ->
         /\ x # << >>
         /\ \A i \in DOMAIN x : IsOption(x[i], spec)

(* The JSON value that stands for a coerced one, as a console would send   *)
(* it back.                                                                *)
Resent(x, spec) ==
  CASE spec.type \in {"int", "window"} -> Whole(x)
    [] spec.type = "float" -> IF x = NaN THEN NotANumber ELSE Fraction(x)
    [] spec.type = "enum"  -> Word(x)
    [] spec.type = "multi" -> List(x)

(* A coerced value has settled: it fits, or is a NaN that no clamp stops,  *)
(* and coercing it once more changes nothing.                              *)
Settled(x, spec) ==
  /\ Fits(x, spec) \/ (spec.type = "float" /\ x = NaN)
  /\ Coerced(Resent(x, spec), spec) = x

(* What a request holds under a name.                                      *)
IsValue(v) == v.number \in Int /\ v.words \in Seq(STRING)

(* The schemas of the generators: ranges that hold their defaults.         *)
Sound(spec) ==
  /\ spec.type \in {"int", "float", "enum", "multi", "window"}
  /\ spec.type \in {"int", "float", "window"} =>
       spec.min \in Nat /\ spec.max \in Nat /\ spec.min <= spec.max
  /\ spec.type = "multi" => spec.default \in Seq(STRING)
  /\ Fits(spec.default, spec)

ASSUME SchemaAssumption ==
  \A preset \in DOMAIN Schema : \A name \in DOMAIN Schema[preset] :
    Sound(Schema[preset][name])
=============================================================================
