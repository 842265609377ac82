----------------------------- MODULE ScalarCalls -----------------------------
(***************************************************************************)
(* Calls of the scalar functions of the example worker                     *)
(* (vgi-example-worker/src/scalar): which implementation a call binds, and *)
(* what the additions among them answer (vgi/src/numeric.rs).              *)
(*                                                                         *)
(* A fixture is a record: the name it registers under, its argument        *)
(* specifications, the secrets it looks up and whether it sends a          *)
(* validator.  The rows of an addition are modelled; of every other        *)
(* fixture only that it answers one value per row.                         *)
(*                                                                         *)
(* Integer types keep the order of their widths, scaled down to Bits.  A   *)
(* float is counted in hundredths, and a decimal has at most two digits    *)
(* after the point.                                                        *)
(*                                                                         *)
(* A call goes from its bind (dispatch.rs, handle_bind) over the batches   *)
(* of its exchange (ScalarExchangeState) to the end of the column.  The    *)
(* engine cuts the rows into batches as it likes, and may send a batch     *)
(* again with the validator of the answer it holds.                        *)
(***************************************************************************)
EXTENDS Overloads

CONSTANT Failed

Int64 == <<"int64">>
Float64 == <<"float64">>
Utf8 == <<"utf8">>
Binary == <<"binary">>
Bool == <<"bool">>

----------------------------------------------------------------------------
(* Widths and casts.                                                       *)

(* The widths of int8 to int64, scaled so that TLC can compute with them.  *)
Bits == [int8 |-> 8, int16 |-> 10, int32 |-> 12, int64 |-> 14,
         uint8 |-> 8, uint16 |-> 10, uint32 |-> 12, uint64 |-> 14]
Signed(t) == t[1] \in {"int8", "int16", "int32", "int64"}
Lowest(t) == IF Signed(t) THEN -(2^(Bits[t[1]] - 1)) ELSE 0
Highest(t) == IF Signed(t) THEN 2^(Bits[t[1]] - 1) - 1 ELSE 2^Bits[t[1]] - 1

(* The largest precision of a 128-bit decimal (38), scaled down too, and   *)
(* the largest number those bits hold, 1.7 times the power of ten.         *)
MaxPrecision == 3
I128Highest == 1701

Magnitude(v) == IF v < 0 THEN -v ELSE v
Fits(v, t) ==
    CASE is_integer(t) -> v >= Lowest(t) /\ v <= Highest(t)
      [] is_decimal(t) -> Magnitude(v) < 10^t[2]
      [] OTHER -> TRUE

(* A quotient cut towards zero, and one rounded half away from zero.       *)
Cut(v, d) == IF v >= 0 THEN v \div d ELSE -((-v) \div d)
Rounded(v, d) == IF v >= 0 THEN (2 * v + d) \div (2 * d) ELSE -((2 * (-v) + d) \div (2 * d))

(* The digits a type keeps after the point.                                *)
Places(t) == IF is_decimal(t) THEN t[3] ELSE IF is_floating(t) THEN 2 ELSE 0
(* A value of one type in the units of another.                            *)
Rescaled(v, from, to, Divide(_, _)) ==
    IF Places(to) >= Places(from) THEN v * 10^(Places(to) - Places(from))
    ELSE Divide(v, 10^(Places(from) - Places(to)))

(* arrow_cast::cast (external): an integer drops the fraction, a decimal   *)
(* rounds it, and a value that does not fit becomes NULL.                  *)
Cast(v, from, to) ==
    LET converted == IF is_decimal(to) THEN Rescaled(v, from, to, Rounded) ELSE Rescaled(v, from, to, Cut)
    IN  IF v = None THEN None
        ELSE IF from = to \/ Fits(converted, to) THEN converted ELSE None

----------------------------------------------------------------------------
(* The additions (numeric.rs).                                             *)

promote_for_addition(t) ==
    CASE is_floating(t) -> Float64
      [] t = <<"int8">> -> <<"int16">>
      [] t = <<"int16">> -> <<"int32">>
      [] t \in {<<"int32">>, <<"int64">>} -> <<"int64">>
      [] t = <<"uint8">> -> <<"uint16">>
      [] t = <<"uint16">> -> <<"uint32">>
      [] t \in {<<"uint32">>, <<"uint64">>} -> <<"uint64">>
      [] is_decimal(t) -> <<"decimal", IF t[2] < MaxPrecision THEN t[2] + 1 ELSE MaxPrecision, t[3]>>
      [] OTHER -> t

Larger(a, b) == IF a >= b THEN a ELSE b

common_numeric(a, b) ==
    CASE a = b -> a
      [] a # b /\ (is_floating(a) \/ is_floating(b)) -> Float64
      [] a # b /\ is_decimal(a) /\ is_decimal(b) -> <<"decimal", Larger(a[2], b[2]), Larger(a[3], b[3])>>
      [] a # b /\ is_integer(a) /\ is_integer(b) /\ Signed(a) = Signed(b) ->
            IF Bits[a[1]] >= Bits[b[1]] THEN a ELSE b
      [] OTHER -> Int64

(* Mutant: the common type is used without headroom.                       *)
Mut_common_type_for_addition(a, b) == common_numeric(a, b)

common_type_for_addition(a, b) == promote_for_addition(common_numeric(a, b))

(* arrow_arith::numeric::add (external) on one row of type t: Failed when  *)
(* an integer overflows or a decimal leaves its 128 bits; a NULL makes a   *)
(* NULL.  Points in time cannot be added.                                  *)
Adds(t) == t[1] \notin {"date", "time", "timestamp"}
Plus(a, b, t) ==
    CASE a = Failed \/ b = Failed \/ ~Adds(t) -> Failed
      [] a # Failed /\ b # Failed /\ Adds(t) /\ (a = None \/ b = None) -> None
      [] OTHER -> IF \/ is_integer(t) /\ ~Fits(a + b, t)
                     \/ is_decimal(t) /\ Magnitude(a + b) > I128Highest
                  THEN Failed ELSE a + b

(* A sum of decimals has a wider type, up to the largest precision, and is *)
(* cast back to t: NULL if it does not fit.                                *)
Narrowed(v, t) ==
    IF v \notin {None, Failed} /\ is_decimal(t) /\ t[2] < MaxPrecision /\ ~Fits(v, t) THEN None ELSE v

(* double_first, for a column of type from into the bound type t: a        *)
(* decimal works wide and refuses a value that does not fit afterwards.    *)
double_first(v, from, t) ==
    IF is_decimal(t)
    THEN IF v # None /\ ~Fits(2 * v, t) THEN Failed ELSE IF v = None THEN None ELSE 2 * v
    ELSE Plus(Cast(v, from, t), Cast(v, from, t), t)

(* Mutant: the additions wrap.                                             *)
Mut_Total(row, fields, t) ==
    LET sum == FoldLeft(LAMBDA acc, n : IF acc = None \/ Cast(row[n], fields[n], t) = None THEN None
                                        ELSE acc + Cast(row[n], fields[n], t), 0, [n \in DOMAIN row |-> n])
    IN  IF sum # None /\ is_integer(t) THEN ((sum - Lowest(t)) % 2^Bits[t[1]]) + Lowest(t) ELSE sum

(* The columns of a row cast to the bound type, added from the left, and   *)
(* cast back.                                                              *)
Total(row, fields, t) ==
    Narrowed(FoldLeft(LAMBDA acc, n : Plus(acc, Cast(row[n], fields[n], t), t),
                      Cast(row[1], fields[1], t), [n \in 1..(Len(row) - 1) |-> n + 1]), t)

add_two(row, fields, t) == Total(row, fields, t)

----------------------------------------------------------------------------
(* The fixtures.                                                           *)

Scalar(name, specs) == [name |-> name, specs |-> specs, lookups |-> {}, etag |-> FALSE]

(* Arithmetic and strings (scalar/mod.rs).                                 *)
ArgumentNamesProbeFunction ==
    Scalar("argument_names_probe",
           <<column("left", 0, Int64), column("right", 1, Int64),
             with_default(const_arg("scale", 2, Int64), [type |-> Int64, value |-> 2])>>)
DoubleFunction == Scalar("double", <<with_bound(any_column("value", 0), "MULTIPLIABLE")>>)
AddValuesFunction ==
    Scalar("add_values",
           <<with_bound(any_column("col1", 0), "ADDABLE"), with_bound(any_column("col2", 1), "ADDABLE")>>)
MultiplyFunction == Scalar("multiply", <<column("value", 0, Int64), const_arg("factor", 1, Int64)>>)
PassthruFunction == Scalar("passthru", <<column("value", 0, Utf8)>>)
CollatzStepsFunction == Scalar("collatz_steps", <<column("value", 0, Int64)>>)
Sha256HexFunction == Scalar("sha256_hex", <<column("value", 0, Utf8)>>)
HashRoundsFunction == Scalar("hash_rounds", <<column("value", 0, Utf8), const_arg("rounds", 1, Int64)>>)
SumValuesFunction == Scalar("sum_values", <<with_bound(varargs(any_column("values", 0)), "ADDABLE")>>)
ConcatValuesIntFunction == Scalar("concat_values", <<varargs(column("values", 0, Int64))>>)
ConcatValuesStrFunction == Scalar("concat_values", <<varargs(column("values", 0, Utf8))>>)
UpperCaseFunction == Scalar("upper_case", <<column("value", 0, Utf8)>>)
ConfigType == <<"struct", <<Utf8, Int64>>, <<"label", "version">>>>
BinaryPacketFunction ==
    Scalar("binary_packet",
           <<const_arg("header", 0, Binary), column("payload", 1, Binary), const_arg("config", 2, ConfigType)>>)
NullHandlingFunction == Scalar("null_handling", <<column("value", 0, Int64)>>)
ConditionalMessageFunction ==
    Scalar("conditional_message",
           <<const_arg("repeat_count", 0, Int64), const_arg("message", 1, Utf8), column("condition", 2, Bool)>>)

(* Seeded and random.                                                      *)
HashSeedFunction == Scalar("hash_seed", <<const_arg("seed", 0, Int64)>>)
QuerySeedFunction == Scalar("query_seed", <<column("value", 0, Int64)>>)
BernoulliFunction == Scalar("bernoulli", <<>>)
RandomIntFunction == Scalar("random_int", <<column("min_val", 0, Int64), column("max_val", 1, Int64)>>)
RandomBytesFunction ==
    Scalar("random_bytes", <<const_arg("seed", 0, Int64), const_arg("byte_length", 1, Int64)>>)

(* Overloaded type probes.                                                 *)
TypeInfo(type) == Scalar("type_info", <<column("v", 0, type)>>)
PairType(first, second) == Scalar("pair_type", <<column("a", 0, first), column("b", 1, second)>>)
AnyMixed(type) == Scalar("any_mixed", <<any_column("a", 0), column("b", 1, type)>>)

(* Settings, secrets and the caller.                                       *)
MultiplyBySettingFunction == Scalar("multiply_by_setting", <<column("value", 0, Int64)>>)
ScaleBySettingFunction == Scalar("scale_by_setting", <<column("value", 0, Float64)>>)
ReturnSecretValueFunction == [Scalar("return_secret_value", <<>>) EXCEPT !.lookups = {"vgi_example"}]
SecretFieldFunction == [Scalar("secret_field", <<>>) EXCEPT !.lookups = {"vgi_example"}]
WhoAmIFunction == Scalar("whoami", <<column("x", 0, Int64)>>)

(* Cacheable scalars (scalar/cached.rs).  A batch's validator is the batch *)
(* itself; etag says whether the fixture sends one.                        *)
CachedDoubleScalarFunction == Scalar("cached_double_scalar", <<column("value", 0, Int64)>>)
CachedRevalidatingDoubleScalarFunction ==
    [Scalar("cached_reval_double_scalar", <<column("value", 0, Int64)>>) EXCEPT !.etag = TRUE]
CachedRevalidationPolicyScalarFunction ==
    [Scalar("cached_reval_policy_scalar", <<column("value", 0, Int64), const_arg("policy", 1, Utf8)>>)
     EXCEPT !.etag = TRUE]
CachedAddConstScalarFunction ==
    Scalar("cached_add_const", <<column("value", 0, Int64), const_arg("addend", 1, Int64)>>)
CachedLabelScalarFunction == Scalar("cached_label", <<column("value", 0, Int64)>>)

(* Formatting (scalar/fmt.rs).                                             *)
Precision == with_le(with_ge(const_arg("precision", 0, Int64), 0), 10)
FormatNumber(variant) ==
    Scalar("format_number",
           CASE variant = "Default" -> <<column("value", 0, Float64)>>
             [] variant = "Precision" -> <<Precision, column("value", 1, Float64)>>
             [] variant = "Full" -> <<Precision, const_arg("prefix", 1, Utf8), column("value", 2, Float64)>>)
SmartFormat(variant) ==
    Scalar("smart_format",
           CASE variant = "Width" -> <<const_arg("width", 0, Int64), any_column("value", 1)>>
             [] variant = "Prefix" -> <<const_arg("prefix", 0, Utf8), any_column("value", 1)>>)

(* Points (scalar/geo.rs): a struct, a list or a fixed-size list.          *)
point_struct_type == <<"struct", <<Float64, Float64>>, <<"lat", "lon">>>>
list_f64 == <<"list", Float64, "item">>
fixed_f64 == <<"fixed", Float64, 2, "item">>
GeoDistance(name, type) == Scalar(name, <<column("p1", 0, type), column("p2", 1, type)>>)
GeoCentroid(name, type) == Scalar(name, <<varargs(column("points", 0, type))>>)

(* One name in two schemas (scalar/same_name.rs); this is main's.          *)
SameNameMainFunction == Scalar("test_same_name_bind", <<column("value", 0, Int64)>>)

(* The instances declared in the schema main, in registration order; an    *)
(* instance is named by its place.                                         *)
register ==
    <<DoubleFunction, AddValuesFunction, ArgumentNamesProbeFunction, MultiplyFunction, PassthruFunction,
      CollatzStepsFunction, Sha256HexFunction, HashRoundsFunction, SumValuesFunction,
      ConcatValuesIntFunction, ConcatValuesStrFunction, UpperCaseFunction, NullHandlingFunction,
      ConditionalMessageFunction, HashSeedFunction, QuerySeedFunction, BernoulliFunction,
      RandomIntFunction, RandomBytesFunction, BinaryPacketFunction, MultiplyBySettingFunction,
      ScaleBySettingFunction, ReturnSecretValueFunction, SecretFieldFunction, WhoAmIFunction,
      TypeInfo(<<"int32">>), TypeInfo(Int64), TypeInfo(<<"uint32">>), TypeInfo(<<"uint64">>), TypeInfo(Utf8),
      PairType(Int64, Int64), PairType(Utf8, Utf8), PairType(Int64, Utf8), AnyMixed(Int64), AnyMixed(Utf8),
      GeoDistance("geo_distance_struct", point_struct_type), GeoDistance("geo_distance_list", list_f64),
      GeoDistance("geo_distance_fixed", fixed_f64), GeoCentroid("geo_centroid_struct", point_struct_type),
      GeoCentroid("geo_centroid_list", list_f64), GeoCentroid("geo_centroid_fixed", fixed_f64),
      FormatNumber("Default"), FormatNumber("Precision"), FormatNumber("Full"),
      SmartFormat("Width"), SmartFormat("Prefix"), CachedDoubleScalarFunction,
      CachedRevalidatingDoubleScalarFunction, CachedRevalidationPolicyScalarFunction,
      CachedAddConstScalarFunction, CachedLabelScalarFunction, SameNameMainFunction>>

-----------------------------------------------------------------------------
CONSTANT Calls    \* a sequence of sets of calls as written: [name, sql, rows, names, secrets]

(* sql is the argument list in declared order: [const, type, value], the   *)
(* value of a column argument being in the rows.                           *)

VARIABLES call,    \* the call being served
          phase,   \* "bind", "lookup", "open", "done" or "failed"
          bound,   \* the instance bound, None before
          secrets, \* the secrets of the last bind request
          given,   \* how many rows have been answered
          out,     \* the answers, row by row
          held     \* the last batch the client holds an answer and a validator for
vars == <<call, phase, bound, secrets, given, out, held>>

----------------------------------------------------------------------------
(* The request the engine makes of a call (external).                      *)
Constants(c) == SelectSeq(c.sql, LAMBDA a : a.const)
Fields(c) == LET cols == SelectSeq(c.sql, LAMBDA a : ~a.const)
             IN  [i \in DOMAIN cols |-> cols[i].type]
WireArguments(c) == Wire([i \in DOMAIN Constants(c) |->
                             [type |-> Constants(c)[i].type, value |-> Constants(c)[i].value]])

nth_input_type(c, n) == IF n <= Len(Fields(c)) THEN Fields(c)[n] ELSE Int64

(* resolve_scalar within the schema main.                                  *)
resolve_scalar(c) ==
    LET Pick(cands) == resolve_overload([i \in DOMAIN cands |-> register[cands[i]].specs],
                                        [i \in DOMAIN cands |-> FALSE], WireArguments(c), Fields(c))
        Picked(cands, pick) == IF pick = 0 THEN None ELSE cands[pick]
        Among(cands) == Picked(cands, Pick(cands))
    IN  Among(SelectSeq([i \in DOMAIN register |-> i], LAMBDA i : register[i].name = c.name))

Arguments(c, specs) == remap_positional(WireArguments(c), specs)

(* on_bind refuses: one fixture insists on the names of its arguments.     *)
on_bind(f, c) == f.name = "argument_names_probe" => c.names = <<"left", "right", "scale">>

(* The type on_bind gives an addition.                                     *)
SumType(f, c) ==
    IF f.name = "add_values" THEN common_type_for_addition(nth_input_type(c, 1), nth_input_type(c, 2))
    ELSE promote_for_addition(nth_input_type(c, 1))

(* The product of i64 values in a release build, which wraps.              *)
Doubled(v) == IF v = None THEN None ELSE ((2 * v - Lowest(Int64)) % 2^Bits["int64"]) + Lowest(Int64)

(* process on one row: a value, or Failed, which fails the batch.          *)
process(f, c, row) ==
    CASE f.name = "double" -> double_first(row[1], nth_input_type(c, 1), SumType(f, c))
      [] f.name = "add_values" -> add_two(row, Fields(c), SumType(f, c))
      [] f.name = "sum_values" -> IF Fields(c) = <<>> THEN Failed ELSE Total(row, Fields(c), SumType(f, c))
      [] f.name = "concat_values" /\ f.specs[1].type = Int64 ->
            IF Total(row, Fields(c), Int64) = Failed THEN Failed ELSE "answer"
      [] f.name = "random_bytes" /\ OrElse(const_i64(Arguments(c, f.specs), 1), 0) < 0 -> Failed
      [] f.etag -> Doubled(Cast(row[1], nth_input_type(c, 1), Int64))
      [] OTHER -> "answer"

Init ==
    /\ \E i \in DOMAIN Calls : call \in Calls[i]
    /\ phase = "bind" /\ bound = None /\ secrets = {} /\ given = 0 /\ out = <<>> /\ held = <<>>

(* What the worker answers to a bind that resolved to an instance.         *)
BindReply(id, provided) ==
    LET Accepted(answer) == IF answer = "bound" /\ ~on_bind(register[id], call) THEN "refused" ELSE answer
        Answer(f) == BindAnswer("Scalar", f.specs, f.lookups, provided,
                                Arguments(call, f.specs), Fields(call))
    IN  IF id = None THEN "refused" ELSE Accepted(Answer(register[id]))

(* Bind, first or with the secrets the first one asked for.                *)
Bind ==
    /\ phase \in {"bind", "lookup"}
    /\ \E id \in {resolve_scalar(call)} :
       \E answer \in {BindReply(id, phase = "lookup")} :
           /\ phase' = CASE answer = "lookup" -> "lookup"
                         [] answer = "bound" -> "open"
                         [] OTHER -> "failed"
           /\ bound' = IF answer = "bound" THEN id ELSE None
           /\ secrets' = IF answer = "lookup" THEN call.secrets ELSE secrets
    /\ UNCHANGED <<call, given, out, held>>

Answers(f, batch) == [i \in DOMAIN batch |-> process(f, call, batch[i])]

(* One exchange: the next n rows.                                          *)
Exchange(n) ==
    /\ phase = "open" /\ given + n <= Len(call.rows)
    /\ \E batch \in {SubSeq(call.rows, given + 1, given + n)} :
       \E answer \in {Answers(register[bound], batch)} :
           \/ /\ Failed \in ToSet(answer)
              /\ phase' = "failed"
              /\ UNCHANGED <<given, out, held>>
           \/ /\ Failed \notin ToSet(answer)
              /\ out' = out \o answer
              /\ held' = IF register[bound].etag THEN batch ELSE <<>>
              /\ given' = given + n
              /\ phase' = IF given + n = Len(call.rows) THEN "done" ELSE phase
    /\ UNCHANGED <<call, bound, secrets>>

(* process_out for a batch whose validator came back: what it answers      *)
(* instead of the rows, or the rows.                                       *)
Policy(f) == IF f.name = "cached_reval_policy_scalar" THEN const_str(Arguments(call, f.specs), 1)[1] ELSE ""
Conditional(f, batch) ==
    CASE Policy(f) = "error" -> [rows |-> Failed, modified |-> TRUE, store |-> TRUE]
      [] Policy(f) = "not_modified_no_store" -> [rows |-> <<>>, modified |-> FALSE, store |-> FALSE]
      [] Policy(f) = "fresh_no_store" -> [rows |-> Answers(f, batch), modified |-> TRUE, store |-> FALSE]
      [] OTHER -> [rows |-> <<>>, modified |-> FALSE, store |-> TRUE]

(* The batch the client holds an answer to is asked for once more with its *)
(* validator; an unmodified answer replays the rows held, an error keeps   *)
(* them (stale_if_error), an answer not to be stored drops the entry.      *)
Revalidate ==
    /\ phase \in {"open", "done"} /\ held # <<>>
    /\ \E answer \in {Conditional(register[bound], held)} :
       LET n == Len(held)
           rows == IF answer.modified /\ answer.rows # Failed THEN answer.rows
                   ELSE SubSeq(out, given - n + 1, given)
       IN  /\ out' = SubSeq(out, 1, given - n) \o rows
           /\ held' = IF answer.store THEN held ELSE <<>>
    /\ UNCHANGED <<call, phase, bound, secrets, given>>

Next == Bind \/ (\E n \in 1..Len(call.rows) : Exchange(n)) \/ Revalidate

Spec == Init /\ [][Next]_vars

----------------------------------------------------------------------------
(* The declared argument list of an instance, varargs stretched to n.      *)
Signature(specs, n) ==
    LET spec(p) == {s \in ToSet(specs) : s.position = p \/ (s.varargs /\ s.position <= p)}
    IN  [p \in 1..n |-> IF spec(p - 1) = {} THEN <<"absent">>
                         ELSE LET s == CHOOSE x \in spec(p - 1) : TRUE
                              IN  IF s.type = None THEN <<"any">> ELSE s.type]
Declares(specs, c) ==
    LET n == Len(c.sql)
    IN  /\ Cardinality({s.position : s \in ToSet(specs)}) <= n
        /\ \A p \in 1..n : Signature(specs, n)[p] \in {c.sql[p].type, <<"any">>}

(* A call is bound to an instance that declares its argument list, exactly *)
(* where one does, and every constant is found by the function at the      *)
(* position it was written at (overload.rs, remap_positional): the wire    *)
(* packs the constants densely and the scoring runs before the remapping.  *)
BoundAsWritten ==
    LET SomeDeclares == \E f \in ToSet(register) : f.name = call.name /\ Declares(f.specs, call)
        AsWritten(specs) ==
            /\ SomeDeclares => Declares(specs, call)
            /\ \A p \in 1..Len(call.sql) : call.sql[p].const =>
                   LET a == arg(Arguments(call, specs), p - 1)
                   IN  a # None /\ a.type = call.sql[p].type /\ a.value = call.sql[p].value
            /\ \A s \in ToSet(specs) : (Positional(s) /\ s.position < Len(call.sql)) =>
                   LET a == call.sql[s.position + 1]
                   IN  /\ s.const = a.const
                       /\ a.const => check_value(s, ConstValue([type |-> a.type, value |-> a.value]))
    IN  bound # None => AsWritten(register[bound].specs)

(* The call is bound to one of the additions, over numbers alone.          *)
Adding ==
    /\ bound # None
    /\ register[bound].name \in {"double", "add_values", "sum_values"}
    /\ \A t \in ToSet(Fields(call)) : is_multipliable(t)

(* The numbers a row adds, in hundredths.                                  *)
Terms(row) ==
    LET hundredths == [n \in DOMAIN row |-> IF row[n] = None THEN None
                                            ELSE row[n] * 10^(2 - Places(Fields(call)[n]))]
    IN  IF register[bound].name = "double" THEN hundredths \o hundredths ELSE hundredths

(* An addition that answers a number answers the exact sum, whatever types *)
(* it was given and however the rows are cut into batches, unless a column *)
(* has more digits after the point than the bound type.  It answers NULL   *)
(* only for a NULL, for a number that the bound type cannot hold (a large  *)
(* uint64 beside a signed column, a column of sum_values wider than the    *)
(* first) or for a sum of decimals that it cannot hold (common_numeric     *)
(* takes precision and scale apart).                                       *)
SumExact ==
    LET t == SumType(register[bound], call)
        in(h) == h \div 10^(2 - Places(t))
    IN  Adding /\ (\A u \in ToSet(Fields(call)) : Places(u) <= Places(t)) =>
            \A i \in 1..given :
                LET terms == Terms(call.rows[i])
                    sum == FoldSeq(LAMBDA x, acc : x + acc, 0, terms)
                IN  IF out[i] = None
                    THEN \/ None \in ToSet(terms)
                         \/ \E x \in ToSet(terms) : ~Fits(in(x), t)
                         \/ is_decimal(t) /\ ~Fits(in(sum), t)
                    ELSE None \notin ToSet(terms) /\ out[i] * 10^(2 - Places(t)) = sum

(* The promotion leaves headroom: double and add_values never refuse a     *)
(* batch of integers narrower than 64 bits (promote_for_addition).         *)
Headroom ==
    /\ bound # None
    /\ register[bound].name \in {"double", "add_values"}
    /\ \A t \in ToSet(Fields(call)) : is_integer(t) /\ Bits[t[1]] < Bits["int64"]
    => phase # "failed"

(* However often a batch is revalidated, the client's rows stay those that *)
(* the column asks for (cached.rs, process_out): the double of each row's  *)
(* value as an int64.                                                      *)
Replayed ==
    bound # None /\ register[bound].etag =>
        out = [i \in 1..given |-> Doubled(Cast(call.rows[i][1], nth_input_type(call, 1), Int64))]

(* What the rows of a call hold, in whatever batches they were asked for   *)
(* (process of the additions, process_out of the cacheable scalars).       *)
RowsExact == SumExact /\ Headroom /\ Replayed
=============================================================================
