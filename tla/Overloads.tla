------------------------------ MODULE Overloads ------------------------------
(***************************************************************************)
(* Argument specifications, the wire form of a call's arguments, overload  *)
(* scoring and bind-time validation: vgi/src/function.rs, arguments.rs,    *)
(* overload.rs and the type rules of numeric.rs.                           *)
(*                                                                         *)
(* A type is a sequence: its name, then its parameters: <<"int64">>,       *)
(* <<"decimal", p, s>>, <<"list", child, childField>>,                     *)
(* <<"fixed", child, n, childField>>, <<"struct", children, fields>>.      *)
(* An argument value is [type, value]; a NULL is the value None, and a     *)
(* call's arguments are [positional, named].                               *)
(***************************************************************************)
EXTENDS Integers, Sequences, FiniteSets, SequencesExt

CONSTANT None

----------------------------------------------------------------------------
(* Type families.                                                          *)

is_integer(t) == t[1] \in {"int8", "int16", "int32", "int64", "uint8", "uint16", "uint32", "uint64"}
is_floating(t) == t[1] \in {"float32", "float64"}
is_decimal(t) == t[1] = "decimal"
is_temporal(t) == t[1] \in {"date", "time", "timestamp", "interval"}
is_addable(t) == is_integer(t) \/ is_floating(t) \/ is_decimal(t) \/ is_temporal(t)
is_multipliable(t) == is_integer(t) \/ is_floating(t) \/ is_decimal(t)
is_float_or_decimal(t) == is_floating(t) \/ is_decimal(t)
is_string(t) == t[1] \in {"utf8", "large_utf8"}
is_binary(t) == t[1] \in {"binary", "large_binary"}

Satisfies(t, bound) ==
    \/ bound = "ADDABLE" /\ is_addable(t)
    \/ bound = "MULTIPLIABLE" /\ is_multipliable(t)

same_family(a, b) ==
    \/ is_integer(a) /\ is_integer(b)
    \/ is_float_or_decimal(a) /\ is_float_or_decimal(b)
    \/ is_string(a) /\ is_string(b)
    \/ is_binary(a) /\ is_binary(b)

(* Equality of nested types that ignores the names of child fields.        *)
RECURSIVE nested_structurally_equal(_, _)
nested_structurally_equal(a, b) ==
    CASE a[1] \in {"list", "large_list"} /\ b[1] \in {"list", "large_list"} ->
            nested_structurally_equal(a[2], b[2])
      [] a[1] = "fixed" /\ b[1] = "fixed" ->
            a[3] = b[3] /\ nested_structurally_equal(a[2], b[2])
      [] a[1] = "struct" /\ b[1] = "struct" ->
            /\ Len(a[2]) = Len(b[2])
            /\ \A i \in DOMAIN a[2] : nested_structurally_equal(a[2][i], b[2][i])
      [] OTHER -> a = b

----------------------------------------------------------------------------
(* Argument specifications.  type = None is the ANY type.                  *)

ArgSpec(name, position, type) ==
    [name |-> name, position |-> position, type |-> type, const |-> FALSE, varargs |-> FALSE,
     bound |-> None, ge |-> None, le |-> None, gt |-> None, lt |-> None,
     choices |-> {}, pattern |-> None, default |-> None]

any_column(name, position) == ArgSpec(name, position, None)
column(name, position, type) == ArgSpec(name, position, type)
const_arg(name, position, type) == [ArgSpec(name, position, type) EXCEPT !.const = TRUE]
named_arg(name, type) == [ArgSpec(name, -1, type) EXCEPT !.const = TRUE]
varargs(s) == [s EXCEPT !.varargs = TRUE]
with_bound(s, b) == [s EXCEPT !.bound = b]
with_choices(s, c) == [s EXCEPT !.choices = c]
with_ge(s, v) == [s EXCEPT !.ge = v]
with_le(s, v) == [s EXCEPT !.le = v]
with_gt(s, v) == [s EXCEPT !.gt = v]
with_lt(s, v) == [s EXCEPT !.lt = v]
with_pattern(s, accepted) == [s EXCEPT !.pattern = accepted]
with_default(s, v) == [s EXCEPT !.default = v]

Positional(s) == s.position >= 0

----------------------------------------------------------------------------
(* The arguments of a call.                                                *)

(* serialize_positional then parse: the values, each under its index.      *)
Wire(values) == [positional |-> values, named |-> <<>>]

arg(args, pos) == IF pos < Len(args.positional) THEN args.positional[pos + 1] ELSE None

Given(a) == a # None /\ a.value # None

(* Integers read a float, in hundredths here, by truncation towards zero.  *)
const_i64(args, pos) ==
    LET a == arg(args, pos)
    IN  CASE ~Given(a) -> None
          [] is_integer(a.type) -> a.value
          [] is_floating(a.type) -> IF a.value >= 0 THEN a.value \div 100 ELSE -((-a.value) \div 100)
          [] OTHER -> None

const_str(args, pos) ==
    LET a == arg(args, pos)
    IN  IF Given(a) /\ is_string(a.type) THEN a.value ELSE None

const_bytes(args, pos) ==
    LET a == arg(args, pos)
    IN  IF Given(a) /\ is_binary(a.type) THEN a.value ELSE None

OrElse(v, default) == IF v = None THEN default ELSE v

(* Mutant: the dense constants are left where the wire put them.           *)
Mut_remap_positional(args, specs) == args

(* remap_positional: the wire holds the constants only, in send order; put *)
(* each at its declared position.                                          *)
remap_positional(args, specs) ==
    LET consts == SelectSeq(specs, LAMBDA s : Positional(s) /\ s.const)
        maxPos == CHOOSE p \in {s.position : s \in ToSet(specs)} \cup {0} :
                      \A s \in ToSet(specs) : s.position <= p
        from(p) == {k \in DOMAIN consts : consts[k].position = p}
        last(ks) == CHOOSE k \in ks : \A j \in ks : j <= k
    IN  IF \/ args.positional = <<>> \/ specs = <<>>
           \/ Len(consts) = Len(specs)
           \/ Len(args.positional) > maxPos
        THEN args
        ELSE [args EXCEPT !.positional =
                 [i \in 1..(maxPos + 1) |->
                     LET ks == {k \in from(i - 1) : arg(args, k - 1) # None}
                     IN  IF ks = {} THEN None ELSE arg(args, last(ks) - 1)]]

----------------------------------------------------------------------------
(* Overload resolution.  A score is a natural number, or None to reject.   *)

score_type(actual, spec) ==
    CASE spec.type = None \/ spec.type = <<"null">> -> 0
      [] spec.type # None /\ (actual = spec.type \/ nested_structurally_equal(actual, spec.type)) -> 2
      [] spec.type # None /\ same_family(actual, spec.type) -> 1
      [] OTHER -> None

(* The sum of scores, None when one of them rejects.                       *)
SumScores(scores) ==
    IF \E i \in DOMAIN scores : scores[i] = None THEN None
    ELSE FoldSeq(LAMBDA x, acc : x + acc, 0, scores)

score_columns(nonconst, spread, fields) ==
    IF spread # <<>> /\ ~spread[1].const
    THEN SumScores([i \in DOMAIN fields |-> score_type(fields[i], spread[1])])
    ELSE SumScores([i \in 1..(IF Len(nonconst) < Len(fields) THEN Len(nonconst) ELSE Len(fields)) |->
                       score_type(fields[i], nonconst[i])])

(* The count checks of score_candidate that reject before any type is      *)
(* scored.  fields = None is a call without an input schema.               *)
CountsFit(consts, nonconst, spread, blended, args, fields) ==
    LET numPos == Len(args.positional)
        fixed == Len(SelectSeq(nonconst, LAMBDA s : ~s.varargs))
    IN  CASE blended ->
               \/ fields = None
               \/ IF spread # <<>> THEN Len(fields) >= fixed ELSE Len(fields) = Len(nonconst)
          [] ~blended /\ spread # <<>> /\ spread[1].const -> numPos >= Len(consts) - 1
          [] ~blended /\ spread # <<>> /\ ~spread[1].const ->
               /\ numPos >= Len(consts)
               /\ fields = None \/ Len(fields) >= Len(nonconst) - 1
          [] OTHER ->
               /\ numPos = Len(consts)
               /\ fields = None \/ nonconst = <<>> \/ Len(fields) = Len(nonconst)

(* Constants are scored by ordinal (the wire is dense), those of a         *)
(* constant varargs from its declared position on.                         *)
ConstScores(consts, spread, args) ==
    LET fixed == SelectSeq(consts, LAMBDA s : ~s.varargs)
        score(a, s) == IF a = None THEN 0 ELSE score_type(a.type, s)
        rest == IF spread # <<>> /\ spread[1].const /\ Positional(spread[1])
                THEN [k \in 1..(IF Len(args.positional) > spread[1].position
                                THEN Len(args.positional) - spread[1].position ELSE 0) |->
                         score(arg(args, spread[1].position + k - 1), spread[1])]
                ELSE <<>>
    IN  [k \in DOMAIN fixed |-> score(arg(args, k - 1), fixed[k])] \o rest

score_candidate(specs, blended, args, fields) ==
    LET consts == SelectSeq(specs, LAMBDA s : Positional(s) /\ s.const)
        nonconst == SelectSeq(specs, LAMBDA s : Positional(s) /\ ~s.const)
        spread == SelectSeq(specs, LAMBDA s : s.varargs)
        columns == IF fields = None THEN 0 ELSE score_columns(nonconst, spread, fields)
    IN  CASE ~CountsFit(consts, nonconst, spread, blended, args, fields) -> None
          [] blended /\ CountsFit(consts, nonconst, spread, blended, args, fields) -> columns
          [] OTHER -> SumScores(Append(ConstScores(consts, spread, args), columns))

(* resolve_overload: the first of the best candidates; a lone candidate is *)
(* not scored.  0 when every candidate is rejected.                        *)
resolve_overload(cands, blendedOf, args, fields) ==
    LET score == [i \in DOMAIN cands |-> score_candidate(cands[i], blendedOf[i], args, fields)]
        fit == {i \in DOMAIN cands : score[i] # None}
        best == {i \in fit : \A j \in fit : score[j] <= score[i]}
    IN  CASE Len(cands) = 1 -> 1
          [] Len(cands) # 1 /\ fit = {} -> 0
          [] OTHER -> CHOOSE i \in best : \A j \in best : i <= j

----------------------------------------------------------------------------
(* Validation at bind.                                                     *)

(* The index into the input schema is the declared position.               *)
validate_type_bounds(specs, fields) ==
    fields = None
    \/ \A s \in ToSet(specs) :
          (s.bound # None /\ Positional(s) /\ s.position < Len(fields))
              => Satisfies(fields[s.position + 1], s.bound)

has_value_constraints(s) ==
    s.ge # None \/ s.le # None \/ s.gt # None \/ s.lt # None \/ s.pattern # None \/ s.choices # {}

(* A number widened to a float.                                            *)
Hundredths(a) ==
    IF is_floating(a.type) THEN a.value
    ELSE a.value * 10^(2 - (IF is_decimal(a.type) THEN a.type[3] ELSE 0))

(* ConstValue: the views of a value, {} for a NULL or an absent one.       *)
ConstValue(a) ==
    CASE ~Given(a) -> {}
      [] Given(a) /\ is_string(a.type) -> {<<"s", a.value>>}
      [] Given(a) /\ is_multipliable(a.type) -> {<<"f", Hundredths(a)>>}
      [] Given(a) /\ a.type = <<"bool">> -> {<<"b", a.value>>}
      [] OTHER -> {}

Number(view) == {v[2] : v \in {w \in view : w[1] = "f"}}
String(view) == {v[2] : v \in {w \in view : w[1] = "s"}}

value_in_choices(view, choices) == view = {} \/ view \cap choices # {}

check_value(s, view) ==
    /\ \A x \in Number(view) :
          /\ s.ge # None => x >= 100 * s.ge
          /\ s.le # None => x <= 100 * s.le
          /\ s.gt # None => x > 100 * s.gt
          /\ s.lt # None => x < 100 * s.lt
    /\ s.choices # {} => value_in_choices(view, s.choices)
    /\ s.pattern # None => \A x \in String(view) : x \in s.pattern

(* A positional constant is read by position, a named one by name and,     *)
(* when it is absent, through its declared default.                        *)
validate_arg_constraints(specs, args) ==
    \A s \in ToSet(specs) :
        has_value_constraints(s) =>
            CASE Positional(s) ->
                    s.const => check_value(s, ConstValue(arg(args, s.position)))
              [] ~Positional(s) /\ s.name \in DOMAIN args.named ->
                    check_value(s, ConstValue(args.named[s.name]))
              [] ~Positional(s) /\ s.name \notin DOMAIN args.named /\ s.default # None ->
                    check_value(s, ConstValue(s.default))
              [] OTHER -> TRUE

(* How a bind that resolved an implementation answers: it asks for         *)
(* secrets, refuses the arguments, or binds.  Only a scalar checks type    *)
(* bounds, and it checks its arguments after the secrets, the other kinds  *)
(* before.                                                                 *)
BindAnswer(kind, specs, lookups, provided, args, fields) ==
    LET valid == validate_arg_constraints(specs, args)
        asks == ~provided /\ lookups # {}
    IN  CASE kind # "Scalar" -> IF ~valid THEN "refused" ELSE IF asks THEN "lookup" ELSE "bound"
          [] kind = "Scalar" ->
                IF asks THEN "lookup"
                ELSE IF validate_type_bounds(specs, fields) /\ valid THEN "bound" ELSE "refused"
=============================================================================
