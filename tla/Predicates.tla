------------------------------ MODULE Predicates ------------------------------
(***************************************************************************)
(* Pushed-down filters (vgi/src/pushdown.rs, pushdown/comparison.rs,       *)
(* pushdown/pruning.rs): what the parser accepts, what an expression       *)
(* evaluates to on a row, what the accessors tell a worker that skips data *)
(* and which candidates the pruning calls rule out.                        *)
(*                                                                         *)
(* An expression is a tree of records.  A row maps columns to values; a    *)
(* row with fewer columns is a candidate of which only those are known.    *)
(* BOOLEAN values are 1, 0 and Null; a text is a sequence of characters; a *)
(* struct value is a record of one field, x.  Arrays are looked at one row *)
(* at a time, so broadcasting a scalar is the identity.                    *)
(***************************************************************************)
EXTENDS Integers, Sequences, FiniteSets, SequencesExt

CONSTANTS
    Null,           \* SQL NULL
    Error,          \* the evaluation failed
    NaN,            \* the float that is no number
    None,           \* an absent value
    Schema,         \* column -> [type, dict, nullable]: the bind output schema
    MaxDepth,       \* MAX_DEPTH: nesting of one expression
    MaxNodes        \* MAX_NODES: expression nodes of one document

Columns == DOMAIN Schema
Ops == {"eq", "ne", "lt", "le", "gt", "ge", "distinct_from", "not_distinct_from"}
Numeric == {"int", "float"}

(* Expr: the nodes that reach evaluation.                                  *)
Column(c)         == [node |-> "column", name |-> c]
Field(e)          == [node |-> "field", expr |-> e]
Literal(t, v)     == [node |-> "literal", type |-> t, value |-> v]
Comparison(o, l, r) == [node |-> "comparison", op |-> o, left |-> l, right |-> r]
AllOf(es)         == [node |-> "and", children |-> es]
AnyOf(es)         == [node |-> "or", children |-> es]
Not(e)            == [node |-> "not", expr |-> e]
IsNull(e, neg)    == [node |-> "is_null", expr |-> e, negated |-> neg]
In(e, t, vs, neg) == [node |-> "in", expr |-> e, type |-> t, values |-> vs, negated |-> neg]
Cast(e, t)        == [node |-> "cast", expr |-> e, type |-> t]
Arithmetic(o, l, r) == [node |-> "arithmetic", op |-> o, left |-> l, right |-> r]
Negate(e)         == [node |-> "negate", expr |-> e]
Call(f, es)       == [node |-> "call", function |-> f, children |-> es]
RuntimeFilter     == [node |-> "runtime_filter"]

(* The expressions directly below one.                                     *)
Below(e) ==
    CASE e.node \in {"column", "literal", "runtime_filter"} -> <<>>
      [] e.node \in {"comparison", "arithmetic"}            -> <<e.left, e.right>>
      [] e.node \in {"and", "or", "call"}                   -> e.children
      [] OTHER                                              -> <<e.expr>>
-----------------------------------------------------------------------------
(* Types.  A dictionary column has the type of its values, but is itself   *)
(* no numeric type.                                                        *)

RECURSIVE ExprType(_)
ExprType(e) ==
    CASE e.node = "column"     -> Schema[e.name].type
      [] e.node = "field"      -> "int"
      [] e.node \in {"literal", "cast"} -> e.type
      [] e.node = "arithmetic" -> ExprType(e.left)
      [] e.node = "negate"     -> ExprType(e.expr)
      [] OTHER                 -> "bool"

IsDict(e) == e.node = "column" /\ Schema[e.name].dict
NumericType(e) == ExprType(e) \in Numeric /\ ~IsDict(e)

(* Dates, times and texts: a cast between two of them needs the session.   *)
RECURSIVE RequiresContext(_)
RequiresContext(e) ==
    \/ e.node = "arithmetic" /\ e.op \in {"divide", "modulo"}
    \/ e.node = "cast" /\ ExprType(e.expr) = "text" /\ e.type = "text"
    \/ \E k \in DOMAIN Below(e) : RequiresContext(Below(e)[k])

RECURSIVE Depth(_)
Depth(e) ==
    LET d == {Depth(Below(e)[k]) : k \in DOMAIN Below(e)}
    IN  1 + (IF d = {} THEN 0 ELSE CHOOSE m \in d : \A x \in d : x <= m)

RECURSIVE NodeCount(_)
NodeCount(e) == FoldLeft(LAMBDA n, c : n + NodeCount(c), 1, Below(e))

(* Parser::expression: the shapes of each node that are accepted.          *)

AcceptsRef(e) == IF e.node = "column" THEN e.name \in Columns ELSE ExprType(e.expr) = "struct"

AcceptsComparison(e) == e.op \in Ops /\ ExprType(e.left) = ExprType(e.right)

AcceptsJunction(e) ==
    /\ e.node = "not" \/ Len(Below(e)) >= 2
    /\ \A k \in DOMAIN Below(e) : ExprType(Below(e)[k]) = "bool" /\ ~IsDict(Below(e)[k])

(* The list must not be NULL (None here); it may be empty and hold NULLs.  *)
AcceptsIn(e) == e.values # None /\ ExprType(e.expr) = e.type

AcceptsArithmetic(e) ==
    /\ \A k \in DOMAIN Below(e) : NumericType(Below(e)[k])
    /\ e.node = "arithmetic" =>
            /\ e.op \in {"add", "subtract", "multiply", "divide", "modulo"}
            /\ ExprType(e.left) = ExprType(e.right)

AcceptsCall(e) ==
    /\ Len(e.children) = 2
    /\ \/ /\ e.function \in {"starts_with", "ends_with", "contains"}
          /\ \A k \in 1..2 : ExprType(e.children[k]) = "text" /\ ~IsDict(e.children[k])
       \/ /\ e.function = "list_contains"
          /\ ExprType(e.children[1]) = "list" /\ ExprType(e.children[2]) = "int"

AcceptsNode(e) ==
    CASE e.node \in {"column", "field"}      -> AcceptsRef(e)
      [] e.node = "comparison"               -> AcceptsComparison(e)
      [] e.node \in {"and", "or", "not"}     -> AcceptsJunction(e)
      [] e.node = "in"                       -> AcceptsIn(e)
      [] e.node \in {"arithmetic", "negate"} -> AcceptsArithmetic(e)
      [] e.node = "call"                     -> AcceptsCall(e)
      [] OTHER                               -> TRUE

(* A runtime filter may only be the root of a predicate.                   *)
RECURSIVE AcceptsExpression(_)
AcceptsExpression(e) ==
    /\ e.node # "runtime_filter"
    /\ \A k \in DOMAIN Below(e) : AcceptsExpression(Below(e)[k])
    /\ AcceptsNode(e)

(* validate_wire_schema, validate_batch, parse_context, validate_header:   *)
(* what a document must be before its predicates are read.  The evaluator  *)
(* offers no session context, and the empty one carries no settings.       *)
AcceptsDocument(doc, kind) ==
    /\ doc.small                                \* MAX_PAYLOAD, MAX_JSON
    /\ doc.rows = 1 /\ doc.specFirst /\ doc.payloadNames
    /\ doc.version /\ doc.context = "none" /\ ~doc.settings
    /\ doc.kind = kind

(* Parser::predicate.  No evaluation context but the empty one is accepted *)
(* (parse_context), so an expression that needs the session is refused; a  *)
(* delta may carry advisory predicates only.                               *)
AcceptsPredicate(p, delta) ==
    /\ p.mode = "advisory" \/ ~delta
    /\ p.expr = RuntimeFilter => p.mode = "advisory"
    /\ p.expr # RuntimeFilter =>
            /\ AcceptsExpression(p.expr)
            /\ Depth(p.expr) <= MaxDepth
            /\ ExprType(p.expr) = "bool" /\ ~IsDict(p.expr)
            /\ ~RequiresContext(p.expr)
-----------------------------------------------------------------------------
(* SQL comparison (comparison.rs).                                         *)

IeeeEq(a, b) == a # NaN /\ b # NaN /\ a = b
IeeeLt(a, b) == a # NaN /\ b # NaN /\ a < b

(* float_comparator!: NaN equals NaN and is above every other value.       *)
FloatHolds(op, a, b) ==
    LET same == IeeeEq(a, b) \/ (a = NaN /\ b = NaN)
    IN  CASE op \in {"eq", "not_distinct_from"} -> same
          [] op \in {"ne", "distinct_from"}     -> ~same
          [] op = "lt" -> IeeeLt(a, b) \/ (a # NaN /\ b = NaN)
          [] op = "le" -> IeeeLt(a, b) \/ IeeeEq(a, b) \/ b = NaN
          [] op = "gt" -> IeeeLt(b, a) \/ (a = NaN /\ b # NaN)
          [] op = "ge" -> IeeeLt(b, a) \/ IeeeEq(a, b) \/ a = NaN

(* What an ordering in {-1, 0, 1} says of each operator.                   *)
OrderHolds(op, order) ==
    CASE op \in {"eq", "not_distinct_from"} -> order = 0
      [] op \in {"ne", "distinct_from"}     -> order # 0
      [] op = "lt" -> order < 0
      [] op = "le" -> order <= 0
      [] op = "gt" -> order > 0
      [] op = "ge" -> order >= 0

IntOrder(a, b) == IF a < b THEN -1 ELSE IF a = b THEN 0 ELSE 1

(* make_comparator on structs: field by field, a NULL field first.         *)
NestedOrder(a, b) ==
    IF a.x = Null \/ b.x = Null
    THEN IF a.x = b.x THEN 0 ELSE IF a.x = Null THEN -1 ELSE 1
    ELSE IntOrder(a.x, b.x)

TextOrder(a, b) ==
    IF a = b THEN 0
    ELSE IF IsPrefix(a, b) THEN -1
    ELSE IF IsPrefix(b, a) THEN 1
    ELSE LET k == CHOOSE i \in 1..Len(a) : a[i] # b[i] /\ \A j \in 1..(i - 1) : a[j] = b[j]
         IN  IntOrder(a[k], b[k])

Holds(op, type, a, b) ==
    CASE type = "float"  -> FloatHolds(op, a, b)
      [] type = "struct" -> OrderHolds(op, NestedOrder(a, b))
      [] type = "text"   -> OrderHolds(op, TextOrder(a, b))
      [] OTHER           -> OrderHolds(op, IntOrder(a, b))

Truth(b) == IF b THEN 1 ELSE 0

(* finish_float and Arrow's kernels: NULL unless the operator is one of    *)
(* the two that compare NULLs.                                             *)
SqlCompare(op, type, a, b) ==
    IF a # Null /\ b # Null THEN Truth(Holds(op, type, a, b))
    ELSE CASE op = "distinct_from"     -> Truth((a = Null) # (b = Null))
           [] op = "not_distinct_from" -> Truth(a = Null /\ b = Null)
           [] OTHER                    -> Null
-----------------------------------------------------------------------------
(* Evaluation.                                                             *)

AndKleene(a, b) == IF a = 0 \/ b = 0 THEN 0 ELSE IF a = Null \/ b = Null THEN Null ELSE 1
OrKleene(a, b)  == IF a = 1 \/ b = 1 THEN 1 ELSE IF a = Null \/ b = Null THEN Null ELSE 0
NotKleene(a)    == IF a = Null THEN Null ELSE 1 - a

(* Arithmetic gives a Float64 array whatever its operands are.             *)
ArrayType(e) == IF e.node \in {"arithmetic", "negate"} THEN "float" ELSE ExprType(e)

(* arrow_cast::cast, the checked one: what does not convert is NULL.       *)
CastValue(from, to, v) ==
    IF v = Null THEN Null
    ELSE IF v = NaN /\ to = "int" THEN Null
    ELSE IF to = "bool" THEN Truth(v # 0) ELSE v

InList(type, v, values) ==
    FoldLeft(LAMBDA acc, x : OrKleene(acc, SqlCompare("eq", type, v, x)), 0, values)

Compute(op, a, b) ==
    IF a = Null \/ b = Null THEN Null
    ELSE IF a = NaN \/ b = NaN THEN NaN
    ELSE CASE op = "add" -> a + b [] op = "subtract" -> a - b [] op = "multiply" -> a * b

EvalCall(function, a, b) ==
    IF function = "list_contains" THEN Error
    ELSE IF a = Null \/ b = Null THEN Null
    ELSE Truth(CASE function = "starts_with" -> IsPrefix(b, a)
                 [] function = "ends_with"   -> IsSuffix(b, a)
                 [] function = "contains"    ->
                        \E k \in 0..(Len(a) - Len(b)) : SubSeq(a, k + 1, k + Len(b)) = b)

(* eval: nothing is short-circuited, so an error below is an error.        *)
RECURSIVE Eval(_, _)
Eval(e, row) ==
    LET sub == [k \in DOMAIN Below(e) |-> Eval(Below(e)[k], row)]
    IN  IF \E k \in DOMAIN sub : sub[k] = Error THEN Error
        ELSE CASE e.node = "column"  -> IF e.name \in DOMAIN row THEN row[e.name] ELSE Error
               [] e.node = "field"   -> IF sub[1] = Null THEN Null ELSE sub[1].x
               [] e.node = "literal" -> e.value
               [] e.node = "comparison" ->
                    IF ArrayType(e.left) # ArrayType(e.right) THEN Error
                    ELSE SqlCompare(e.op, ArrayType(e.left), sub[1], sub[2])
               [] e.node = "and"     -> FoldLeft(AndKleene, 1, sub)
               [] e.node = "or"      -> FoldLeft(OrKleene, 0, sub)
               [] e.node = "not"     -> NotKleene(sub[1])
               [] e.node = "is_null" -> Truth((sub[1] = Null) # e.negated)
               [] e.node = "in"      ->
                    IF ArrayType(e.expr) # e.type /\ e.values # <<>> THEN Error
                    ELSE IF e.negated THEN NotKleene(InList(e.type, sub[1], e.values))
                    ELSE InList(e.type, sub[1], e.values)
               [] e.node = "cast"    -> CastValue(ArrayType(e.expr), e.type, sub[1])
               [] e.node = "arithmetic" -> Compute(e.op, sub[1], sub[2])
               [] e.node = "negate"  -> Compute("subtract", 0, sub[1])
               [] e.node = "call"    -> EvalCall(e.function, sub[1], sub[2])
               [] OTHER              -> Error

(* PushdownFilters::evaluate: runtime filters are passed over, and so is   *)
(* an advisory predicate that fails; a required one fails the scan.        *)
Evaluate(filters, row) ==
    FoldLeft(LAMBDA acc, p :
                IF acc = Error \/ p.expr = RuntimeFilter THEN acc
                ELSE LET v == Eval(p.expr, row)
                     IN  IF v # Error THEN AndKleene(acc, v)
                         ELSE IF p.mode = "advisory" THEN acc ELSE Error,
             1, filters)

(* apply: the row is kept.                                                 *)
Apply(filters, row) == Evaluate(filters, row) = 1
=============================================================================
