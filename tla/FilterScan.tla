----------------------------- MODULE FilterScan -----------------------------
(***************************************************************************)
(* The filters of one scan as its worker sees them: the snapshot of the    *)
(* init request, and the deltas of later ticks (vgi/src/pushdown.rs).  The *)
(* snapshot has one predicate, "q"; deltas upsert and remove one advisory  *)
(* predicate, "d".  FilterHistory has the rules for many IDs.              *)
(*                                                                         *)
(* What a worker may skip (pushdown/pruning.rs) comes first: the accessors *)
(* that read values and bounds off the pushed predicates, and the typed    *)
(* domains and partial-row tests that are meant for pruning.               *)
(***************************************************************************)
EXTENDS Predicates

Castable(type) == type \notin {"struct", "list"}

(* The first value of a sequence that is not None.                         *)
FindMap(s) ==
    LET found == SelectSeq(s, LAMBDA x : x # None) IN IF found = <<>> THEN None ELSE found[1]
-----------------------------------------------------------------------------
(* Accessors (pushdown.rs).                                                *)

RECURSIVE CollectColumns(_)
CollectColumns(e) ==
    IF e.node = "column" THEN {e.name}
    ELSE UNION {CollectColumns(Below(e)[k]) : k \in DOMAIN Below(e)}

FilteredColumns(filters) == UNION {CollectColumns(filters[k].expr) : k \in DOMAIN filters}

Mentions(e, column) == column \in CollectColumns(e)

(* The column an operand is about: itself, or the struct of a field.       *)
RECURSIVE RootColumn(_)
RootColumn(e) ==
    CASE e.node = "column" -> e.name
      [] e.node = "field"  -> RootColumn(e.expr)
      [] OTHER             -> None

(* `flag` and `NOT flag` on a BOOLEAN column: the column and its constant. *)
BooleanColumnLeaf(e) ==
    LET inner == IF e.node = "not" THEN e.expr ELSE e
    IN  IF inner.node = "column" /\ ExprType(inner) = "bool" /\ ~IsDict(inner)
        THEN <<inner.name, Truth(e.node # "not")>> ELSE None

(* filter_view: the shape a worker sees, without the values.               *)
RECURSIVE FilterView(_)
FilterView(e) ==
    LET view(kind, c) == [kind |-> kind, column |-> c, children |-> <<>>]
        nested(kind)  == [kind |-> kind, column |-> None,
                          children |-> [k \in DOMAIN e.children |-> FilterView(e.children[k])]]
    IN  IF BooleanColumnLeaf(e) # None THEN view("constant", BooleanColumnLeaf(e)[1])
        ELSE CASE e.node = "comparison" -> view("constant", RootColumn(e.left))
               [] e.node = "in"         -> view("in", RootColumn(e.expr))
               [] e.node = "is_null"    -> view(IF e.negated THEN "is_not_null" ELSE "is_null",
                                               RootColumn(e.expr))
               [] e.node \in {"and", "or"} -> nested(e.node)
               [] e.node = "field"      -> view("struct", RootColumn(e.expr))
               [] OTHER                 -> view("other", RootColumn(e))

GetColumnFilters(filters, column) ==
    LET about == SelectSeq(filters, LAMBDA p : Mentions(p.expr, column))
    IN  [k \in DOMAIN about |-> FilterView(about[k].expr)]

(* Mutant: any comparison with a literal fixes the value.                  *)
Mut_ConstantFor(e, column) ==
    IF e.node = "comparison" /\ RootColumn(e.left) = column
    THEN IF e.right.node = "literal" THEN <<e.right.value>> ELSE None
    ELSE LET leaf == BooleanColumnLeaf(e)
         IN  IF leaf # None /\ leaf[1] = column THEN <<leaf[2]>> ELSE None

ConstantFor(e, column) ==
    IF e.node = "comparison" /\ e.op = "eq" /\ RootColumn(e.left) = column
    THEN IF e.right.node = "literal" THEN <<e.right.value>> ELSE None
    ELSE LET leaf == BooleanColumnLeaf(e)
         IN  IF leaf # None /\ leaf[1] = column THEN <<leaf[2]>> ELSE None

InValuesFor(e, column) ==
    IF e.node = "in" /\ ~e.negated /\ RootColumn(e.expr) = column THEN e.values ELSE None

(* The first child of a conjunction that fixes values will do; every child *)
(* of a disjunction must.                                                  *)
RECURSIVE ValuesFor(_, _)
ValuesFor(e, column) ==
    CASE e.node = "and" -> FindMap([k \in DOMAIN e.children |-> ValuesFor(e.children[k], column)])
      [] e.node = "or"  ->
            LET each == [k \in DOMAIN e.children |-> ValuesFor(e.children[k], column)]
            IN  IF \E k \in DOMAIN each : each[k] = None THEN None ELSE FlattenSeq(each)
      [] OTHER -> IF ConstantFor(e, column) # None THEN ConstantFor(e, column)
                  ELSE InValuesFor(e, column)

GetColumnValues(filters, column) ==
    FindMap([k \in DOMAIN filters |-> ValuesFor(filters[k].expr, column)])
GetColumnInValues(filters, column) ==
    FindMap([k \in DOMAIN filters |-> InValuesFor(filters[k].expr, column)])
GetColumnConstant(filters, column) ==
    FindMap([k \in DOMAIN filters |-> ConstantFor(filters[k].expr, column)])

(* array_values_i64: the values that are valid after a cast to Int64.  The *)
(* cast of a text that is no numeral is NULL; a struct has no such cast.   *)
ValuesI64(type, values) ==
    IF values = None \/ ~Castable(type) THEN None
    ELSE SelectSeq(values, LAMBDA v : type # "text" /\ v # Null /\ v # NaN)

GetColumnValuesI64(filters, column) ==
    ValuesI64(Schema[column].type, GetColumnValues(filters, column))

Flipped(op) ==
    CASE op = "gt" -> "lt" [] op = "ge" -> "le" [] op = "lt" -> "gt" [] op = "le" -> "ge"
      [] OTHER -> op

(* collect_constant_filters: the comparisons that constrain every row.     *)
RECURSIVE CollectConstantFilters(_)
CollectConstantFilters(e) ==
    LET filter(c, op, v) == <<[column |-> c, op |-> op, value |-> v]>>
        leaf == BooleanColumnLeaf(e)
    IN  IF leaf # None THEN filter(leaf[1], "eq", leaf[2])
        ELSE IF e.node = "and"
        THEN FlattenSeq([k \in DOMAIN e.children |-> CollectConstantFilters(e.children[k])])
        ELSE IF e.node # "comparison" THEN <<>>
        ELSE IF e.left.node = "column" /\ e.right.node = "literal"
        THEN filter(e.left.name, e.op, e.right.value)
        ELSE IF e.left.node = "literal" /\ e.right.node = "column"
        THEN filter(e.right.name, Flipped(e.op), e.left.value)
        ELSE <<>>

ConstantFilters(filters) ==
    FlattenSeq([k \in DOMAIN filters |-> CollectConstantFilters(filters[k].expr)])
-----------------------------------------------------------------------------
(* Integer bounds (get_column_bounds).  A bound of one side is None.       *)

ArrayBounds(type, values) ==
    LET v == ToSet(ValuesI64(type, values))
    IN  IF ~Castable(type) \/ v = {} THEN None
        ELSE [min |-> CHOOSE m \in v : \A x \in v : m <= x,
              max |-> CHOOSE m \in v : \A x \in v : x <= m]

LiteralBound(op, e, reversed) ==
    LET way == IF reversed THEN Flipped(op) ELSE op
    IN  IF e.node # "literal" \/ ValuesI64(e.type, <<e.value>>) \in {None, <<>>} THEN None
        ELSE CASE way = "eq" -> [min |-> e.value, max |-> e.value]
               [] way = "gt" -> [min |-> e.value + 1, max |-> None]
               [] way = "ge" -> [min |-> e.value, max |-> None]
               [] way = "lt" -> [min |-> None, max |-> e.value - 1]
               [] way = "le" -> [min |-> None, max |-> e.value]
               [] OTHER      -> None

Greater(a, b) == IF a = None THEN b ELSE IF b = None THEN a ELSE IF a < b THEN b ELSE a
Smaller(a, b) == IF a = None THEN b ELSE IF b = None THEN a ELSE IF a < b THEN a ELSE b
IntersectBounds(l, r) == [min |-> Greater(l.min, r.min), max |-> Smaller(l.max, r.max)]

UnionBounds(l, r) ==
    [min |-> IF None \in {l.min, r.min} THEN None ELSE Smaller(l.min, r.min),
     max |-> IF None \in {l.max, r.max} THEN None ELSE Greater(l.max, r.max)]

Reduce(op(_, _), s) == IF s = <<>> THEN None ELSE FoldLeft(op, s[1], Tail(s))

RECURSIVE BoundsFor(_, _)
BoundsFor(e, column) ==
    CASE e.node = "comparison" ->
            IF RootColumn(e.left) = column THEN LiteralBound(e.op, e.right, FALSE)
            ELSE IF RootColumn(e.right) = column THEN LiteralBound(e.op, e.left, TRUE)
            ELSE None
      [] e.node = "in" ->
            IF ~e.negated /\ RootColumn(e.expr) = column THEN ArrayBounds(e.type, e.values) ELSE None
      [] e.node = "and" ->
            Reduce(IntersectBounds, SelectSeq([k \in DOMAIN e.children |->
                        BoundsFor(e.children[k], column)], LAMBDA b : b # None))
      [] e.node = "or" ->
            LET each == [k \in DOMAIN e.children |-> BoundsFor(e.children[k], column)]
            IN  IF \E k \in DOMAIN each : each[k] = None THEN None ELSE Reduce(UnionBounds, each)
      [] OTHER -> None

GetColumnBounds(filters, column) ==
    Reduce(IntersectBounds, SelectSeq([k \in DOMAIN filters |-> BoundsFor(filters[k].expr, column)],
                                      LAMBDA b : b # None))

(* column_summary: how many discrete values, and the bounds.               *)
ColumnSummary(filters, column) ==
    LET values == GetColumnValuesI64(filters, column)
        bounds == GetColumnBounds(filters, column)
    IN  <<IF values = None THEN 0 ELSE Len(values),
          IF bounds = None THEN None ELSE bounds.min, IF bounds = None THEN None ELSE bounds.max>>
-----------------------------------------------------------------------------
(* Typed domains (pruning.rs): a hull of the non-NULL values, and NULL.    *)

Unbounded == [kind |-> "unbounded", value |-> None]
Included(v) == [kind |-> "included", value |-> v]
Excluded(v) == [kind |-> "excluded", value |-> v]

Domain(nn, lo, hi, null) == [nn |-> nn, lo |-> lo, hi |-> hi, null |-> null]
EmptyOf(u)     == Domain("empty", Unbounded, Unbounded, FALSE)
OnlyNull(u)    == Domain("empty", Unbounded, Unbounded, u.null)
WithoutNull(u) == [u EXCEPT !.null = FALSE]
RangeOf(lo, hi) == Domain("range", lo, hi, FALSE)

ScalarOrder(type, a, b) ==
    IF SqlCompare("eq", type, a, b) = 1 THEN 0
    ELSE IF SqlCompare("lt", type, a, b) = 1 THEN -1 ELSE 1

(* Mutant: an excluded point ranks above an included one on both sides.    *)
Mut_ChooseBound(type, l, r, lower, maximum) ==
    LET first == IF lower THEN -1 ELSE 1
        ex(b) == Truth(b.kind = "excluded")
        order == CASE l = Unbounded /\ r = Unbounded -> 0
                   [] l = Unbounded /\ r # Unbounded -> first
                   [] l # Unbounded /\ r = Unbounded -> -first
                   [] OTHER ->
                        IF ScalarOrder(type, l.value, r.value) # 0
                        THEN ScalarOrder(type, l.value, r.value) ELSE ex(l) - ex(r)
    IN  IF (order > 0) = maximum THEN l ELSE r

(* The tighter or the looser of two bounds on the same side.               *)
ChooseBound(type, l, r, lower, maximum) ==
    LET first == IF lower THEN -1 ELSE 1
        ex(b) == Truth(b.kind = "excluded")
        order == CASE l = Unbounded /\ r = Unbounded -> 0
                   [] l = Unbounded /\ r # Unbounded -> first
                   [] l # Unbounded /\ r = Unbounded -> -first
                   [] OTHER ->
                        IF ScalarOrder(type, l.value, r.value) # 0
                        THEN ScalarOrder(type, l.value, r.value)
                        ELSE IF lower THEN ex(l) - ex(r) ELSE ex(r) - ex(l)
    IN  IF (order > 0) = maximum THEN l ELSE r

(* The range between two bounds, normalised.                               *)
RangeBetween(type, lo, hi) ==
    LET order == ScalarOrder(type, lo.value, hi.value)
    IN  IF lo = Unbounded /\ hi = Unbounded THEN Domain("all", lo, hi, FALSE)
        ELSE IF lo = Unbounded \/ hi = Unbounded THEN RangeOf(lo, hi)
        ELSE IF order > 0 \/ (order = 0 /\ "excluded" \in {lo.kind, hi.kind})
        THEN Domain("empty", Unbounded, Unbounded, FALSE) ELSE RangeOf(lo, hi)

CombineRanges(type, a, b, intersection) ==
    RangeBetween(type, ChooseBound(type, a.lo, b.lo, TRUE, intersection),
                       ChooseBound(type, a.hi, b.hi, FALSE, ~intersection))

(* ColumnDomain::combine: the intersection, or the hull of the union.      *)
Combine(type, a, b, intersection) ==
    LET absorbing == IF intersection THEN "empty" ELSE "all"
        neutral   == IF intersection THEN "all" ELSE "empty"
        hull == IF absorbing \in {a.nn, b.nn} THEN Domain(absorbing, Unbounded, Unbounded, FALSE)
                ELSE IF a.nn = neutral THEN b
                ELSE IF b.nn = neutral THEN a
                ELSE CombineRanges(type, a, b, intersection)
    IN  [hull EXCEPT !.null = IF intersection THEN a.null /\ b.null ELSE a.null \/ b.null]

(* may_contain: a non-NULL value against the range, NULL against the flag. *)
MayContain(type, d, v) ==
    LET above == CASE d.lo.kind = "unbounded" -> TRUE
                   [] d.lo.kind = "included"  -> SqlCompare("ge", type, v, d.lo.value) = 1
                   [] d.lo.kind = "excluded"  -> SqlCompare("gt", type, v, d.lo.value) = 1
        below == CASE d.hi.kind = "unbounded" -> TRUE
                   [] d.hi.kind = "included"  -> SqlCompare("le", type, v, d.hi.value) = 1
                   [] d.hi.kind = "excluded"  -> SqlCompare("lt", type, v, d.hi.value) = 1
    IN  IF v = Null THEN d.null ELSE d.nn # "empty" /\ above /\ below

IsEmptyDomain(d) == d.nn = "empty" /\ ~d.null
-----------------------------------------------------------------------------
(* The domains of a column in the rows where an expression is true, false  *)
(* and NULL: a function on the three truth values.                         *)

Truths == {1, 0, Null}

TruthOf(l, r, and) == IF and THEN AndKleene(l, r) ELSE OrKleene(l, r)

Anywhere(u) == [t \in Truths |-> u]
ConstantDomains(outcome, u) == [t \in Truths |-> IF t = outcome THEN u ELSE EmptyOf(u)]
Swapped(ds) == [t \in Truths |-> IF t = Null THEN ds[Null] ELSE ds[1 - t]]

(* combine_domains: every pair of truth values, gathered by what it makes  *)
(* of the connective; t is the value that leaves the other one as it is.   *)
CombineDomains(type, l, r, and, u) ==
    LET t == Truth(and)
        f == 1 - t
        Both(a, b) == Combine(type, l[a], r[b], TRUE)
        Either(c, d) == Combine(type, c, d, FALSE)
    IN  [o \in Truths |->
            CASE o = t -> Both(t, t)
              [] o = f -> Either(Either(Both(f, f), Either(Both(f, t), Both(f, Null))),
                                 Either(Both(t, f), Both(Null, f)))
              [] o = Null -> Either(Both(Null, Null), Either(Both(t, Null), Both(Null, t)))]

(* The types with a scalar order: not structs, not lists.                  *)
Ordered(type) == type \notin {"struct", "list"}

ThreeDomains(yes, no, unknown) ==
    [t \in Truths |-> IF t = 1 THEN yes ELSE IF t = 0 THEN no ELSE unknown]

ComparisonDomains(op, type, v, u) ==
    LET nullSafe == op \in {"distinct_from", "not_distinct_from"}
        point    == RangeOf(Included(v), Included(v))
        yes == CASE op \in {"eq", "not_distinct_from"} -> point
                 [] op \in {"ne", "distinct_from"} -> WithoutNull(u)
                 [] op = "lt" -> RangeOf(Unbounded, Excluded(v))
                 [] op = "le" -> RangeOf(Unbounded, Included(v))
                 [] op = "gt" -> RangeOf(Excluded(v), Unbounded)
                 [] op = "ge" -> RangeOf(Included(v), Unbounded)
        no  == CASE op \in {"eq", "not_distinct_from"} -> WithoutNull(u)
                 [] op \in {"ne", "distinct_from"} -> point
                 [] op = "lt" -> RangeOf(Included(v), Unbounded)
                 [] op = "le" -> RangeOf(Excluded(v), Unbounded)
                 [] op = "gt" -> RangeOf(Unbounded, Included(v))
                 [] op = "ge" -> RangeOf(Unbounded, Excluded(v))
        withNull(d, b) == [d EXCEPT !.null = IF b THEN u.null ELSE @]
    IN  IF ~Ordered(type) THEN Anywhere(u)
        ELSE IF v = Null
        THEN CASE op = "distinct_from"     -> ThreeDomains(WithoutNull(u), OnlyNull(u), EmptyOf(u))
               [] op = "not_distinct_from" -> ThreeDomains(OnlyNull(u), WithoutNull(u), EmptyOf(u))
               [] OTHER                    -> ConstantDomains(Null, u)
        ELSE ThreeDomains(withNull(yes, op = "distinct_from"), withNull(no, op = "not_distinct_from"),
                          IF nullSafe THEN EmptyOf(u) ELSE OnlyNull(u))

Target(e, column) == e.node = "column" /\ e.name = column

(* What the expression says of the column; an unsupported one says nothing.*)
RECURSIVE DomainsOf(_, _, _)
DomainsOf(e, column, u) ==
    LET type == Schema[column].type
    IN  CASE e.node \in {"and", "or"} ->
                FoldLeft(LAMBDA ds, c : CombineDomains(type, ds, DomainsOf(c, column, u), e.node = "and", u),
                         ConstantDomains(Truth(e.node = "and"), u), e.children)
          [] e.node = "not" -> Swapped(DomainsOf(e.expr, column, u))
          [] e.node = "comparison" ->
                IF Target(e.left, column) THEN
                    IF e.right.node = "literal" THEN ComparisonDomains(e.op, type, e.right.value, u)
                    ELSE Anywhere(u)
                ELSE IF Target(e.right, column) /\ e.left.node = "literal"
                THEN ComparisonDomains(Flipped(e.op), type, e.left.value, u)
                ELSE Anywhere(u)
          [] e.node = "is_null" ->
                IF ~Target(e.expr, column) THEN Anywhere(u)
                ELSE LET ds == ThreeDomains(OnlyNull(u), WithoutNull(u), EmptyOf(u))
                     IN  IF e.negated THEN Swapped(ds) ELSE ds
          [] e.node = "in" ->
                IF ~Target(e.expr, column) THEN Anywhere(u)
                ELSE LET ds == FoldLeft(LAMBDA acc, v :
                                    CombineDomains(type, acc, ComparisonDomains("eq", type, v, u), FALSE, u),
                                    ConstantDomains(0, u), e.values)
                     IN  IF e.negated THEN Swapped(ds) ELSE ds
          [] e.node = "column" ->
                IF Target(e, column) /\ type = "bool" THEN ComparisonDomains("eq", type, 1, u)
                ELSE Anywhere(u)
          [] e.node = "literal" -> IF e.type = "bool" THEN ConstantDomains(e.value, u) ELSE Anywhere(u)
          [] OTHER -> Anywhere(u)

RECURSIVE SimpleValue(_)
SimpleValue(e) == e.node \in {"column", "literal"} \/ (e.node = "field" /\ SimpleValue(e.expr))

(* The expressions that cannot fail and whose order is known.              *)
RECURSIVE Supported(_)
Supported(e) ==
    CASE e.node \in {"and", "or"} -> \A k \in DOMAIN e.children : Supported(e.children[k])
      [] e.node = "not"        -> Supported(e.expr)
      [] e.node = "comparison" -> SimpleValue(e.left) /\ SimpleValue(e.right) /\ Ordered(ExprType(e.left))
      [] e.node = "in"         -> SimpleValue(e.expr) /\ Ordered(ExprType(e.expr))
      [] e.node = "is_null"    -> SimpleValue(e.expr)
      [] e.node \in {"column", "field", "literal"} -> SimpleValue(e) /\ ExprType(e) = "bool"
      [] OTHER -> FALSE

(* Exact evaluation passes over an advisory predicate that fails, so one   *)
(* that is not supported throughout must not restrict pruning either.      *)
Prunes(p) == p.mode = "required" \/ Supported(p.expr)

Universe(column) ==
    Domain("all", Unbounded, Unbounded, Schema[column].nullable \/ Schema[column].dict)

ColumnDomain(filters, column) ==
    LET u == Universe(column)
    IN  FoldLeft(LAMBDA d, p : Combine(Schema[column].type, d, DomainsOf(p.expr, column, u)[1], TRUE),
                 u, SelectSeq(filters, Prunes))
-----------------------------------------------------------------------------
(* Candidate rows of which some columns are known: the set of truth values *)
(* an expression may still take.                                           *)

TruthSets(l, r, and) == {TruthOf(a, b, and) : a \in l, b \in r}
NegateSet(s) == {NotKleene(t) : t \in s}

RECURSIVE Available(_, _)
Available(e, known) ==
    CASE e.node = "column"  -> e.name \in DOMAIN known
      [] e.node = "literal" -> TRUE
      [] e.node \in {"field", "is_null", "in", "comparison"} ->
            \A k \in DOMAIN Below(e) : Available(Below(e)[k], known)
      [] OTHER -> FALSE

RECURSIVE Partial(_, _)
Partial(e, known) ==
    CASE e.node \in {"and", "or"} ->
            FoldLeft(LAMBDA s, c : TruthSets(s, Partial(c, known), e.node = "and"),
                     {Truth(e.node = "and")}, e.children)
      [] e.node = "not" -> NegateSet(Partial(e.expr, known))
      [] OTHER -> IF Supported(e) /\ Available(e, known) THEN {Eval(e, known)} ELSE Truths

(* Mutant: advisory predicates that are not supported rule candidates out. *)
Mut_MayMatch(filters, known) ==
    1 \in FoldLeft(LAMBDA s, p : TruthSets(s, Partial(p.expr, known), TRUE), {1}, filters)

(* The candidate columns may_match accepts: of the bind schema, and with   *)
(* no NULL where the field is not nullable.  A dictionary's NULL values    *)
(* do not show in the array's own NULL count.                              *)
AcceptsKnown(known) ==
    \A c \in DOMAIN known :
        c \in Columns /\ (known[c] = Null => Schema[c].nullable \/ Schema[c].dict)

MayMatch(filters, known) ==
    1 \in FoldLeft(LAMBDA s, p : TruthSets(s, Partial(p.expr, known), TRUE), {1},
                   SelectSeq(filters, Prunes))

-----------------------------------------------------------------------------
CONSTANTS
    SnapshotPredicates,  \* [mode, expr]: what the init request may carry
    DeltaPredicates,     \* what a delta may carry
    Documents,           \* the documents predicates come in
    Values,              \* column -> sequence of the values its rows take
    PrunedCounts               \* row counts of the pruned fixture

VARIABLES
    phase,               \* "new", "open" or "refused"
    filters              \* the predicates in evaluation order: [id, mode, expr]

scanVars == <<phase, filters>>

ScanStart == phase = "new" /\ filters = <<>>

AcceptsOne(doc, kind, p) ==
    /\ AcceptsDocument(doc, kind)
    /\ AcceptsPredicate(p, kind = "delta")
    /\ NodeCount(p.expr) <= MaxNodes

(* parse_snapshot_batch.                                                   *)
ParseSnapshot(doc, p) ==
    /\ phase = "new"
    /\ LET ok == AcceptsOne(doc, "snapshot", p)
       IN  /\ phase' = IF ok THEN "open" ELSE "refused"
           /\ filters' = IF ok THEN <<[id |-> "q", mode |-> p.mode, expr |-> p.expr]>> ELSE <<>>

(* apply_delta: a refused delta changes nothing.                           *)
Upsert(doc, p) ==
    /\ phase = "open"
    /\ filters' = IF AcceptsOne(doc, "delta", p)
                  THEN Append(SelectSeq(filters, LAMBDA q : q.id # "d"),
                              [id |-> "d", mode |-> p.mode, expr |-> p.expr])
                  ELSE filters
    /\ UNCHANGED phase

RemoveDelta(doc) ==
    /\ phase = "open"
    /\ filters' = IF AcceptsDocument(doc, "delta")
                  THEN SelectSeq(filters, LAMBDA q : q.id # "d") ELSE filters
    /\ UNCHANGED phase

ScanStep ==
    \E doc \in Documents :
        \/ \E p \in SnapshotPredicates : ParseSnapshot(doc, p)
        \/ \E p \in DeltaPredicates : Upsert(doc, p)
        \/ RemoveDelta(doc)

FilterSpec == ScanStart /\ [][ScanStep]_scanVars
-----------------------------------------------------------------------------
(* value_prune (vgi-example-worker/src/table/filters.rs): the values of n  *)
(* the filters name, in range, or the whole sequence.                      *)
ValuePrune(count) ==
    LET discrete == GetColumnValuesI64(filters, "n")
    IN  IF discrete = None THEN 0..(count - 1)
        ELSE {v \in ToSet(discrete) : v >= 0 /\ v < count}
-----------------------------------------------------------------------------
(* The rows that differ in the columns the filters mention.                *)
RowsOf(columns) ==
    LET width(c) == DOMAIN Values[c]
        picks == {i \in [columns -> UNION {width(c) : c \in columns}] :
                    \A c \in columns : i[c] \in width(c)}
    IN  {[c \in columns |-> Values[c][i[c]]] : i \in picks}

Rows == RowsOf(FilteredColumns(filters))
Narrow(row, columns) == [c \in columns |-> row[c]]

(* column_domain never excludes a value of a row that the filters keep,    *)
(* whatever NULLs, excluded endpoints, NaNs, reversed operands, negations  *)
(* and failing advisory predicates they are made of.                       *)
DomainSound ==
    \A c \in FilteredColumns(filters) : \E d \in {ColumnDomain(filters, c)} :
        \A row \in Rows : Apply(filters, row) => MayContain(Schema[c].type, d, row[c])

(* may_match never rules out a candidate that becomes a kept row once its  *)
(* unknown columns are read, and is exact when every column is known and   *)
(* every predicate is supported.                                           *)
CandidateSound ==
    \A row \in Rows :
        /\ Apply(filters, row) =>
                \A known \in SUBSET DOMAIN row :
                    AcceptsKnown(Narrow(row, known)) => MayMatch(filters, Narrow(row, known))
        /\ (\A k \in DOMAIN filters : Supported(filters[k].expr)) =>
                (MayMatch(filters, row) <=> Apply(filters, row))

(* The predicates the row was tested against: an advisory one that failed  *)
(* says nothing of it.                                                     *)
Tested(row) == \A k \in DOMAIN filters : Eval(filters[k].expr, row) # Error

(* What the accessors report holds of every row that passed: a discrete    *)
(* value list has its value, the integer bounds hold it, and each constant *)
(* comparison, reversed or bare BOOLEAN ones included, is true of it.  So  *)
(* value_prune, which reads no other row, loses none.                      *)
AccessorsSound ==
    /\ \A row \in Rows : (Apply(filters, row) /\ Tested(row)) =>
        /\ \A c \in {c \in DOMAIN row : Schema[c].type # "struct"} :
            LET type   == Schema[c].type
                values == GetColumnValues(filters, c)
                bounds == GetColumnBounds(filters, c)
            IN  /\ values # None =>
                        \E k \in DOMAIN values : SqlCompare("eq", type, row[c], values[k]) = 1
                /\ (bounds # None /\ type = "int") =>
                        /\ bounds.min # None => row[c] >= bounds.min
                        /\ bounds.max # None => row[c] <= bounds.max
        /\ \A k \in DOMAIN ConstantFilters(filters) :
            LET f == ConstantFilters(filters)[k]
            IN  SqlCompare(f.op, Schema[f.column].type, row[f.column], f.value) = 1
        /\ \A count \in PrunedCounts :
            ("n" \in DOMAIN row /\ row["n"] # Null /\ row["n"] \in 0..(count - 1))
                => row["n"] \in ValuePrune(count)

(* Pruning loses nothing: a row that the pushed filters accept is in the   *)
(* domain derived for each column, is a candidate of every pruning helper  *)
(* and agrees with what the accessors report (pushdown.rs, pruning).       *)
PruningSound == DomainSound /\ CandidateSound /\ AccessorsSound
=============================================================================
