---------------------------- MODULE MCFilterScan ----------------------------
(***************************************************************************)
(* Predicates over an integer, a float, a BOOLEAN, a dictionary, a text    *)
(* and a struct column: the simple ones, and their compositions.           *)
(***************************************************************************)
EXTENDS FilterScan

T(type, dict, nullable) == [type |-> type, dict |-> dict, nullable |-> nullable]
MCSchema == [n |-> T("int", FALSE, TRUE), f |-> T("float", FALSE, TRUE),
             flag |-> T("bool", FALSE, TRUE), k |-> T("int", TRUE, FALSE),
             t |-> T("text", FALSE, TRUE), s |-> T("struct", FALSE, TRUE)]
MCValues == [n |-> <<Null, -1, 0, 1, 2>>, f |-> <<Null, 0, 1, NaN>>, flag |-> <<Null, 0, 1>>,
             k |-> <<Null, 0, 1>>, t |-> <<Null, <<1>>, <<1, 2>>, <<2>>>>,
             s |-> <<Null, [x |-> Null], [x |-> 0], [x |-> 1]>>]

N == Column("n")
I(v) == Literal("int", v)
X == Field(Column("s"))
NoList == Call("list_contains", <<Literal("list", Null), I(1)>>)

OnN == {Comparison(o, N, I(v)) : o \in Ops, v \in {Null, 1}}
    \cup {Comparison(o, I(0), N) : o \in {"lt", "ge", "eq"}}
    \cup {IsNull(N, b) : b \in BOOLEAN}
    \cup {In(N, "int", vs, b) : vs \in {<<>>, <<0, 2>>, <<1, Null>>}, b \in BOOLEAN}

OnOthers ==
    {Comparison(o, Column("f"), Literal("float", v)) : o \in Ops, v \in {1, NaN}}
    \cup {Column("flag"), Not(Column("flag")), Literal("bool", Null), Literal("bool", 1)}
    \cup {Comparison("distinct_from", Column("flag"), Literal("bool", 1))}
    \cup {Comparison(o, Column("k"), I(0)) : o \in {"ne", "gt", "not_distinct_from"}}
    \cup {Comparison(o, N, Column("k")) : o \in {"lt", "not_distinct_from"}}
    \cup {Comparison(o, X, I(0)) : o \in {"eq", "ge"}} \cup {IsNull(X, FALSE)}
    \cup {Comparison("le", Column("s"), Literal("struct", [x |-> 0]))}
    \cup {Comparison("gt", Column("t"), Literal("text", <<1>>))}

Unsupported ==
    {NoList, Comparison("gt", Arithmetic("add", N, I(1)), I(1)),
     Comparison("gt", Arithmetic("add", Column("f"), Literal("float", 1)), Literal("float", 1)),
     Comparison("lt", Negate(Column("f")), Literal("float", 0)),
     Comparison("eq", Cast(Column("f"), "int"), I(1)), IsNull(Cast(N, "bool"), TRUE)}
    \cup {Call(c, <<Column("t"), Literal("text", <<1>>)>>) : c \in {"starts_with", "ends_with", "contains"}}

Refusable ==
    {In(N, "int", None, FALSE), N, Not(N), AllOf(<<Column("flag")>>), Comparison("eq", N, Literal("float", 1)),
     Comparison("like", N, I(1)), In(N, "float", <<1>>, FALSE), Field(N), Column("absent"),
     Comparison("gt", Arithmetic("divide", Column("f"), Literal("float", 1)), Literal("float", 1)),
     Comparison("eq", Cast(Column("t"), "text"), Literal("text", <<1>>)),
     AnyOf(<<RuntimeFilter, Column("flag")>>), RuntimeFilter}

Leaves == OnN \cup OnOthers \cup Unsupported
Pairs == {<<Comparison("lt", N, I(1)), b>> : b \in Leaves}
    \cup {<<a, b>> : a \in {IsNull(N, FALSE), In(N, "int", <<1, Null>>, TRUE)},
                     b \in OnN \cup Unsupported}
Compounds(pairs) == UNION {{AllOf(p), AnyOf(p), AnyOf(<<Not(p[1]), p[2]>>)} : p \in pairs}
Compound == Compounds(Pairs)
Delicate == Compounds({p \in Pairs : p[2] \in Unsupported})

Document(kind) == [small |-> TRUE, rows |-> 1, specFirst |-> TRUE, payloadNames |-> TRUE,
                   version |-> TRUE, context |-> "none", settings |-> FALSE, kind |-> kind]
MCDocuments == {Document("snapshot"), Document("delta"),
                [Document("delta") EXCEPT !.context = "session"]}

(* The mode of a predicate tells where it may fail or is not supported.    *)
Of(mode, es) == {[mode |-> mode, expr |-> e] : e \in es}
MCSnapshotPredicates ==
    Of("required", Leaves \cup Refusable \cup Compound)
    \cup Of("advisory", Leaves \cup Refusable \cup Delicate)
MCDeltaPredicates ==
    {[mode |-> "advisory", expr |-> e] : e \in
        {AllOf(<<Comparison("gt", N, I(1)), NoList>>), RuntimeFilter, N}}
    \cup {[mode |-> "required", expr |-> Column("flag")]}
=============================================================================
