-------------------------- MODULE ProducerFunctions --------------------------
(***************************************************************************)
(* The table functions of the example worker                               *)
(* (vgi-example-worker/src/table).  A function is described by what a scan *)
(* of it depends on: how many rows it has, in which batches it gives them, *)
(* which fields of its producer a continuation token carries, what it puts *)
(* on a batch (cache advertisement, batch index, partition values) and     *)
(* what it declares about its result (cardinality, statistics, order,      *)
(* partitioning).  A row is its position in the whole result; its leading  *)
(* value is base + position * step.  Sizes are the ones of the source.     *)
(***************************************************************************)
EXTENDS Integers, Sequences, FiniteSets

CONSTANTS
    None,     \* an absent value
    Null      \* a value given as SQL NULL

(* Reading an optional argument: absent and NULL both fall to the default. *)
Val(x, d) == IF x \in {None, Null} THEN d ELSE x
AtLeast(b, x) == IF x < b THEN b ELSE x
Less(x, y) == IF x < y THEN x ELSE y
CeilDiv(x, y) == (x + y - 1) \div y

(* The arguments of a call; each function reads the ones it declares.      *)
NoArgs == [n |-> None, stop |-> None, batch |-> None, inc |-> None, chunk |-> None, ttl |-> None]

(* A producer over `count` rows that carries its offset and declares       *)
(* nothing; every function below says where it differs.                    *)
Plain ==
    [ok |-> TRUE, prod |-> "offset", count |-> 0, batch |-> 1, base |-> 0, step |-> 1,
     saves |-> {"pos"}, resumable |-> TRUE, ends |-> "done", adv |-> "never",
     work |-> <<>>, workers |-> 1, tag |-> "never", ordered |-> FALSE,
     max |-> None, stats |-> None, kind |-> None, stride |-> 0, pv |-> FALSE,
     project |-> TRUE, cols |-> <<"n">>, emits |-> "full"]

Refused == [Plain EXCEPT !.ok = FALSE]

(* Producers with two counters, with one flag, with no position of their   *)
(* own, and functions the client pushes no projection into.                *)
Counted(f) == [f EXCEPT !.prod = "remcur", !.saves = {"pos", "left"}]
OneBatch(f) == [f EXCEPT !.prod = "flag", !.saves = {"done"}]
Unresumable(f) == [f EXCEPT !.saves = {}, !.resumable = FALSE]
Unprojected(f) == [f EXCEPT !.project = FALSE]

(* The items of the work queue: [pid, from, to] over [0, rows).            *)
Items(rows, chunk) ==
    [i \in 1..CeilDiv(rows, chunk) |->
        [pid |-> i - 1, from |-> (i - 1) * chunk, to |-> Less(i * chunk, rows)]]

(* One item per partition, `rows` rows each, none when rows is 0.          *)
Partitions(n, rows) ==
    [i \in 1..n |-> [pid |-> i - 1, from |-> (i - 1) * rows, to |-> i * rows]]
-----------------------------------------------------------------------------
(* table/mod.rs                                                            *)

(* validate_sequence_args: the count is given and not NULL, batch_size and *)
(* increment are not NULL when given and then at least 1.                  *)
ValidateSequenceArgs(a) ==
    /\ a.n \notin {None, Null}
    /\ a.batch # Null /\ a.inc # Null
    /\ a.batch # None => a.batch >= 1
    /\ a.inc # None => a.inc >= 1

(* The generators of mod.rs apply pushed filters and narrow to the pushed  *)
(* projection in the dispatcher.                                           *)
SequenceFunction(a) ==
    IF ~ValidateSequenceArgs(a) THEN Refused
    ELSE LET count == AtLeast(0, a.n)
             inc   == Val(a.inc, 1)
             top   == IF count = 0 THEN 0 ELSE (count - 1) * inc
         IN  [Plain EXCEPT !.count = count, !.batch = AtLeast(1, Val(a.batch, 1000)),
                           !.step = inc, !.max = a.n, !.stats = <<Less(0, top), AtLeast(0, top)>>]

(* The counters that EXPLAIN ANALYZE reports travel with the cursor.       *)
ProfilingDemoFunction(a) ==
    [Plain EXCEPT !.prod = "profile", !.count = AtLeast(0, Val(a.n, 0)),
                  !.batch = AtLeast(1, Val(a.batch, 2048)), !.step = Val(a.inc, 1),
                  !.saves = {"pos", "rows", "batches"}, !.max = Val(a.n, None),
                  !.adv = IF a.ttl = None THEN "never" ELSE "counter"]

LateMaterializationFunction(a) ==
    [Plain EXCEPT !.count = AtLeast(0, Val(a.n, 0)), !.batch = AtLeast(1, Val(a.batch, 2048)),
                  !.max = Val(a.n, None), !.cols = <<"row_id", "ord", "payload", "pushed">>]

(* on_bind: the value some bind of this transaction stored for the key     *)
(* first (a.stop) wins over this call's seed; the producer emits it.       *)
TxCachedValueFunction(a) ==
    Unprojected([Plain EXCEPT !.count = 1, !.base = IF a.stop # None THEN a.stop ELSE Val(a.n, 0),
                              !.max = 1, !.cols = <<"v">>])

NestedSequenceFunction(a) ==
    OneBatch([Plain EXCEPT !.count = AtLeast(0, Val(a.n, 0)), !.max = Val(a.n, None),
                           !.cols = <<"n", "metadata", "history">>])

TenThousandFunction(a) == [Plain EXCEPT !.count = 10000, !.batch = 1000, !.max = 10000]

MakeSeries(variant, a) ==
    LET from == IF variant = "Count" THEN 0 ELSE Val(a.n, 0)
        to   == IF variant = "Count" THEN Val(a.n, 0) ELSE Val(a.stop, 0)
        step == IF variant = "Step" THEN AtLeast(1, Val(a.inc, 1)) ELSE 1
    IN  [Plain EXCEPT !.count = IF to <= from THEN 0 ELSE CeilDiv(to - from, step),
                      !.batch = 1024, !.base = from, !.step = step, !.cols = <<"value">>]

(* The integers of the list that parse; the others are dropped.            *)
MakeSeriesCsv(a) == [Plain EXCEPT !.count = Val(a.n, 0), !.batch = 1024, !.cols = <<"value">>]

MakeSeriesFloat(a) ==
    OneBatch([Plain EXCEPT !.count = 10, !.step = Val(a.inc, 1), !.cols = <<"value">>])
-----------------------------------------------------------------------------
(* table/more.rs                                                           *)

GeneratorExceptionFunction(a) ==
    Unprojected([Plain EXCEPT !.count = AtLeast(0, Val(a.n, 0)), !.ends = "error"])

LoggingGeneratorFunction(a) == Unprojected([Plain EXCEPT !.count = AtLeast(0, Val(a.n, 0))])

(* Every row is the same, so only the number still to come is a position.  *)
ConstantColumnsFunction(a) ==
    Unprojected([Plain EXCEPT !.prod = "rem", !.count = AtLeast(0, Val(a.n, 0)), !.batch = 2048,
                              !.step = 0, !.saves = {"left"}, !.max = Val(a.n, None),
                              !.cols = <<"col_0", "col_1">>, !.emits = "projected"])

ProjectedDataFunction(a) ==
    Counted([Plain EXCEPT !.count = AtLeast(0, Val(a.n, 0)), !.batch = 1000,
                          !.max = Val(a.n, None), !.cols = <<"id", "name", "value", "extra">>,
                          !.emits = "projected"])

OrderEchoFunction(a) ==
    Counted([Plain EXCEPT !.count = AtLeast(0, Val(a.n, 0)),
                          !.batch = AtLeast(1, Val(a.batch, 2048)), !.max = Val(a.n, None),
                          !.cols = <<"n", "s", "order_column", "order_direction",
                                     "order_null_order", "order_limit">>,
                          !.emits = "projected"])

SampleEchoFunction(a) ==
    Unprojected(Counted([Plain EXCEPT
        !.count = AtLeast(0, Val(a.n, 0)), !.batch = AtLeast(1, Val(a.batch, 2048)),
        !.max = Val(a.n, None), !.emits = "projected",
        !.cols = <<"n", "s", "sample_percentage", "sample_seed">>]))

DoubleSequenceFunction(a) ==
    LET count == AtLeast(0, Val(a.n, 0))
        top   == IF count = 0 THEN 0 ELSE (count - 1) * Val(a.inc, 1)
    IN  Unprojected([Plain EXCEPT
            !.count = count, !.batch = AtLeast(1, Val(a.batch, 1000)),
            !.step = Val(a.inc, 1), !.max = Val(a.n, None),
            !.stats = IF Val(a.n, None) = None THEN None ELSE <<Less(0, top), AtLeast(0, top)>>])

MakePairs(variant, a) ==
    Unprojected(OneBatch([Plain EXCEPT
        !.count = IF variant = "Int" THEN AtLeast(0, Val(a.stop, 0) - Val(a.n, 0)) ELSE 5,
        !.base = IF variant = "Str" THEN 0 ELSE Val(a.n, 0),
        !.cols = <<"a", "b">>, !.emits = "projected"]))

(* One row per vararg; the cardinality counts the arguments.               *)
UnionVarargsFunction(a) ==
    Unprojected(OneBatch([Plain EXCEPT !.count = Val(a.n, 0), !.max = Val(a.n, 0),
                                       !.cols = <<"idx", "tag", "value">>]))

RepeatValue(a) ==
    Unprojected(OneBatch([Plain EXCEPT !.count = AtLeast(0, Val(a.n, 0)), !.step = 0,
                                       !.cols = <<"v0", "v1">>, !.emits = "projected"]))
-----------------------------------------------------------------------------
(* table/cancellable.rs, projection.rs, proj_repro.rs, typed_probe.rs      *)

SlowCancellableFunction(a) ==
    Unprojected(Counted([Plain EXCEPT !.count = AtLeast(0, Val(a.n, 1000000))]))

(* projection(): of the proposed expressions, those the worker evaluates   *)
(* itself.  Each is one column after the source column; a scan that asks   *)
(* for one without the accepted state (a.n absent) is refused.             *)
AcceptedExpressions(offered) == {i \in DOMAIN offered : offered[i] = "cast_n_bigint_utc"}

ProjectionSequence(offered, a) ==
    LET accepted == AcceptedExpressions(offered)
    IN  IF accepted # {} /\ a.n = None THEN Refused
        ELSE OneBatch([Plain EXCEPT !.count = 10, !.emits = "projected",
                                    !.cols = IF accepted = {} THEN <<"n">> ELSE <<"n", "cast">>])

WideColumns ==
    <<"topic", "partition", "offset", "timestamp", "timestamp_type", "key", "key_string",
      "key_schema_id", "value", "value_string", "value_schema_id", "headers">>

ProjRepro(chunk, a) ==
    LET n == AtLeast(0, Val(a.n, 0))
    IN  [Plain EXCEPT !.count = n, !.batch = IF chunk > 0 THEN chunk ELSE AtLeast(1, n),
                      !.max = Val(a.n, None), !.cols = WideColumns]

TypedProbeFunction(a) ==
    Unprojected(Counted([Plain EXCEPT !.count = AtLeast(0, Val(a.n, 0)), !.batch = 2048,
                                      !.max = Val(a.n, None),
                                      !.cols = <<"idx", "ts_us", "iv_ms", "payload", "ub", "f">>]))
=============================================================================
