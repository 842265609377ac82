----------------------------- MODULE MCFunctions -----------------------------
(***************************************************************************)
(* The functions of a worker: how they are registered, listed and found    *)
(* (Dispatch), scalar calls (ScalarCalls), aggregates (Aggregation), the   *)
(* sink-and-drain functions (Buffering) and the accumulate catalog         *)
(* (Accumulate).  A behaviour is one of one part, chosen at the start; its *)
(* variables are in the slots s1 to s11.                                   *)
(***************************************************************************)
EXTENDS Integers, Sequences

CONSTANTS None, Failed, ScalarCallSets,
          DefaultName, Instances, Models, Secondaries, Hideable, SchemaPaths, ReproApp, ReproNames, MaxListings, MaxFunctions,
          t1, t2, Threads, Groups, Inputs, TextInputs, Target, Width,
          NA, Key, OrderedN, WideRows, SinkThreads, Queries,
          Procs, AccCalls, MaxAcc, MaxClock, Schemas, OutBatchRows, Overlaps

VARIABLES part, s1, s2, s3, s4, s5, s6, s7, s8, s9, s10, s11

Names == INSTANCE Dispatch
    WITH registry <- s1, scopes <- s2, model <- s3, secondary <- s4, hidden <- s5, listings <- s6,
         aborted <- s7, Schemas <- SchemaPaths
Scalars == INSTANCE ScalarCalls
    WITH call <- s1, phase <- s2, bound <- s3, secrets <- s4, given <- s5, out <- s6, held <- s7,
         Calls <- ScalarCallSets
ScalarInputs == INSTANCE MCScalarCalls
    WITH call <- s1, phase <- s2, bound <- s3, secrets <- s4, given <- s5, out <- s6, held <- s7, Calls <- <<>>
Agg == INSTANCE Aggregation
    WITH fn <- s1, input <- s2, done <- s3, call <- s4, kv <- s5, merged <- s6, phase <- s7, result <- s8,
         raced <- s9
Buf == INSTANCE Buffering
    WITH q <- s1, phase <- s2, kv <- s3, log <- s4, nextId <- s5, sink <- s6, ids <- s7, prod <- s8,
         out <- s9, file <- s10, dropped <- s11
Fixtures == INSTANCE Buffering
    WITH q <- s1, phase <- s2, kv <- s3, log <- s4, nextId <- s5, sink <- s6, ids <- s7, prod <- s8,
         out <- s9, file <- s10, dropped <- s11, Queries <- {}
Acc == INSTANCE Accumulate
    WITH overlap <- s1, clock <- s2, schema <- s3, segs <- s4, pr <- s5, made <- s6, hist <- s7, exact <- s8,
         dir <- s9

-----------------------------------------------------------------------------
(* A worker that registers a name as two overloads in main, as a scalar of *)
(* another schema, as a table function and as two aggregates, a COPY       *)
(* format that reads and writes under one handler name, table-in-out       *)
(* functions good and bad and a scalar of their name, and a function of    *)
(* the projection app; that renames its catalog and adopts names into a    *)
(* secondary.                                                              *)
Home(catalog, schema) == [catalog |-> catalog, schema |-> <<schema>>]
I64 == <<"int64">>
Text == <<"utf8">>
Instance(id, kind, name, home, type) ==
    [id |-> id, kind |-> kind, name |-> name, home |-> home, type |-> type, copy |-> None,
     takes |-> IF kind = "Table" THEN "constant" ELSE "column",
     blended |-> FALSE, finish |-> FALSE, resume |-> FALSE, workers |-> 0, per_call |-> None]
MCInstances ==
    {Instance(1, "Scalar", "f", None, I64), Instance(2, "Scalar", "f", None, Text),
     Instance(3, "Scalar", "f", Home("example", "data"), I64),
     Instance(4, "Table", "f", None, I64), Instance(5, "Aggregate", "f", None, I64),
     [Instance(6, "Table", "csv", None, Text) EXCEPT !.copy = "from"],
     [Instance(7, "Buffering", "csv", None, Text) EXCEPT !.copy = "to"],
     [Instance(8, "TableInOut", "g", Home("extra", "main"), I64) EXCEPT !.blended = TRUE, !.per_call = 1],
     [Instance(9, "TableInOut", "g", None, Text) EXCEPT !.takes = "constant", !.blended = TRUE],
     [Instance(10, "TableInOut", "g", Home("extra", "main"), Text) EXCEPT !.resume = TRUE, !.workers = 1],
     Instance(11, "Scalar", "g", None, I64), Instance(12, "Aggregate", "f", None, Text),
     Instance(13, "Table", "proj_repro", None, I64)}
MCSecondaries == {[name |-> "extra", functions |-> {"f", "csv"}]}
MCModels == {"example"}
MCHideable == {"f"}
MCSchemaPaths == {<<"main">>, <<"data">>}

(* Two threads with up to three rows in two groups, NULLs among them; the  *)
(* first row's group is called 1.                                          *)
Row(g, v, w) == [g |-> g, v |-> v, w |-> w]
Rows(pairs) == {Row(g, p[1], p[2]) : g \in {1, 2}, p \in pairs}
Over(rows) == {[t \in {t1, t2} |-> IF t = t1 THEN a ELSE b] :
                 a \in {<<x, y>> : x \in {r \in rows : r.g = 1}, y \in rows}, b \in {<<>>} \cup {<<x>> : x \in rows}}
MCInputs == Over(Rows({<<None, 1>>, <<1, None>>, <<3, 2>>}))
MCTextInputs == Over(Rows({<<None, 1>>, <<"a", 1>>, <<"", 1>>}))

(* Three batches on two threads, with a NULL; every function of the        *)
(* example worker, every cache behaviour, and the option combinations of a *)
(* COPY TO that tell its branches apart.                                   *)
Opts == [null_string |-> NA, delimiter |-> ",", header |-> TRUE, header_repeat |-> 2,
         on_exists |-> "overwrite", fail_on_value |-> None]

MCSource == <<[idx |-> 1, rows |-> <<<<1, 5>>, <<2, None>>>>],
              [idx |-> 2, rows |-> <<<<3, 1>>>>],
              [idx |-> 3, rows |-> <<<<1, 5>>>>]>>

Query(f, schema, source, opts, secret, exists, match, http, lost) ==
    [fn |-> f, schema |-> schema, source |-> source, opts |-> opts, secret |-> secret, exists |-> exists,
     match |-> match, http |-> http, lost |-> lost]

MCQueries ==
    {Query(f, s, source, None, None, FALSE, match, http, lost) :
        f \in Fixtures!BufferingFixtures, source \in {MCSource, <<>>}, s \in {<<"int32", "decimal">>, <<"text", "text">>},
        match \in BOOLEAN, http \in BOOLEAN, lost \in SUBSET {"outsc", "insc"} \cup {{"rows"}}}
    \cup
    {Query(f, <<"int32", "decimal">>, source, o, secret, exists, FALSE, FALSE, lost) :
        f \in Fixtures!CopyToFixtures, source \in {MCSource, <<>>}, secret \in {None, Key}, exists \in BOOLEAN, lost \in {{}, {"insc"}, {"rows"}, {"disk"}},
        o \in {Opts, [Opts EXCEPT !.null_string = None], [Opts EXCEPT !.delimiter = ""],
               [Opts EXCEPT !.header_repeat = 4], [Opts EXCEPT !.on_exists = "error"],
               [Opts EXCEPT !.fail_on_value = 3], [Opts EXCEPT !.header = FALSE]}}

(* Appends with and without a limit and a lifetime, reads and clears.      *)
Base == [op |-> "accumulate", schema |-> "a", rows |-> 2, ttl |-> None, max |-> 0, result |-> "all"]
MCAccCalls ==
    {Base, [Base EXCEPT !.schema = "b", !.result = "new"],
     [Base EXCEPT !.max = 3], [Base EXCEPT !.ttl = 1, !.rows = 1], [Base EXCEPT !.rows = 0, !.result = "none", !.max = 1],
     [Base EXCEPT !.op = "read"], [Base EXCEPT !.op = "clear"]}

(* Calls of every scalar fixture.                                          *)
MCScalarCallSets == ScalarInputs!MCCalls
-----------------------------------------------------------------------------
ASSUME AccAssumption == Acc!AccConstants

MCInit ==
    \/ part = "names" /\ Names!Init /\ s8 = 0 /\ s9 = 0 /\ s10 = 0 /\ s11 = 0
    \/ part = "scalars" /\ Scalars!Init /\ s8 = 0 /\ s9 = 0 /\ s10 = 0 /\ s11 = 0
    \/ part = "aggregates" /\ Agg!AggInit /\ s10 = 0 /\ s11 = 0
    \/ part = "buffering" /\ Buf!BufInit
    \/ part = "accumulate" /\ Acc!AccInit /\ s10 = 0 /\ s11 = 0

NamesNext == part = "names" /\ Names!Next /\ UNCHANGED <<part, s8, s9, s10, s11>>
ScalarsNext == part = "scalars" /\ Scalars!Next /\ UNCHANGED <<part, s8, s9, s10, s11>>
AggNext == part = "aggregates" /\ Agg!AggNext /\ UNCHANGED <<part, s10, s11>>
BufNext == part = "buffering" /\ Buf!BufNext /\ UNCHANGED part
AccNext == part = "accumulate" /\ Acc!AccNext /\ UNCHANGED <<part, s10, s11>>

MCNext == NamesNext \/ ScalarsNext \/ AggNext \/ BufNext \/ AccNext

(* Whatever a listing advertises, a bind reaches; and a function           *)
(* registered without a home stays bindable.                               *)
NamesResolve == part = "names" => Names!AdvertisedBinds /\ Names!DefaultsReachable

(* A scalar call binds the implementation that its arguments name, with    *)
(* the constants where they were written.                                  *)
BoundAsWritten == part = "scalars" => Scalars!BoundAsWritten

(* A scalar call answers each row by itself, and sums exactly.             *)
RowsExact == part = "scalars" => Scalars!RowsExact

(* Merged, windowed and streaming evaluation of an aggregate agree.        *)
EvaluationsAgree == part = "aggregates" => Agg!EvaluationsAgree

(* A sink-and-drain function returns, or writes, all that was sunk.        *)
BufferingExact == part = "buffering" => Buf!BufferingExact

(* A collection holds what the calls that have returned left in it.        *)
CollectionSound == part = "accumulate" => Acc!CollectionSound
=============================================================================
