---------------------------- MODULE Aggregation -----------------------------
(***************************************************************************)
(* One aggregation of the engine over the worker's RPCs (dispatch.rs,      *)
(* handle_aggregate_*; the calls are vgi-client/src/aggregate.rs).  States *)
(* live in the execution's part of the worker storage under their group id *)
(* (agg_key), and a handler, of whichever pooled worker answers, reads and *)
(* writes them with one storage call per group.  Which ids and executions  *)
(* its threads use is the engine's choice:                                 *)
(*   "partials"   one execution; a thread folds its rows into group ids of *)
(*                its own, which are then combined into the target groups; *)
(*   "shared"     one execution; the threads fold into the target groups,  *)
(*                and their updates of a group may overlap;                *)
(*   "executions" an execution per thread, as vgi-client/src/aggregate.rs  *)
(*                describes; combine names one execution only.             *)
(* The target groups are finalized and the executions released.            *)
(*                                                                         *)
(* A streaming aggregation sends its rows in chunks, each of which carries *)
(* the running sums on.                                                    *)
(*                                                                         *)
(* The aggregates of the example worker (aggregate/mod.rs) are operators.  *)
(* A state is what the code serializes; None is a group with no state.     *)
(* An i64 wraps at Width bits; an f64 is an integer, which it represents   *)
(* exactly; a text is the sequence of the parts the commas separate.       *)
(***************************************************************************)
EXTENDS Integers, Sequences, FiniteSetsExt, SequencesExt, FiniteSets

CONSTANTS None, Width

Half == 2 ^ (Width - 1)

Wrap(x) == ((x + Half) % (2 ^ Width)) - Half

\* arrow_cast to an integer type: a value out of range becomes NULL.
Cast(x, ty) == IF ty = "int" /\ x \notin -Half..(Half - 1) THEN None ELSE x

NullAsZero(x) == IF x = None THEN 0 ELSE x

-----------------------------------------------------------------------------
(* The functions: the state they keep, what a row adds to it, the answer   *)
(* for a group without a state, and the type on_bind declares.             *)

Fn(state, row, absent, type) == [state |-> state, row |-> row, absent |-> absent, type |-> type]

VgiSum == Fn("i64", "value", None, "int")

\* vgi_count counts NULLs too, and answers for a group it never saw.
CountFunction == Fn("i64", "one", 0, "int")

AvgFunction == Fn("avg", "value_one", None, "double")

WeightedSumFunction == Fn("f64", "product", None, "double")

\* The result has the type of the input column.
GenericSumFunction == Fn("f64", "value", None, "input")

\* DOUBLE or BIGINT, as a secret says.
SecretTypedSumFunction == Fn("f64", "value", None, "secret")

\* A row of NULLs still gives its group a state.
SumAllFunction == Fn("f64", "all_columns", None, "double")

ListAggFunction == Fn("text", "text", None, "varchar")

PercentileFunction == Fn("values", "text", None, "double")

WindowSumFunction == Fn("i64", "value", None, "int")

WindowSumBatchFunction == WindowSumFunction

\* Only window() computes anything.
WindowMedianFunction == Fn("none", "nothing", None, "double")

WindowListAggFunction == Fn("text", "text", None, "varchar")

StreamingSumFunction == Fn("i64", "value", None, "int")

Registered ==
    [vgi_sum |-> VgiSum, vgi_count |-> CountFunction, vgi_avg |-> AvgFunction,
     vgi_weighted_sum |-> WeightedSumFunction, vgi_generic_sum |-> GenericSumFunction,
     secret_typed_sum |-> SecretTypedSumFunction, vgi_sum_all |-> SumAllFunction,
     vgi_listagg |-> ListAggFunction, vgi_percentile |-> PercentileFunction,
     vgi_window_sum |-> WindowSumFunction, vgi_window_sum_batch |-> WindowSumBatchFunction,
     vgi_window_median |-> WindowMedianFunction, vgi_window_listagg |-> WindowListAggFunction,
     vgi_streaming_sum |-> StreamingSumFunction]

Texts == {"vgi_listagg", "vgi_window_listagg"}

\* What one row adds, None for a row the function passes over.
Contribution(f, row) ==
    LET kind == Registered[f].row
    IN  CASE kind = "one" -> 1
          [] kind = "all_columns" -> NullAsZero(row.v) + NullAsZero(row.w)
          [] kind = "nothing" \/ (kind \notin {"one", "all_columns"} /\ row.v = None) -> None
          [] kind = "value" /\ row.v # None -> row.v
          [] kind = "value_one" /\ row.v # None -> <<row.v, 1>>
          [] kind = "product" /\ row.v # None -> IF row.w = None THEN None ELSE row.v * row.w
          [] kind = "text" /\ row.v # None -> <<row.v>>

\* Nothing was appended, or only empty strings first.
IsEmptyText(t) == t \in {<<>>, <<"">>}

InitialState(f) ==
    CASE Registered[f].state \in {"i64", "f64"} -> 0
      [] Registered[f].state = "avg" -> <<0, 0>>
      [] OTHER -> <<>>

\* combine of two states; update folds in a contribution the same way, but for
\* an empty string, which it appends to a text that is not empty.
Merge(f, t, s) ==
    CASE Registered[f].state = "i64" -> Wrap(t + s)
      [] Registered[f].state = "f64" -> t + s
      [] Registered[f].state = "avg" -> <<t[1] + s[1], t[2] + s[2]>>
      [] Registered[f].state = "values" -> t \o s
      [] Registered[f].state = "text" -> IF IsEmptyText(t) THEN s ELSE t \o s
      [] Registered[f].state = "none" -> t

Combine(f, t, s) == IF f \in Texts /\ IsEmptyText(s) THEN t ELSE Merge(f, t, s)

\* update for one row: a group gets a state when a value is folded in, not before.
Update(f, st, row) ==
    LET c == Contribution(f, row)
    IN  IF c = None THEN st
        ELSE Merge(f, IF st = None THEN InitialState(f) ELSE st, c)

Sorted(s) == SortSeq(s, <)

\* The percentile, in halves; None is a literal NULL.
Percentiles == {None, -1, 0, 1, 2, 3}

PercentileFails(pct) == pct = None \/ pct \notin 0..2

FinalizePct(s, pct) == Sorted(s)[Min({(pct * Len(s)) \div 2, Len(s) - 1}) + 1]

\* finalize of the state of one group, if it has one.
Finalize(f, st, pct, ty) ==
    LET fn == Registered[f]
    IN  CASE st = None \/ fn.state = "none" -> fn.absent
          [] st # None /\ fn.state = "avg" -> IF st[2] > 0 THEN st ELSE None
          [] st # None /\ fn.state = "values" -> IF st = <<>> THEN None ELSE FinalizePct(st, pct)
          [] st # None /\ fn.state = "text" -> IF IsEmptyText(st) THEN None ELSE st
          [] st # None /\ fn.type \in {"input", "secret"} -> Cast(st, ty)
          [] OTHER -> st

-----------------------------------------------------------------------------
(* window()                                                                *)

Clamp(x, n) == Min({Max({x, 0}), n})

Mut_Selected(rows, frames, mask) ==
    FlattenSeq([k \in 1..Len(frames) |->
        LET from == Clamp(frames[k][1], Len(rows)) + 1
            to == Clamp(frames[k][2] + 1, Len(rows))
            Keep(i) == rows[i].v # None /\ mask[i]
        IN  [j \in 1..Cardinality({i \in from..to : Keep(i)}) |->
               rows[CHOOSE i \in from..to : Keep(i)
                        /\ Cardinality({h \in from..i : Keep(h)}) = j].v]])

\* The rows a list of sub-frames and the mask select, in the order read.
Selected(rows, frames, mask) ==
    FlattenSeq([k \in 1..Len(frames) |->
        LET from == Clamp(frames[k][1], Len(rows)) + 1
            to == Clamp(frames[k][2], Len(rows))
            Keep(i) == rows[i].v # None /\ mask[i]
        IN  [j \in 1..Cardinality({i \in from..to : Keep(i)}) |->
               rows[CHOOSE i \in from..to : Keep(i)
                        /\ Cardinality({h \in from..i : Keep(h)}) = j].v]])

Window(f, rows, frames, mask) ==
    LET s == Selected(rows, frames, mask)
        n == Len(s)
    IN  CASE s = <<>> -> None
          [] s # <<>> /\ f \in {"vgi_window_sum", "vgi_window_sum_batch"} ->
                Wrap(FoldLeft(LAMBDA a, b : a + b, 0, s))
          [] s # <<>> /\ f = "vgi_window_median" ->  \* doubled
                IF n % 2 = 1 THEN 2 * Sorted(s)[n \div 2 + 1]
                ELSE Sorted(s)[n \div 2] + Sorted(s)[n \div 2 + 1]
          [] s # <<>> /\ f = "vgi_window_listagg" -> s

\* handle_aggregate_window_batch: the frames of each row, from flattened arrays.
SplitFrames(flat, perRow) ==
    [r \in 1..Len(perRow) |->
        LET off == FoldLeft(LAMBDA a, b : a + b, 0, SubSeq(perRow, 1, r - 1))
        IN  [k \in 1..perRow[r] |->
               IF off + k <= Len(flat) THEN flat[off + k] ELSE <<0, 0>>]]

\* The key of row i of a chunk: a column of these types goes in by its value, any
\* other by its type and the position of the row.
KeyedTypes == {"int32", "int64", "utf8", "large_utf8"}

stream_row_key(ty, k, i) ==
    CASE k = None -> <<0>>
      [] k # None /\ ty \in KeyedTypes -> <<1, k>>
      [] OTHER -> <<1, ty, i>>

Running(states, key) == IF key \in DOMAIN states THEN states[key] ELSE 0

With(states, key, v) ==
    [k \in DOMAIN states \cup {key} |-> IF k = key THEN v ELSE states[k]]

Mut_StreamingRow(acc, row) ==
    LET key == stream_row_key(acc.ty, row.k, Len(acc.out))
        next == Wrap(Running(acc.states, key) + row.v)
    IN  IF row.v = None THEN [acc EXCEPT !.out = Append(@, 0)]
        ELSE [acc EXCEPT !.out = Append(@, next), !.states = With(@, key, next)]

\* streaming_chunk: the running sum of each row's partition, and the states left.
StreamingRow(acc, row) ==
    LET key == stream_row_key(acc.ty, row.k, Len(acc.out))
        next == Wrap(Running(acc.states, key) + row.v)
    IN  IF row.v = None THEN [acc EXCEPT !.out = Append(@, Running(acc.states, key))]
        ELSE [acc EXCEPT !.out = Append(@, next), !.states = With(@, key, next)]

StreamingChunk(ty, rows, states) ==
    FoldLeft(StreamingRow, [ty |-> ty, out |-> <<>>, states |-> states], rows)

-----------------------------------------------------------------------------
CONSTANTS Threads, Groups,
          Inputs,      \* the rows the threads may have, numbers...
          TextInputs,  \* ... or strings
          Target    \* names the owner of the target groups and of the first execution

VARIABLES fn,      \* the function, its bind arguments, and what the engine does
          input,   \* the rows of each thread; rows are [g, v, w]
          done,    \* how many of them its finished calls carried
          call,    \* the handler running for each thread
          kv,      \* the storage scope of the execution
          merged,  \* pairs (thread, group) already combined
          phase,   \* of the engine: "update", "combine", "finalize", "failed", "destroyed"
          result,  \* what finalize answered
          raced    \* groups of which two updates overlapped

aggVars == <<fn, input, done, call, kv, merged, phase, result, raced>>

\* The group id the engine has for group g in thread t, and its target group.
PartialId(t, g) == IF fn.engine = "shared" THEN <<Target, g>> ELSE <<t, g>>

TargetId(g) == <<Target, g>>

\* The execution a thread's updates name; combine and finalize name Target's.
Execution(t) == IF fn.engine = "executions" THEN t ELSE Target

\* A storage scope is an execution's; in it a key is the group id alone.
AggKey(execution, id) == <<execution, id>>

\* "aggargs", which is the key of no group.
AggArgs == AggKey(Target, <<Target, 0>>)

\* The pairs the engine combines.
Partials == IF fn.engine = "shared" THEN {} ELSE Threads \X Groups

NoCall == [op |-> "none", rows |-> <<>>, states |-> <<>>]

Bind(f, p, ty, engine) == [name |-> f, pct |-> p, ty |-> ty, engine |-> engine]

Binds == {Bind(f, 1, "int", "partials") : f \in DOMAIN Registered}
         \cup {Bind(f, 1, "int", "shared") : f \in DOMAIN Registered \ Texts}
         \cup {Bind(f, 1, "int", "executions") : f \in {"vgi_sum", "vgi_avg"}}
         \cup {Bind("vgi_percentile", p, "double", "partials") : p \in Percentiles}
         \cup {Bind("secret_typed_sum", 1, "double", "partials")}

\* aggregate_bind mints the execution and keeps its arguments for finalize.
AggInit ==
    /\ fn \in Binds
    /\ input \in IF fn.name \in Texts THEN TextInputs ELSE Inputs
    /\ done = [t \in Threads |-> 0]
    /\ call = [t \in Threads |-> NoCall]
    /\ kv = [x \in {AggArgs} |-> fn.pct]
    /\ merged = {}
    /\ phase = "update"
    /\ result = None
    /\ raced = {}

Get(k) == IF k \in DOMAIN kv THEN kv[k] ELSE None

Put(k, v) == [x \in DOMAIN kv \cup {k} |-> IF x = k THEN v ELSE kv[x]]

GroupsOf(rows) == {rows[i].g : i \in DOMAIN rows}

GroupKey(t, g) == AggKey(Execution(t), PartialId(t, g))

Mut_Preload(t, rows) ==
    [g \in GroupsOf(rows) |->
        IF Get(GroupKey(t, g)) = None THEN InitialState(fn.name) ELSE Get(GroupKey(t, g))]

\* Only states that exist are loaded; update creates the others.
Preload(t, rows) == [g \in GroupsOf(rows) |-> Get(GroupKey(t, g))]

\* Thread u has read the state of t's group g and not stored it yet.
Storing(u, t, g) ==
    /\ call[u].op = "update"
    /\ g \in DOMAIN call[u].states
    /\ GroupKey(u, g) = GroupKey(t, g)

\* handle_aggregate_update: load the batch's groups, fold its rows...
UpdateLoad(t) ==
    /\ phase = "update"
    /\ call[t] = NoCall
    /\ \E n \in 1..(Len(input[t]) - done[t]) :
         LET rows == SubSeq(input[t], done[t] + 1, done[t] + n)
             loaded == Preload(t, rows)
             folded == [g \in GroupsOf(rows) |->
                          FoldLeft(LAMBDA st, row : IF row.g = g THEN Update(fn.name, st, row)
                                                    ELSE st, loaded[g], rows)]
         IN  /\ call' = [call EXCEPT ![t] = [op |-> "update", rows |-> rows, states |-> folded]]
             /\ raced' = raced \cup {g \in GroupsOf(rows) : \E u \in Threads : Storing(u, t, g)}
    /\ UNCHANGED <<fn, input, done, kv, merged, phase, result>>

\* ... and store one state after the other.
UpdatePut(t) ==
    /\ call[t].op = "update"
    /\ \E g \in DOMAIN call[t].states :
         /\ kv' = IF call[t].states[g] = None THEN kv ELSE Put(GroupKey(t, g), call[t].states[g])
         /\ IF DOMAIN call[t].states = {g}
            THEN /\ call' = [call EXCEPT ![t] = NoCall]
                 /\ done' = [done EXCEPT ![t] = @ + Len(call[t].rows)]
            ELSE /\ call' = [call EXCEPT ![t].states =
                               [h \in DOMAIN @ \ {g} |-> call[t].states[h]]]
                 /\ UNCHANGED done
    /\ UNCHANGED <<fn, input, merged, phase, result, raced>>

\* The engine combines once every thread has sent its rows.
UpdatesDone ==
    /\ phase = "update"
    /\ \A t \in Threads : call[t] = NoCall /\ done[t] = Len(input[t])
    /\ phase' = "combine"
    /\ UNCHANGED <<fn, input, done, call, kv, merged, result, raced>>

\* A group absent on both sides stays absent.
Merged(target, source) ==
    CASE source = None -> target
      [] source # None /\ target = None -> source
      [] OTHER -> Combine(fn.name, target, source)

\* handle_aggregate_combine for one pair: read both, then write the target.
\* Thread t merges the groups of a partition, so a group has one merger.
CombineLoad(t) ==
    /\ phase = "combine"
    /\ call[t] = NoCall
    /\ \E s \in Threads, g \in Groups :
         /\ <<s, g>> \in Partials \ merged
         /\ \A u \in Threads : call[u].op = "combine" => call[u].rows[2] # g
         /\ call' = [call EXCEPT ![t] = [op |-> "combine", rows |-> <<s, g>>,
                        states |-> Merged(Get(AggKey(Target, TargetId(g))),
                                          Get(AggKey(Target, PartialId(s, g))))]]
    /\ UNCHANGED <<fn, input, done, kv, merged, phase, result, raced>>

CombinePut(t) ==
    /\ call[t].op = "combine"
    /\ kv' = IF call[t].states = None THEN kv
             ELSE Put(AggKey(Target, TargetId(call[t].rows[2])), call[t].states)
    /\ merged' = merged \cup {call[t].rows}
    /\ call' = [call EXCEPT ![t] = NoCall]
    /\ UNCHANGED <<fn, input, done, phase, result, raced>>

\* handle_aggregate_finalize, with the arguments the bind stored.
AggFinalize ==
    /\ phase = "combine"
    /\ merged = Partials
    /\ IF fn.name = "vgi_percentile" /\ PercentileFails(Get(AggArgs))
       THEN phase' = "failed" /\ UNCHANGED result
       ELSE /\ phase' = "finalize"
            /\ result' = [g \in Groups |->
                            Finalize(fn.name, Get(AggKey(Target, TargetId(g))), Get(AggArgs), fn.ty)]
    /\ UNCHANGED <<fn, input, done, call, kv, merged, raced>>

\* handle_aggregate_destructor, after the results or as soon as a query is
\* given up between two calls.
Destroy ==
    /\ phase # "destroyed"
    /\ \A t \in Threads : call[t] = NoCall
    /\ kv' = <<>>
    /\ phase' = "destroyed"
    /\ UNCHANGED <<fn, input, done, call, merged, result, raced>>

AggNext ==
    \/ \E t \in Threads : UpdateLoad(t) \/ UpdatePut(t) \/ CombineLoad(t) \/ CombinePut(t)
    \/ UpdatesDone \/ AggFinalize \/ Destroy

AggSpec == AggInit /\ [][AggNext]_aggVars

-----------------------------------------------------------------------------
(* Properties                                                              *)

\* The rows of a group, over all threads, one thread after the other.
AllRows(g) ==
    FlattenSeq([i \in 1..Cardinality(Threads) |->
        SelectSeq(input[SetToSeq(Threads)[i]], LAMBDA row : row.g = g)])

\* What SQL says the aggregate of some rows is, as functions of the multiset.
Values(rows) == SelectSeq(rows, LAMBDA row : row.v # None)

Total(rows) == FoldLeft(LAMBDA a, row : a + row.v, 0, Values(rows))

Reference(f, rows, pct, ty) ==
    LET vs == Values(rows)
        both == SelectSeq(vs, LAMBDA row : row.w # None)
    IN  CASE f = "vgi_count" -> Len(rows)
          [] f = "vgi_sum_all" ->
                IF rows = <<>> THEN None
                ELSE Total(rows) + FoldLeft(LAMBDA a, r : a + NullAsZero(r.w), 0, rows)
          [] f = "vgi_weighted_sum" ->
                IF both = <<>> THEN None ELSE FoldLeft(LAMBDA a, r : a + r.v * r.w, 0, both)
          [] f \in {"vgi_sum", "vgi_window_sum", "vgi_window_sum_batch", "vgi_streaming_sum"} ->
                IF vs = <<>> THEN None ELSE Wrap(Total(rows))
          [] f \in {"vgi_generic_sum", "secret_typed_sum"} ->
                IF vs = <<>> THEN None ELSE Cast(Total(rows), ty)
          [] f = "vgi_avg" -> IF vs = <<>> THEN None ELSE <<Total(rows), Len(vs)>>
          [] f = "vgi_percentile" ->
                IF vs = <<>> THEN None
                ELSE CHOOSE x \in {vs[i].v : i \in DOMAIN vs} :
                       LET below == Cardinality({i \in DOMAIN vs : vs[i].v < x})
                           upto == Cardinality({i \in DOMAIN vs : vs[i].v <= x})
                           idx == Min({(pct * Len(vs)) \div 2, Len(vs) - 1})
                       IN  below <= idx /\ idx < upto
          [] f = "vgi_window_median" -> None

\* A text without the empty strings at its head, after which the next string is
\* appended without a comma.
Trimmed(t) ==
    LET kept == {i \in DOMAIN t : \E j \in 1..i : t[j] # ""}
    IN  SubSeq(t, Len(t) - Cardinality(kept) + 1, Len(t))

OwnText(t, g) ==
    LET own == SelectSeq(Values(input[t]), LAMBDA r : r.g = g)
    IN  Trimmed([i \in DOMAIN own |-> own[i].v])

\* Whatever the split of the rows over threads and batches, the order in which
\* partial groups are merged and the worker each call reaches, finalize answers
\* what the rows of the group say, NULL for a group without a value
\* (handle_aggregate_update: "a group that received only NULLs ... finalizes to
\* NULL rather than a seeded 0").  A text is the threads' texts one after the
\* other, each without the empty strings at its head.  Two things are left to
\* the engine: threads that fold into one group id do not overlap in it, as the
\* state is read, folded and stored without a lock; and all of them name one
\* execution, as combine finds no state of another.
AggregateExact ==
    phase = "finalize" /\ fn.engine # "executions" =>
        \A g \in Groups \ raced :
            IF fn.name \notin Texts THEN result[g] = Reference(fn.name, AllRows(g), fn.pct, fn.ty)
            ELSE \E order \in SetToSeqs(Threads) :
                   LET whole == FlattenSeq([i \in DOMAIN order |-> OwnText(order[i], g)])
                   IN  result[g] = IF whole = <<>> THEN None ELSE whole

Start == phase = "update" /\ \A t \in Threads : done[t] = 0 /\ call[t] = NoCall

Partition == FlattenSeq([i \in 1..Cardinality(Threads) |-> input[SetToSeq(Threads)[i]]])

Frames == {<<-1, 1>>, <<0, 2>>, <<1, 9>>, <<2, 1>>}

\* window() over any frame and FILTER mask answers what GROUP BY would over the
\* rows the frame and the mask leave (WindowSumFunction, WindowListAggFunction:
\* "also works in plain GROUP BY"), but for the empty strings at the head of a
\* text, which only window() keeps.
WindowAgrees ==
    Start /\ fn.name \in {"vgi_window_sum", "vgi_window_sum_batch", "vgi_window_listagg"} =>
        \A frame \in Frames, mask \in [1..Len(Partition) -> BOOLEAN] :
            LET kept == {i \in 1..Len(Partition) : frame[1] < i /\ i <= frame[2] /\ mask[i]}
                st[i \in 0..Len(Partition)] ==
                    IF i = 0 THEN None
                    ELSE IF i \in kept THEN Update(fn.name, st[i - 1], Partition[i]) ELSE st[i - 1]
                answer == Window(fn.name, Partition, SplitFrames(<<<<0, 1>>, frame>>, <<1, 1>>)[2], mask)
                headless == fn.name \in Texts /\ answer # None
            IN  Finalize(fn.name, st[Len(Partition)], 1, "int")
                    = CASE headless /\ Trimmed(answer) = <<>> -> None
                        [] headless /\ Trimmed(answer) # <<>> -> Trimmed(answer)
                        [] OTHER -> answer

\* The running sums do not depend on where the chunks end, and each is the sum
\* of the partition's values so far (streaming_chunk over the stored state map),
\* for partition columns that stream_row_key encodes by value.
StreamingExact ==
    Start /\ fn.name = "vgi_streaming_sum" =>
        LET rows == [i \in 1..Len(Partition) |->
                       [k |-> IF Partition[i].g = 1 THEN None ELSE Partition[i].g, v |-> Partition[i].v]]
        IN  \A cut \in 0..Len(rows), ty \in KeyedTypes :
              LET first == StreamingChunk(ty, SubSeq(rows, 1, cut), <<>>)
                  second == StreamingChunk(ty, SubSeq(rows, cut + 1, Len(rows)), first.states)
                  out == first.out \o second.out
              IN  \A i \in 1..Len(rows) :
                    out[i] = Wrap(FoldLeft(LAMBDA a, r : IF r.k = rows[i].k /\ r.v # None
                                                         THEN a + r.v ELSE a,
                                           0, SubSeq(rows, 1, i)))

(* However a group is evaluated (states merged over threads, over window   *)
(* frames, row by row in streaming), the answer is that of one pass over   *)
(* its rows (aggregate_update, _combine, _finalize, _window, _streaming).  *)
EvaluationsAgree == AggregateExact /\ WindowAgrees /\ StreamingExact
=============================================================================
