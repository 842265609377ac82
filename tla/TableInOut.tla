------------------------------ MODULE TableInOut ------------------------------
(***************************************************************************)
(* The INPUT exchange of a table-in-out function seen from its data: what  *)
(* each input batch is answered with (TableInOutExchangeState in           *)
(* vgi/src/dispatch.rs), what the client makes of the answers              *)
(* (vgi-client/src/exchange.rs), what a caller that keeps answers and      *)
(* revalidates them gets, and what the FINALIZE phase drains.              *)
(*                                                                         *)
(* An execution has one exchange after another on each of its substreams,  *)
(* each substream on a connection of its own.                              *)
(***************************************************************************)
EXTENDS InOutFunctions, FiniteSets, Bags

CONSTANTS
    Substreams,     \* connections of the execution
    Calls,          \* the calls an instance explores
    InputBatches,   \* InputBatches[f]: batches a caller may send to f
    MaxExchanges,   \* exchanges on one substream
    MaxInputs       \* inputs sent on one substream

VARIABLES
    call,      \* [f, args, columns, keep, sdk, filter, streams]: the execution
    worker,    \* worker[s]: TioContinuation of the open exchange
    exchange,  \* exchange[s]: the client's Exchange
    asked,     \* asked[s]: the last input and the answers to it
    log,       \* log[k]: partials appended under scope k
    stored,    \* answers the caller keeps, by validator
    flush,     \* what finalize returned, or None
    fed,       \* the batches sent, in the order the worker took them
    count      \* count[s]: [exchanges, inputs]

inoutVars == <<call, worker, exchange, asked, log, stored, flush, fed, count>>

Execution == "execution"
-----------------------------------------------------------------------------
(* The function of the call.                                               *)

Unary(f, c, b) ==
    CASE f = "echo"                   -> EchoFunction(c, b)
      [] f = "echo_witness"           -> EchoWitnessFunction(c, b)
      [] f = "slow_cancellable_inout" -> SlowCancellableInOutFunction(c, b)
      [] f = "filter_by_setting"      -> FilterBySettingFunction(c, b)
      [] f = "repeat_inputs"          -> RepeatInputsFunction(c, b)
      [] f = "secret_in_out"          -> SecretInOutFunction(c, b)
      [] f = "substream_partial_sum"  -> SubstreamPartialSumFunction(c, b)
      [] f = "multi_batch_finish"     -> MultiBatchFinishFunction(c, b)
      [] f = "geo_encode"             -> GeoEncodeFunction(c, b)
      [] f = "geo_encode3"            -> GeoEncode3Function(c, b)
      [] f = "row_sum"                -> RowSumFunction(c, b)
      [] f = "blended_drop"           -> BlendedDropFunction(c, b)
      [] f = "blended_explode"        -> BlendedExplodeFunction(c, b)
      [] f = "blended_any"            -> BlendedAnyFunction(c, b)
      [] f = "blended_any_varargs"    -> BlendedAnyVarargsFunction(c, b)
      [] f = "projectable_blended"    -> ProjectableBlendedFunction(c, b)

ProcessOut(f, c, b) ==
    CASE f = "cached_echo"            -> CachedEchoFunction(c, b)
      [] f = "cached_serial_echo"     -> CachedSerialEchoFunction(c, b)
      [] f = "cached_finalizing_echo" -> CachedFinalizingEchoFunction(c, b)
      [] f = "cached_double"          -> CachedDoubleFunction(c, b)
      [] f = "cached_explode"         -> CachedExplodeFunction(c, b)
      [] f = "cached_reval_echo"      -> CachedRevalidatingEchoFunction(c, b)
      [] f = "cached_reval_double"    -> CachedRevalidatingDoubleFunction(c, b)
      [] f = "cached_reval_policy"    -> CachedRevalidationPolicyFunction(c, b)
      [] f = "blended_paged"          -> BlendedPagedFunction(c, b)
      [] f = "blended_sliced"         -> BlendedSlicedFunction(c, b)
      [] f = "paged_explode"          -> PagedExplodeFunction(c, b)
      [] OTHER                        -> Unary(f, c, b)

ResumeSupported(f) == f \in {"blended_paged", "blended_sliced", "paged_explode"}
HasFinish(f) == f \in {"substream_partial_sum", "multi_batch_finish", "cached_finalizing_echo"}

Resume(f, c, st) ==
    CASE f = "blended_paged"  -> BlendedPagedResume(c, st, None)
      [] f = "blended_sliced" -> BlendedSlicedResume(c, st, None)
      [] f = "paged_explode"  -> PagedExplodeResume(c, st, None)
      [] OTHER                -> Failed

Finish(f, rows) ==
    CASE f = "substream_partial_sum" -> SubstreamPartialSumFinish(rows)
      [] f = "multi_batch_finish"    -> MultiBatchFinish(rows)
      [] OTHER                       -> <<>>

(* Mutant: partials are kept by connection.                                *)
Mut_TioStateScope(s) == s

(* tio_state_scope: every connection of the execution appends to one log.  *)
TioStateScope(s) == Execution
-----------------------------------------------------------------------------
(* Filters.  The SDK keeps the rows whose first column reaches the bound.  *)

Keeps(r, bound) == r[1] # Null /\ r[1] >= bound

Selected(rows, bound) == SelectSeq([k \in DOMAIN rows |-> k], LAMBDA k : Keeps(rows[k], bound))

(* Mutant: the provenance of an unfiltered batch is kept.                  *)
Mut_FilterParentRows(parents, n, selected, input_rows) == [ok |-> TRUE, parents |-> parents]

(* filter_parent_rows: n rows came out of the function and the selected    *)
(* ones are kept.                                                          *)
FilterParentRows(parents, n, selected, input_rows) ==
    CASE parents # None /\ \/ Len(parents) # n
                           \/ \E j \in DOMAIN parents : parents[j] \notin 0..(input_rows - 1) ->
             [ok |-> FALSE, parents |-> None]
      [] selected = <<>>             -> [ok |-> TRUE, parents |-> None]
      [] Len(selected) = n           -> [ok |-> TRUE, parents |-> parents]
      [] parents = None /\ n # input_rows -> [ok |-> FALSE, parents |-> None]
      [] OTHER -> [ok |-> TRUE, parents |-> [j \in DOMAIN selected |->
                      IF parents = None THEN Row(selected[j]) ELSE parents[selected[j]]]]
-----------------------------------------------------------------------------
(* A turn of the worker.                                                   *)

Continuation(more, resume, rows) == [more |-> more, resume |-> resume, input_rows |-> rows]
NoContinuation == Continuation(FALSE, None, 0)

TurnError == [ok |-> FALSE, worker |-> NoContinuation, reply |-> None, partial |-> None]

(* What the dispatcher refuses of a turn's output.                         *)
OutputRefused(out, tick) ==
    \/ out.err
    \/ Len(out.items) > 1
    \/ tick /\ out.items = <<>>
    \/ out.more /\ ~ResumeSupported(call.f)
    \/ out.more /\ out.resume = None
    \/ tick /\ \E k \in DOMAIN out.items : out.items[k].cache # None

Reply(item, rows, parents, more) ==
    [rows |-> rows, parents |-> parents, cache |-> item.cache, more |-> more]

(* The batch on its way out: filtered, then projected by name.  The        *)
(* functions that build the projected columns themselves are left alone.   *)
Narrowed(rows) ==
    IF \A k \in DOMAIN rows : Len(rows[k]) = Len(call.columns) THEN rows
    ELSE Project(rows, call.columns)

Answer(out, input_rows) ==
    LET item     == out.items[1]
        selected == Selected(item.rows, call.filter)
        kept     == FilterParentRows(item.parents, Len(item.rows), selected, input_rows)
    IN  IF ~call.sdk THEN [ok |-> TRUE, reply |-> Reply(item, Narrowed(item.rows), item.parents, out.more)]
        ELSE [ok |-> kept.ok,
              reply |-> Reply(item, Narrowed([j \in DOMAIN selected |-> item.rows[selected[j]]]),
                              kept.parents, out.more)]

(* TableInOutExchangeState::exchange, with the function's output.          *)
OutputTurn(w, tick, rows, out) ==
    LET ans == Answer(out, rows)
    IN  CASE tick # w.more             -> TurnError
          [] tick = w.more /\ OutputRefused(out, tick) -> TurnError
          [] tick = w.more /\ ~OutputRefused(out, tick) /\ out.items = <<>> ->
                 [ok |-> TRUE, worker |-> Continuation(FALSE, None, rows), partial |-> out.partial,
                  reply |-> [rows |-> <<>>, parents |-> None, cache |-> None, more |-> FALSE]]
          [] OTHER -> IF ~ans.ok THEN TurnError
                      ELSE [ok |-> TRUE, partial |-> out.partial, reply |-> ans.reply,
                            worker |-> Continuation(out.more, out.resume, rows)]

WorkerTurn(w, tick, b, validator) ==
    LET c == [args |-> call.args, columns |-> call.columns,
              if_none_match |-> IF tick THEN None ELSE validator]
    IN  OutputTurn(w, tick, IF tick THEN w.input_rows ELSE Len(b),
                   IF tick THEN Resume(call.f, c, w.resume) ELSE ProcessOut(call.f, c, b))
-----------------------------------------------------------------------------
(* The client's Exchange.                                                  *)

(* live: the stream underneath still carries turns.  cache: the directives *)
(* of the last answer that had any, which stay for the exchange's lifetime.*)
OpenedExchange(validator) ==
    [open |-> TRUE, pending |-> FALSE, first |-> validator, reusable |-> TRUE, live |-> TRUE, cache |-> None]

ClosedExchange == [OpenedExchange(None) EXCEPT !.open = FALSE]

NothingAsked == [batch |-> <<>>, validator |-> None, got |-> EmptyBag, replies |-> 0,
                 cache |-> None, done |-> FALSE]

(* check_continued_reply.                                                  *)
ContinuedReplyRefused(reply, tick) ==
    \/ tick /\ reply.cache # None
    \/ reply.cache # None /\ reply.cache.not_modified /\ reply.more

BagOf(seq) == FoldSeq(LAMBDA x, bag : bag (+) SetToBag({x}), EmptyBag, seq)

(* parent_rows(): each output row with the input row it came from.  A      *)
(* TABLE argument's output is not attributed.                              *)
Attributed == call.f \notin {"paged_explode", "repeat_inputs", "filter_by_setting"}

Pairs(rows, parents) ==
    LET Pair(k) == <<IF ~Attributed THEN -1 ELSE IF parents = None THEN Row(k) ELSE parents[k],
                     SubSeq(rows[k], 1, call.keep)>>
    IN  BagOf([k \in DOMAIN rows |-> Pair(k)])

OpenExchange(s, validator) ==
    /\ flush = None /\ s \in call.streams
    /\ ResumeSupported(call.f) => PagedArgsValid(call.args)     \* or the bind fails
    /\ ~exchange[s].open /\ exchange[s].reusable
    /\ count[s].exchanges < MaxExchanges
    /\ exchange' = [exchange EXCEPT ![s] = OpenedExchange(validator)]
    /\ worker' = [worker EXCEPT ![s] = NoContinuation]
    /\ asked' = [asked EXCEPT ![s] = NothingAsked]
    /\ count' = [count EXCEPT ![s].exchanges = @ + 1]
    /\ UNCHANGED <<call, log, stored, flush, fed>>

(* What the caller keeps: an answer that came whole in one reply, under    *)
(* the validator it was sent with.                                         *)
Keep(a) ==
    IF a.done /\ a.replies = 1 /\ a.cache # None /\ ~a.cache.not_modified
       /\ ~a.cache.no_store /\ a.cache.etag # None
    THEN stored \cup {[etag |-> a.cache.etag, got |-> a.got]}
    ELSE stored

(* update_answer_metadata: the answer so far, with one more reply, whose   *)
(* cache directives, if it has any, replace those of earlier answers.      *)
Accepted(a, reply) ==
    [a EXCEPT !.got = @ (+) Pairs(reply.rows, reply.parents), !.replies = @ + 1,
              !.cache = IF reply.cache # None THEN reply.cache ELSE @, !.done = ~reply.more]

(* Mutant: an answer the client refuses leaves the connection reusable.    *)
Mut_RefuseTurn(s, live) ==
    /\ exchange' = [exchange EXCEPT ![s] = [@ EXCEPT !.pending = FALSE, !.first = None, !.live = live]]
    /\ asked' = [asked EXCEPT ![s] = NothingAsked]
    /\ UNCHANGED stored

(* A failed turn: nothing is pending any more, and the connection is not   *)
(* pooled again.  The stream goes on below if only the client objected.    *)
RefuseTurn(s, live) ==
    /\ exchange' = [exchange EXCEPT ![s] =
           [@ EXCEPT !.pending = FALSE, !.first = None, !.reusable = FALSE, !.live = live]]
    /\ asked' = [asked EXCEPT ![s] = NothingAsked]
    /\ UNCHANGED stored

(* Exchange::turn.  The answer of the worker may be lost on its way.       *)
Turn(s, tick, before) ==
    \E turn \in {WorkerTurn(worker[s], tick, before.batch, before.validator)}, lost \in BOOLEAN :
        /\ worker' = [worker EXCEPT ![s] = turn.worker]
        /\ log' = IF turn.partial = None THEN log
                  ELSE [log EXCEPT ![TioStateScope(s)] = Append(@, turn.partial)]
        /\ IF turn.ok /\ ~lost /\ ~ContinuedReplyRefused(turn.reply, tick)
           THEN LET now == Accepted(before, turn.reply)
                IN  /\ exchange' = [exchange EXCEPT ![s] =
                           [@ EXCEPT !.pending = turn.reply.more, !.first = None, !.cache = now.cache]]
                    /\ asked' = [asked EXCEPT ![s] = now]
                    /\ stored' = Keep(now)
           ELSE RefuseTurn(s, turn.ok /\ ~lost)
        /\ UNCHANGED <<call, flush>>

(* Exchange::send: the validator rides the first input of the exchange.    *)
(* A caller may send after a turn that failed: on a stream that has ended  *)
(* the turn fails again; otherwise the worker gets the input, and refuses  *)
(* it while it still waits for a tick.                                     *)
Send(s, b) ==
    /\ exchange[s].open /\ ~exchange[s].pending
    /\ count[s].inputs < MaxInputs
    /\ count' = [count EXCEPT ![s].inputs = @ + 1]
    /\ \/ /\ exchange[s].live
          /\ fed' = Append(fed, b)
          /\ Turn(s, FALSE, [NothingAsked EXCEPT !.batch = b, !.validator = exchange[s].first,
                                                !.cache = exchange[s].cache])
       \/ /\ ~exchange[s].live
          /\ RefuseTurn(s, FALSE)
          /\ UNCHANGED <<call, worker, log, flush, fed>>

ContinueOutput(s) ==
    /\ exchange[s].open /\ exchange[s].pending
    /\ Turn(s, TRUE, asked[s])
    /\ UNCHANGED <<fed, count>>

(* close, cancel and Drop: what is pending is dropped with the exchange.   *)
Close(s) ==
    /\ exchange[s].open
    /\ exchange' = [exchange EXCEPT ![s].open = FALSE, ![s].pending = FALSE]
    /\ UNCHANGED <<call, worker, asked, log, stored, flush, fed, count>>

(* A turn that never reaches the worker: the connection failed.            *)
LoseConnection(s) ==
    /\ exchange[s].open /\ exchange[s].live
    /\ RefuseTurn(s, FALSE)
    /\ UNCHANGED <<call, worker, log, flush, fed, count>>

(* The FINALIZE phase, when every exchange is closed.                      *)
Finalize ==
    /\ flush = None /\ HasFinish(call.f)
    /\ \A s \in Substreams : ~exchange[s].open
    /\ flush' = Finish(call.f, log[Execution])
    /\ UNCHANGED <<call, worker, exchange, asked, log, stored, fed, count>>

InOutInit ==
    /\ call \in Calls
    /\ worker = [s \in Substreams |-> NoContinuation]
    /\ exchange = [s \in Substreams |-> ClosedExchange]
    /\ asked = [s \in Substreams |-> NothingAsked]
    /\ log = [k \in Substreams \cup {Execution} |-> <<>>]
    /\ stored = {}
    /\ flush = None
    /\ fed = <<>>
    /\ count = [s \in Substreams |-> [exchanges |-> 0, inputs |-> 0]]

InOutNext ==
    \/ \E s \in Substreams :
          \/ \E v \in {None} \cup {e.etag : e \in stored} : OpenExchange(s, v)
          \/ \E b \in InputBatches[call.f] : Send(s, b)
          \/ ContinueOutput(s)
          \/ Close(s)
          \/ LoseConnection(s)
    \/ Finalize

InOutSpec == InOutInit /\ [][InOutNext]_inoutVars
-----------------------------------------------------------------------------
(* What each function promises of one input row: its output rows.          *)

Promise(r, bump) ==
    LET f == call.f  a == call.args  n == CountOf(r[1])
        Upto(k) == [i \in 1..k |-> <<i - 1 + bump>>]
    IN  CASE f = "echo_witness"      -> <<[c \in DOMAIN r |-> Len(call.columns)]>>
          [] f = "filter_by_setting" -> IF r[1] # Null /\ r[1] >= a.threshold THEN <<r>> ELSE <<>>
          [] f = "repeat_inputs"     -> [k \in 1..a.repeat_count |-> r]
          [] f = "secret_in_out"     -> <<r \o <<a.secret>>>>
          [] f \in {"substream_partial_sum", "multi_batch_finish", "blended_drop"} -> <<>>
          [] f = "geo_encode"        -> <<Geohash(r, 2, a.precision)>>
          [] f = "geo_encode3"       -> <<Geohash(r, 3, a.precision)>>
          [] f = "row_sum"           -> IF AnyNull(r) THEN <<<<Null>>>>
                                        ELSE <<<<IF a.absolute THEN SumOf(MapRows(Magnitude, r)) ELSE SumOf(r)>>>>
          [] f \in {"blended_explode", "cached_explode", "paged_explode", "blended_paged"} -> Upto(n)
          [] f = "blended_any"       -> <<<<r[1]>>>>
          [] f = "projectable_blended" -> <<<<Times(r[1], 10), Times(r[1], 100)>>>>
          [] f \in {"cached_double", "cached_reval_double"} -> <<<<Times(r[1], 2)>>>>
          [] f = "blended_sliced"    -> Upto(n)
          [] OTHER                   -> <<r>>

(* The rows a caller should see for an input: each one that passes the     *)
(* filter, in the columns asked for, with the row it came from.            *)
Expected(a) ==
    LET batch    == a.batch
        version2 == a.validator # None /\ "revalidate" \in DOMAIN call.args /\ call.args.revalidate
        Rows(r)  == Promise(r, IF version2 THEN 1000 ELSE 0)
        Wide(r)  == IF call.f # "blended_sliced" THEN Rows(r)
                    ELSE [j \in DOMAIN Rows(r) |-> Rows(r)[j] \o <<Len(batch)>>]
        Shown(x) == [c \in 1..call.keep |-> x[call.columns[c]]]
        Of(k)    == LET all  == Wide(batch[k])
                        kept == IF call.sdk THEN SelectSeq(all, LAMBDA x : Keeps(x, call.filter)) ELSE all
                    IN  [j \in DOMAIN kept |-> <<IF Attributed THEN Row(k) ELSE -1, Shown(kept[j])>>]
    IN  BagOf(FlattenSeq([k \in DOMAIN batch |-> Of(k)]))

(* What the caller ends up with: a 304 stands for the answer it kept.      *)
Results(a) ==
    IF a.cache # None /\ a.cache.not_modified
    THEN {e.got : e \in {e \in stored : e.etag = a.validator}} ELSE {a.got}

(* An input answered to the end, in one reply, in pages or by a 304 that   *)
(* stands for a kept answer, gives the caller exactly the rows the         *)
(* function promises for it: none lost or repeated where one page ends and *)
(* the next begins, each on the input row it came from, filtered and       *)
(* projected (TableInOutExchangeState::exchange, filter_parent_rows,       *)
(* Exchange::turn).  A versioned fixture's second version is the first     *)
(* plus 1000.                                                              *)
ReplyExact ==
    \A s \in Substreams : asked[s].done => Results(asked[s]) = {Expected(asked[s])}

(* While a connection may be used again, client and worker agree on        *)
(* whether the open exchange has output pending (check_continued_reply     *)
(* refuses an answer after the worker moved on).                           *)
InStep ==
    \A s \in Substreams : exchange[s].open /\ exchange[s].reusable
        => exchange[s].pending = worker[s].more

(* FINALIZE answers for every row that any connection of the execution     *)
(* sent, whatever the order they came in (tio_state_scope).                *)
FinalizeExact ==
    flush # None /\ call.f # "cached_finalizing_echo" =>
        /\ SumOf(flush) = SumOf([k \in DOMAIN fed |-> SumOf(FirstColumn(fed[k]))])
        /\ call.f = "multi_batch_finish" => Len(flush) = SumOf([k \in DOMAIN fed |-> Len(fed[k])])

(* What the client hands on for an input is what the function makes of it, *)
(* however the answer is paged, filtered, projected, kept or refused, and  *)
(* client and worker agree on whether more of it is to come                *)
(* (Exchange::turn, TableInOutExchangeState::exchange).                    *)
RepliesExact == ReplyExact /\ InStep
=============================================================================
