------------------------------ MODULE Buffering ------------------------------
(***************************************************************************)
(* One execution of a table-buffering function (vgi/src/buffering.rs,      *)
(* dispatch.rs handle_init and handle_buffering_..., driven by             *)
(* vgi-client/src/exchange.rs buffering_...): the sink init, the process   *)
(* calls of several engine threads, one combine, a drain for every         *)
(* finalize id, and the destructor.  A COPY TO is the same without drains. *)
(*                                                                         *)
(* Every call may reach a different pooled worker; all they share is the   *)
(* execution's rows in the store.  The process and combine calls carry     *)
(* neither schema nor arguments: they replay what the sink init put there. *)
(* The store reports no failure: a put or an append that fails leaves no   *)
(* entry, a scan that fails finds none.  Which entries of the sink init    *)
(* are missing is part of the query; one later store call may fail too.    *)
(*                                                                         *)
(* Each function of the example worker (buffering/mod.rs, copy_to/mod.rs)  *)
(* is a record of the knobs that tell its behaviours apart.  A schema is   *)
(* the sequence of its columns' types, a row the tuple of its cells (None  *)
(* for NULL), a batch the sequence of its rows.                            *)
(***************************************************************************)
EXTENDS Integers, Sequences, FiniteSets, SequencesExt

CONSTANTS
    None,      \* no value: a NULL cell, an absent option, an absent entry
    OrderedN,  \* ORDERED_SOURCE_N, a small bound in place of 16
    WideRows   \* the "rows" argument of buffer_emit_wide

IntTypes == {"int32", "int64"}
FloatTypes == {"float32", "float64", "decimal"}

(* What every function starts from; a knob is set where the code sets it.  *)
Defaults == [kind |-> "input", ordered |-> FALSE, combineError |-> FALSE, finalizeError |-> FALSE,
             kill |-> FALSE, everyOther |-> FALSE, cache |-> "none"]

(* buffer_input: collect the input and give it back; the family differs in *)
(* the ordering it asks of the sink and in the step that fails.            *)
BufferInputFunction ==
    {[Defaults EXCEPT !.kind = "input"],
     [Defaults EXCEPT !.ordered = TRUE],
     [Defaults EXCEPT !.combineError = TRUE],
     [Defaults EXCEPT !.finalizeError = TRUE],
     [Defaults EXCEPT !.kill = TRUE]}

(* buffer_emit_wide: whatever came in, one batch 0 .. rows-1.              *)
BufferEmitWideFunction == {[Defaults EXCEPT !.kind = "wide"]}

(* large_state: one state row per batch, and their number at the end.      *)
LargeStateFunction == {[Defaults EXCEPT !.kind = "large"]}

(* batch_index_buffer_input: put the batches back in source order.         *)
BatchIndexBufferInputFunction == {[Defaults EXCEPT !.kind = "indexed"]}

(* ordered_source: a fixed sequence, one finalize id for each value.       *)
OrderedSourceFunction == {[Defaults EXCEPT !.kind = "ordered_source"]}

(* BufferedCacheBehavior: what the finalize output of the cached variants  *)
(* advertises, and how each answers a matching validator.                  *)
BufferedCacheBehavior ==
    {"none", "ttl", "revalidate", "revalidate_error", "revalidate_no_store", "revalidate_fresh_no_store"}

(* sum_all_columns and its caching and failing variants.                   *)
SumAllColumnsFunction ==
    {[Defaults EXCEPT !.kind = "sum", !.cache = c] : c \in BufferedCacheBehavior}
        \cup {[Defaults EXCEPT !.kind = "sum", !.finalizeError = TRUE],
              [Defaults EXCEPT !.kind = "sum", !.everyOther = TRUE]}

(* example_lines_out and its source-order variant.                         *)
ExampleLinesCopyTo == {[Defaults EXCEPT !.kind = "copy", !.ordered = o] : o \in BOOLEAN}

(* secret_lines_out: the destination gets the caller's key and a count.    *)
SecretLinesCopyTo == {[Defaults EXCEPT !.kind = "secret"]}

BufferingFixtures ==
    BufferInputFunction \cup SumAllColumnsFunction \cup LargeStateFunction
        \cup BatchIndexBufferInputFunction \cup OrderedSourceFunction \cup BufferEmitWideFunction

CopyToFixtures == ExampleLinesCopyTo \cup SecretLinesCopyTo
-----------------------------------------------------------------------------
(* Schemas and sums.                                                       *)

(* derive_output_schema: integers sum to int64, floats and decimals to     *)
(* float64, other columns are dropped; a schema with none left is refused. *)
DeriveOutputSchema(schema) ==
    LET numeric == SelectSeq(schema, LAMBDA t : t \in IntTypes \cup FloatTypes)
    IN  [i \in DOMAIN numeric |-> IF numeric[i] \in IntTypes THEN "int64" ELSE "float64"]

(* on_bind: the output schema, or None where the function refuses.  A COPY *)
(* writer binds to no columns.                                             *)
OnBind(f, schema) ==
    CASE f.kind \in {"input", "large", "indexed"} -> schema
      [] f.kind = "sum" ->
             IF DeriveOutputSchema(schema) = <<>> THEN None ELSE DeriveOutputSchema(schema)
      [] f.kind \in {"wide", "ordered_source"} -> <<"int64">>
      [] OTHER -> <<>>

RECURSIVE SumOf(_)
SumOf(s) == IF s = <<>> THEN 0 ELSE (IF Head(s) = None THEN 0 ELSE Head(s)) + SumOf(Tail(s))

(* sum_column, for every column the output schema keeps: NULLs are skipped.*)
SumColumns(schema, rows) ==
    LET kept == SelectSeq([i \in DOMAIN schema |-> i],
                          LAMBDA i : schema[i] \in IntTypes \cup FloatTypes)
    IN  [c \in DOMAIN kept |-> SumOf([r \in DOMAIN rows |-> rows[r][kept[c]]])]
-----------------------------------------------------------------------------
(* process: the row it appends, under which namespace.                     *)

Namespace(f) ==
    CASE f.everyOther        -> "count"
      [] f.kind = "input"    -> "buf"
      [] f.kind = "sum"      -> "partial"
      [] f.kind = "large"    -> "large"
      [] f.kind = "indexed"  -> "unsorted"
      [] OTHER               -> "copy_to_shard"

(* The counting variant keeps no partials: its combine finds none.         *)
CombineReads(f) == IF f.kind = "sum" THEN "partial" ELSE Namespace(f)

(* wide and ordered_source keep nothing of their input.                    *)
Appends(f) == f.kind \notin {"wide", "ordered_source"}

(* These two, and buffer_input, have nothing to do in combine.             *)
CombineScans(f) == f.kind \notin {"input", "wide", "ordered_source"}

SinkRow(f, schema, batch) ==
    CASE f.kind \in {"input", "indexed", "copy"} -> [idx |-> batch.idx, rows |-> batch.rows, schema |-> schema]
      [] f.kind = "sum"    -> [idx |-> batch.idx, rows |-> <<SumColumns(schema, batch.rows)>>,
                               schema |-> DeriveOutputSchema(schema)]
      [] f.kind = "large"  -> [idx |-> batch.idx, rows |-> <<<<1>>>>, schema |-> schema]
      [] f.kind = "secret" -> [idx |-> batch.idx, rows |-> <<<<Len(batch.rows)>>>>, schema |-> schema]

(* parse_options: a required option, a delimiter that may not be empty, a  *)
(* bounded repeat and an enumeration.                                      *)
ParseOptions(o) ==
    /\ o.null_string # None
    /\ o.delimiter # ""
    /\ o.header_repeat \in 0 .. 3
    /\ o.on_exists \in {"overwrite", "error"}

(* write() fails before it buffers the batch that holds the poison value.  *)
HitsFailOnValue(o, batch) ==
    /\ o.fail_on_value # None
    /\ \E r \in DOMAIN batch.rows : \E c \in DOMAIN batch.rows[r] : batch.rows[r][c] = o.fail_on_value

ProcessFails(f, o, batch) ==
    f.kind = "copy" /\ (~ParseOptions(o) \/ HitsFailOnValue(o, batch))
-----------------------------------------------------------------------------
(* combine: what it appends to the drained log, the finalize ids it        *)
(* returns, and the destination a COPY writer leaves.                      *)

Rows(log) == FlattenSeq([i \in DOMAIN log |-> log[i].value.rows])

(* pairs.sort_by_key: a stable sort on the batch index.                    *)
SortedByIndex(log) ==
    SortSeq(log, LAMBDA a, b : a.value.idx < b.value.idx \/ (a.value.idx = b.value.idx /\ a.id < b.id))

(* The column sums of the partials; without any, zeroes in the schema the  *)
(* store replays.                                                          *)
SumCombine(log, bound) ==
    LET out == IF log = <<>> THEN bound ELSE log[1].value.schema
    IN  [idx |-> 0, schema |-> out,
         rows |-> <<[c \in DOMAIN out |-> SumOf([i \in DOMAIN log |-> log[i].value.rows[1][c]])]>>]

(* Every column of the one output row carries the total.                   *)
LargeCombine(log, bound) ==
    [idx |-> 0, schema |-> bound, rows |-> <<[c \in DOMAIN bound |-> Len(log)]>>]

(* The rows combine appends to the "buf" log, in order.                    *)
CombineAppends(f, log, bound) ==
    CASE f.kind = "sum"     -> <<SumCombine(log, bound)>>
      [] f.kind = "large"   -> <<LargeCombine(log, bound)>>
      [] f.kind = "indexed" -> [i \in DOMAIN log |-> SortedByIndex(log)[i].value]
      [] OTHER              -> <<>>

FinalizeIds(f) ==
    CASE f.kind = "ordered_source"   -> [i \in 1 .. OrderedN |-> i - 1]
      [] f.kind \in {"copy", "secret"} -> <<>>
      [] OTHER                       -> <<0>>

Line(what, cells) == [what |-> what, cells |-> cells]

(* Mutant: an empty COPY writes no header.                                 *)
Mut_LinesOf(o, log, schema) ==
    LET cell(v) == IF v = None THEN o.null_string ELSE v
        body == [i \in DOMAIN Rows(log) |->
                    Line("row", [c \in DOMAIN Rows(log)[i] |-> cell(Rows(log)[i][c])])]
    IN  IF o.header /\ log # <<>>
        THEN [i \in 1 .. o.header_repeat |-> Line("header", <<>>)] \o body ELSE body

(* close of example_lines_out: the header, then a line per row; an empty   *)
(* COPY still gets its header from the replayed input schema.              *)
LinesOf(o, log, schema) ==
    LET header == IF o.header /\ (log # <<>> \/ schema # None)
                  THEN [i \in 1 .. o.header_repeat |-> Line("header", <<>>)] ELSE <<>>
        cell(v) == IF v = None THEN o.null_string ELSE v
        line(row) == Line("row", [c \in DOMAIN row |-> cell(row[c])])
    IN  header \o [i \in DOMAIN Rows(log) |-> line(Rows(log)[i])]

(* close of secret_lines_out: the key the two-phase bind resolved for the  *)
(* destination, and the summed counts.                                     *)
SecretLinesOf(secret, log) ==
    <<Line("api_key", <<secret>>), Line("rows", <<SumOf([i \in DOMAIN log |-> log[i].value.rows[1][1]])>>)>>
-----------------------------------------------------------------------------
(* The finalize producers.  A producer is where the drain stands.          *)

FinalizeProducer(f, id) ==
    [id |-> id, after |-> -1, emitted |-> FALSE, error |-> f.finalizeError,
     match |-> FALSE, answered |-> FALSE, meta |-> f.cache]

(* Mutant: the log cursor does not travel with the continuation.           *)
Mut_RestoreResume(fresh, p) ==
    [fresh EXCEPT !.emitted = p.emitted, !.error = @ /\ p.error, !.match = p.match, !.answered = p.answered]

(* encode_resume and restore_resume of LogDrain, OneRowProducer and        *)
(* WideProducer: what a rebuilt producer gets back.  The metadata is not   *)
(* carried but derived again from the two flags.                           *)
RestoreResume(fresh, p) ==
    [fresh EXCEPT !.after = p.after, !.emitted = p.emitted, !.error = @ /\ p.error,
                  !.match = p.match, !.answered = p.answered,
                  !.meta = IF ~(p.match /\ p.answered) THEN @
                           ELSE CASE @ = "revalidate"                -> "not_modified"
                                  [] @ = "revalidate_no_store"       -> "no_store_not_modified"
                                  [] @ = "revalidate_fresh_no_store" -> "no_store"
                                  [] OTHER                           -> @]

Emit(p, batch) == [p |-> p, batch |-> batch, err |-> FALSE]
Fails(p) == [p |-> p, batch |-> None, err |-> TRUE]
Empty(schema) == [rows |-> <<>>, schema |-> schema]

(* The answer to a validator that matched: an empty not-modified batch, an *)
(* error, or (fresh_no_store) new metadata on the rows that follow.        *)
AnswerConditional(f, p, schema) ==
    CASE f.cache = "revalidate" ->
             Emit([p EXCEPT !.answered = TRUE, !.meta = "not_modified"], Empty(schema))
      [] f.cache = "revalidate_no_store" ->
             Emit([p EXCEPT !.answered = TRUE, !.meta = "no_store_not_modified"], Empty(schema))
      [] f.cache = "revalidate_error" -> Fails([p EXCEPT !.answered = TRUE])

(* LogDrain: the first row after the cursor, projected to the schema the   *)
(* finalize init carried.                                                  *)
NextLogged(p, log, schema) ==
    LET rows == SelectSeq(log, LAMBDA e : e.id > p.after)
    IN  IF rows = <<>> THEN Emit(p, None)
        ELSE Emit([p EXCEPT !.after = rows[1].id],
                  [rows |-> rows[1].value.rows, schema |-> rows[1].value.schema])

LogDrain(f, p, log, schema) ==
    LET answers == p.match /\ ~p.answered
        q       == IF answers
                   THEN [p EXCEPT !.answered = TRUE,
                                  !.meta = IF f.cache = "revalidate_fresh_no_store" THEN "no_store" ELSE @]
                   ELSE p
    IN  IF answers /\ f.cache \in {"revalidate", "revalidate_no_store", "revalidate_error"}
        THEN AnswerConditional(f, p, schema)
        ELSE IF ~answers /\ p.answered /\ f.cache \in {"revalidate", "revalidate_no_store"}
        THEN Emit(p, None)
        ELSE IF q.error THEN Fails([q EXCEPT !.error = FALSE])
        ELSE NextLogged(q, log, schema)

(* OneRowProducer: the value its finalize id encodes, once.                *)
OneRowProducer(p, schema) ==
    IF p.emitted THEN Emit(p, None)
    ELSE Emit([p EXCEPT !.emitted = TRUE], [rows |-> <<<<p.id>>>>, schema |-> schema])

(* WideProducer: all rows in one batch, once.                              *)
WideProducer(p, schema) ==
    IF p.emitted THEN Emit(p, None)
    ELSE Emit([p EXCEPT !.emitted = TRUE], [rows |-> [i \in 1 .. WideRows |-> <<i - 1>>], schema |-> schema])

NextBatch(f, p, log, schema) ==
    CASE f.kind = "ordered_source" -> OneRowProducer(p, schema)
      [] f.kind = "wide"           -> WideProducer(p, schema)
      [] OTHER                     -> LogDrain(f, p, log, schema)

-----------------------------------------------------------------------------
CONSTANTS
    SinkThreads,  \* engine threads that feed the sink
    Queries       \* [fn, schema, source, opts, secret, exists, match, http, lost]:
                  \* the source is a sequence of batches [idx, rows]; lost names the
                  \* entries the sink init fails to store, "rows" when a store call
                  \* after it may fail, and "disk" when the destination may

VARIABLES
    q,       \* the query of this behaviour
    phase,   \* the engine's phase
    kv,      \* the entries the sink init put under the execution
    log,     \* log[ns]: the rows appended under a namespace, with their ids
    nextId,  \* the store's row id
    sink,    \* sink[t]: the batches thread t still has to send, and its step
    ids,     \* the finalize ids left to drain
    prod,    \* the producer being drained, or None
    out,     \* the batches the engine received
    file,    \* the destination of a COPY TO
    dropped  \* the batches the failed store call lost; 0 is combine's result

bufVars == <<q, phase, kv, log, nextId, sink, ids, prod, out, file, dropped>>

Logs == {"buf", "partial", "large", "unsorted", "count", "copy_to_shard"}
Absent == [k \in {"outsc", "insc", "bufargs", "copyto", "bufsecrets"} |-> None]
OldFile == <<Line("old", <<>>)>>

(* An order-dependent sink has one thread that gets every batch in source  *)
(* order; otherwise the batches are dealt to the threads in any way.       *)
Deal(f, source) ==
    IF f.ordered
    THEN {[t \in SinkThreads |-> IF t = CHOOSE u \in SinkThreads : TRUE THEN source ELSE <<>>]}
    ELSE {[t \in SinkThreads |-> SelectSeq(source, LAMBDA b : of[b.idx] = t)] :
             of \in [{source[i].idx : i \in DOMAIN source} -> SinkThreads]}

BufInit ==
    /\ q \in Queries
    /\ phase = "bind"
    /\ kv = Absent
    /\ log = [ns \in Logs |-> <<>>]
    /\ nextId = 1
    /\ \E dealt \in Deal(q.fn, q.source) : sink = [t \in SinkThreads |-> [todo |-> dealt[t], counted |-> FALSE]]
    /\ ids = <<>> /\ prod = None /\ out = <<>>
    /\ file = IF q.exists THEN OldFile ELSE <<>>
    /\ dropped = {}

Fail == phase' = "failed"
-----------------------------------------------------------------------------
(* handle_bind and the sink phase of handle_init: what the later calls     *)
(* will replay goes into the store.                                        *)
Begin ==
    /\ phase = "bind"
    /\ IF OnBind(q.fn, q.schema) = None
       THEN Fail /\ UNCHANGED kv
       ELSE /\ phase' = "sink"
            /\ kv' = [k \in DOMAIN kv |->
                         CASE k \in q.lost       -> None
                           [] k = "outsc"        -> OnBind(q.fn, q.schema)
                           [] k = "insc"         -> q.schema
                           [] k = "bufargs"      -> q.opts
                           [] k = "copyto"       -> IF q.fn.kind \in {"copy", "secret"} THEN "path" ELSE None
                           [] k = "bufsecrets"   -> q.secret]
    /\ UNCHANGED <<q, log, nextId, sink, ids, prod, out, file, dropped>>

(* Mutant: without the stored schema, the raw input schema stands in.      *)
Mut_BufferingOutputSchema(batchSchema) ==
    IF kv["outsc"] # None THEN kv["outsc"]
    ELSE IF batchSchema # None THEN batchSchema ELSE kv["insc"]

(* buffering_output_schema: the stored schema, or the function's own bind  *)
(* again over the batch's schema or the stored input schema; None when     *)
(* there is nothing to bind from.                                          *)
BufferingOutputSchema(batchSchema) ==
    LET input == IF batchSchema # None THEN batchSchema ELSE kv["insc"]
    IN  IF kv["outsc"] # None THEN kv["outsc"]
        ELSE IF input = None THEN None ELSE OnBind(q.fn, input)

(* The replayed arguments; without them every option is at its default.    *)
BufferingArguments ==
    IF kv["bufargs"] # None THEN kv["bufargs"]
    ELSE [null_string |-> None, delimiter |-> ",", header |-> FALSE, header_repeat |-> 1,
          on_exists |-> "overwrite", fail_on_value |-> None]

(* A COPY writer called outside a COPY statement.                          *)
MissingCopyTo == q.fn.kind \in {"copy", "secret"} /\ kv["copyto"] = None

(* The one store call that may fail has not failed yet.                    *)
MayDrop == "rows" \in q.lost /\ dropped = {}

(* storage.append, whose result the callers ignore.                        *)
Append1(ns, idx, value) ==
    \/ /\ log' = [log EXCEPT ![ns] = Append(@, [id |-> nextId, value |-> value])]
       /\ nextId' = nextId + 1
       /\ UNCHANGED dropped
    \/ MayDrop /\ dropped' = {idx} /\ UNCHANGED <<log, nextId>>

(* storage.scan of a whole log: an entry that cannot be read is left out,  *)
(* and with the listing or the connection all of them are.                 *)
Scans(l) ==
    IF MayDrop THEN {SelectSeq(l, LAMBDA e : e.id \notin missed) : missed \in SUBSET {l[i].id : i \in DOMAIN l}}
    ELSE {l}

Indexes(l) == {l[i].value.idx : i \in DOMAIN l}

(* buffering_process and buffering_combine of the client: a thread sends   *)
(* its next chunk; the coordinator combines when no chunk is left.         *)
SendsChunk(t) == phase = "sink" /\ sink[t].todo # <<>> /\ ~sink[t].counted
SendsCombine == phase = "sink" /\ \A t \in SinkThreads : sink[t].todo = <<>>

(* handle_buffering_process of thread t's next batch.  A worker that dies  *)
(* in it fails the call like an error does.  The counting variant reads    *)
(* the count in a second store call.                                       *)
Process(t) ==
    /\ SendsChunk(t)
    /\ LET batch  == Head(sink[t].todo)
           refuse == \/ BufferingOutputSchema(q.schema) = None
                     \/ q.fn.kill \/ MissingCopyTo
                     \/ ProcessFails(q.fn, BufferingArguments, batch)
       IN  IF refuse THEN Fail /\ UNCHANGED <<sink, log, nextId, dropped>>
           ELSE /\ IF Appends(q.fn) THEN Append1(Namespace(q.fn), batch.idx, SinkRow(q.fn, q.schema, batch))
                   ELSE UNCHANGED <<log, nextId, dropped>>
                /\ sink' = [sink EXCEPT ![t] = IF q.fn.everyOther THEN [@ EXCEPT !.counted = TRUE]
                                               ELSE [@ EXCEPT !.todo = Tail(@)]]
                /\ UNCHANGED phase
    /\ UNCHANGED <<q, kv, ids, prod, out, file>>

(* exception_process: the call fails when the count it reads back is even. *)
ProcessCount(t) ==
    /\ phase = "sink" /\ sink[t].counted
    /\ sink' = [sink EXCEPT ![t] = [todo |-> Tail(@.todo), counted |-> FALSE]]
    /\ \E seen \in Scans(log["count"]) :
           /\ dropped' = dropped \cup (Indexes(log["count"]) \ Indexes(seen))
           /\ IF Len(seen) % 2 = 0 THEN Fail ELSE UNCHANGED phase
    /\ UNCHANGED <<q, kv, log, nextId, ids, prod, out, file>>

(* CopyToBuffering::combine: the terminal write of the destination.  The   *)
(* file is created, and so emptied, before the shards are decoded; an      *)
(* error in one of them, in a cast, a write or the flush leaves the lines  *)
(* written up to there.                                                    *)
Close(o, shards) ==
    LET lines == IF q.fn.kind = "copy" THEN LinesOf(o, shards, kv["insc"])
                 ELSE SecretLinesOf(kv["bufsecrets"], shards)
    IN  IF q.fn.kind = "copy" /\ (~ParseOptions(o) \/ (o.on_exists = "error" /\ file # <<>>))
        THEN Fail /\ UNCHANGED file
        ELSE \/ phase' = "drain" /\ file' = lines
             \/ "disk" \in q.lost /\ Fail /\ UNCHANGED file
             \/ "disk" \in q.lost /\ Fail /\ \E n \in 0 .. Len(lines) : file' = SubSeq(lines, 1, n)

(* handle_buffering_combine, once every thread has sent its batches; the   *)
(* list of state ids may be empty.  Combine scans, then appends.           *)
CombineRpc ==
    /\ SendsCombine
    /\ LET bound == BufferingOutputSchema(None)
           sunk  == IF CombineScans(q.fn) THEN log[CombineReads(q.fn)] ELSE <<>>
       IN  IF bound = None \/ q.fn.combineError \/ MissingCopyTo
           THEN Fail /\ UNCHANGED <<log, nextId, file, dropped>>
           ELSE \E seen \in Scans(sunk) :
                LET made == CombineAppends(q.fn, seen, bound)
                    missed == Indexes(sunk) \ Indexes(seen)
                    failing == {0} \cup (IF MayDrop /\ missed = {} THEN DOMAIN made ELSE {})
                IN  /\ \E lost \in failing :
                         LET kept == SelectSeq([i \in DOMAIN made |-> i], LAMBDA i : i # lost)
                         IN  /\ log' = [log EXCEPT !["buf"] =
                                  @ \o [i \in DOMAIN kept |-> [id |-> nextId + i - 1, value |-> made[kept[i]]]]]
                             /\ nextId' = nextId + Len(kept)
                             /\ dropped' = dropped \cup missed \cup (IF lost = 0 THEN {} ELSE {made[lost].idx})
                    /\ IF q.fn.kind \in {"copy", "secret"} THEN Close(BufferingArguments, seen)
                       ELSE phase' = "drain" /\ UNCHANGED file
    /\ ids' = FinalizeIds(q.fn)
    /\ UNCHANGED <<q, kv, sink, prod, out>>

(* The finalize init for the next id.                                      *)
Finalize ==
    /\ phase = "drain" /\ prod = None /\ ids # <<>>
    /\ prod' = [FinalizeProducer(q.fn, Head(ids)) EXCEPT !.match = q.match]
    /\ ids' = Tail(ids)
    /\ UNCHANGED <<q, phase, kv, log, nextId, sink, out, file, dropped>>

(* One turn of the drain.  A scan that fails, of the one entry after the   *)
(* cursor, ends it.  Over HTTP the producer is rebuilt for the next turn   *)
(* from what encode_resume kept.                                           *)
Drain ==
    /\ phase = "drain" /\ prod # None
    /\ \E seen \in {log["buf"]} \cup (IF MayDrop THEN {<<>>} ELSE {}) :
       LET pull == NextBatch(q.fn, prod, seen, OnBind(q.fn, q.schema))
           rest == SelectSeq(log["buf"], LAMBDA e : e.id > prod.after)
       IN  /\ dropped' = dropped \cup (IF seen = <<>> THEN Indexes(rest) ELSE {})
           /\ IF pull.err THEN Fail /\ UNCHANGED <<prod, out>>
              ELSE /\ UNCHANGED phase
                   /\ IF pull.batch = None THEN prod' = None /\ UNCHANGED out
                      ELSE /\ out' = Append(out, [rows |-> pull.batch.rows, schema |-> pull.batch.schema,
                                                  meta |-> pull.p.meta])
                           /\ prod' = IF q.http
                                      THEN RestoreResume(FinalizeProducer(q.fn, pull.p.id), pull.p)
                                      ELSE pull.p
    /\ UNCHANGED <<q, kv, log, nextId, sink, ids, file>>

(* handle_buffering_destructor, when everything is drained or the query    *)
(* was abandoned.                                                          *)
Destructor ==
    /\ \/ phase = "drain" /\ prod = None /\ ids = <<>> /\ phase' = "done"
       \/ phase = "failed" /\ phase' = "aborted"
    /\ kv' = Absent
    /\ log' = [ns \in Logs |-> <<>>]
    /\ UNCHANGED <<q, nextId, sink, ids, prod, out, file, dropped>>

BufNext ==
    \/ Begin \/ CombineRpc \/ Finalize \/ Drain \/ Destructor
    \/ \E t \in SinkThreads : Process(t) \/ ProcessCount(t)
-----------------------------------------------------------------------------
Stored == SelectSeq(q.source, LAMBDA b : b.idx \notin dropped)
AllRows == FlattenSeq([i \in DOMAIN Stored |-> Stored[i].rows])
OutRows == FlattenSeq([i \in DOMAIN out |-> out[i].rows])
Count(seq, x) == Cardinality({i \in DOMAIN seq : seq[i] = x})
SameRows(s, t) == Len(s) = Len(t) /\ \A i \in DOMAIN s : Count(s, s[i]) = Count(t, s[i])
NotModified == q.match /\ q.fn.cache \in {"revalidate", "revalidate_no_store"}

(* What the whole execution promises over its input, however it was dealt. *)
Promised ==
    LET bound == OnBind(q.fn, q.schema)
    IN  IF NotModified \/ 0 \in dropped THEN OutRows = <<>>
        ELSE CASE q.fn.kind = "input" ->
                      IF q.fn.ordered THEN OutRows = AllRows ELSE SameRows(OutRows, AllRows)
               [] q.fn.kind = "indexed" -> OutRows = AllRows
               [] q.fn.kind = "sum" ->
                      OutRows = IF q.fn.everyOther THEN <<[c \in DOMAIN bound |-> 0]>>
                                ELSE <<SumColumns(q.schema, AllRows)>>
               [] q.fn.kind = "large" -> OutRows = <<[c \in DOMAIN bound |-> Len(Stored)]>>
               [] q.fn.kind = "wide" -> OutRows = [i \in 1 .. WideRows |-> <<i - 1>>]
               [] q.fn.kind = "ordered_source" -> OutRows = [i \in 1 .. OrderedN |-> <<i - 1>>]
               [] OTHER -> OutRows = <<>>

(* A query that ends without an error received exactly what the function   *)
(* promises over the whole input: every buffered row once, across threads, *)
(* workers and HTTP continuations, in source order where the function asks *)
(* for it, and in the schema the bind announced even when the stored       *)
(* schema was lost (dispatch.rs buffering_output_schema).  A store call    *)
(* that fails goes unreported: it costs the batches it was about, and no   *)
(* other row is lost, repeated or moved.                                   *)
DrainExact ==
    phase = "done" =>
        /\ Promised
        /\ \A i \in DOMAIN out : out[i].schema = OnBind(q.fn, q.schema)

(* Every batch of a drain carries the same cache advertisement, the one    *)
(* that fits its answer: a validator that matched never lets rows out      *)
(* under a not-modified answer, and a resumed drain does not fall back to  *)
(* the advertisement of a fresh one.                                       *)
OneAdvertisement ==
    \A i, j \in DOMAIN out :
        /\ out[i].meta = out[j].meta
        /\ out[i].meta \in {"not_modified", "no_store_not_modified"} => out[i].rows = <<>>

(* A COPY TO that succeeds leaves a destination with every stored row      *)
(* exactly once (in order for the ordered writer).  One that fails before  *)
(* close opens the destination leaves it as it was; one that fails in      *)
(* close may have emptied it and written some of the rows, each once and   *)
(* after the header (copy_to/mod.rs close is the only writer).             *)
CopyToExact ==
    q.fn.kind = "copy" =>
        LET body == SelectSeq(file, LAMBDA l : l.what = "row")
            head == SelectSeq(file, LAMBDA l : l.what = "header")
            want == [i \in DOMAIN AllRows |->
                        Line("row", [c \in DOMAIN AllRows[i] |->
                            IF AllRows[i][c] = None THEN q.opts.null_string ELSE AllRows[i][c]])]
            headers == IF q.opts.header /\ (AllRows # <<>> \/ "insc" \notin q.lost)
                       THEN q.opts.header_repeat ELSE 0
            before == IF q.exists THEN OldFile ELSE <<>>
        IN  /\ phase = "done" =>
                   /\ IF q.fn.ordered THEN body = want ELSE SameRows(body, want)
                   /\ Len(head) = headers
            /\ phase \in {"failed", "aborted"} /\ file # before =>
                   /\ "disk" \in q.lost
                   /\ file = head \o body
                   /\ Len(head) <= headers /\ (body # <<>> => Len(head) = headers)
                   /\ IF q.fn.ordered THEN IsPrefix(body, want)
                      ELSE \A i \in DOMAIN body : Count(body, body[i]) <= Count(want, body[i])

(* A sink-and-drain function returns what its function makes of all the    *)
(* rows sunk, advertises its cache control once, and a COPY TO writes them *)
(* whole or reports that it did not (table_buffering_process, _combine,    *)
(* the finalize producers, CopyToBuffering).                               *)
BufferingExact == DrainExact /\ OneAdvertisement /\ CopyToExact
=============================================================================
