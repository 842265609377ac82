---------------------------- MODULE InOutFunctions ----------------------------
(***************************************************************************)
(* The table-in-out functions of the example worker                        *)
(* (vgi-example-worker/src/table_in_out) over the emit surface of          *)
(* vgi/src/table_in_out.rs.  A batch is a sequence of rows, a row a        *)
(* sequence of integers or Null.  A function gets a call                   *)
(*   args          its named and constant arguments                        *)
(*   columns       the columns of the projected output schema, by position *)
(*   if_none_match the validator of a conditional request, or None         *)
(* and an input batch, and answers with what it put in TableInOutOutput:   *)
(* the batches, whether there is more and from where, what it appended to  *)
(* the execution's log, or a failure.                                      *)
(***************************************************************************)
EXTENDS Integers, SequencesExt

CONSTANTS Null, None

Row(k) == k - 1     \* rows are counted from 0 on the wire
-----------------------------------------------------------------------------
(* The emit surface.                                                       *)

EmptyOutput == [items |-> <<>>, more |-> FALSE, resume |-> None, partial |-> None, err |-> FALSE]
Failed == [EmptyOutput EXCEPT !.err = TRUE]

NoCache == [ttl |-> None, etag |-> None, revalidatable |-> FALSE, per_value |-> FALSE,
            not_modified |-> FALSE, no_store |-> FALSE, stale |-> None, scope |-> "global"]
Ttl(n) == [NoCache EXCEPT !.ttl = n]
Revalidatable(etag) == [Ttl(0) EXCEPT !.etag = etag, !.revalidatable = TRUE]

Emit(rows) == [EmptyOutput EXCEPT !.items = <<[rows |-> rows, parents |-> None, cache |-> None]>>]

(* emit_with: provenance has one entry for each row, and an empty one is   *)
(* left off.                                                               *)
EmitWith(rows, parents, cache) ==
    IF parents # None /\ Len(parents) # Len(rows) THEN Failed
    ELSE [EmptyOutput EXCEPT !.items =
            <<[rows |-> rows, parents |-> IF parents = <<>> THEN None ELSE parents,
               cache |-> cache]>>]

(* project_batch and the functions that build only the projected columns.  *)
Project(rows, columns) == [k \in DOMAIN rows |-> [c \in DOMAIN columns |-> rows[k][columns[c]]]]

NonNull(values) == SelectSeq(values, LAMBDA v : v # Null)
SumOf(values) == FoldSeq(LAMBDA x, y : x + y, 0, NonNull(values))
FirstColumn(batch) == [k \in DOMAIN batch |-> batch[k][1]]
MapRows(Op(_), batch) == [k \in DOMAIN batch |-> Op(batch[k])]
-----------------------------------------------------------------------------
(* The classic functions of table_in_out/mod.rs.                           *)

(* echo leaves process() at its default: the input as it came.             *)
EchoFunction(call, batch) == Emit(batch)

EchoWitnessFunction(call, batch) ==
    Emit(MapRows(LAMBDA r : [c \in DOMAIN call.columns |-> Len(call.columns)], batch))

SlowCancellableInOutFunction(call, batch) == Emit(Project(batch, call.columns))

FilterBySettingFunction(call, batch) ==
    Emit(SelectSeq(batch, LAMBDA r : r[1] # Null /\ r[1] >= call.args.threshold))

RepeatInputsFunction(call, batch) ==
    Emit(FlattenSeq([k \in 1..call.args.repeat_count |-> Project(batch, call.columns)]))

(* The two-phase bind resolved the secret; it becomes the last column.     *)
SecretInOutFunction(call, batch) ==
    EmitWith(MapRows(LAMBDA r : Append(r, call.args.secret), batch), None, Ttl(300))

(* Both append to the execution's log and answer at the end of the stream. *)
SubstreamPartialSumFunction(call, batch) ==
    [EmptyOutput EXCEPT !.partial = [sum |-> SumOf(FirstColumn(batch)), rows |-> Len(batch)]]

SubstreamPartialSumFinish(log) ==
    <<SumOf([k \in DOMAIN log |-> log[k].sum])>>

MultiBatchFinishFunction(call, batch) ==
    [EmptyOutput EXCEPT !.partial = [sum |-> SumOf(FirstColumn(batch)), rows |-> Len(batch)]]

(* One batch for every row seen: the first with the total, the rest 0.     *)
MultiBatchFinish(log) ==
    [k \in 1..SumOf([j \in DOMAIN log |-> log[j].rows]) |->
        IF k = 1 THEN SumOf([j \in DOMAIN log |-> log[j].sum]) ELSE 0]
-----------------------------------------------------------------------------
(* The blended functions of blended.rs: the positional arguments are the   *)
(* columns of the input.                                                   *)

AnyNull(r) == \E c \in DOMAIN r : r[c] = Null

(* round_p, on numbers in hundredths: half away from zero.                 *)
RoundP(v, p) ==
    LET unit  == IF p >= 2 THEN 1 ELSE IF p = 1 THEN 10 ELSE 100
        away  == (((IF v < 0 THEN -v ELSE v) + (unit \div 2)) \div unit) * unit
    IN  IF v < 0 THEN -away ELSE away

(* The rounded coordinates are the code; a NULL in one makes it NULL.      *)
Geohash(r, n, p) ==
    IF AnyNull(SubSeq(r, 1, n)) THEN <<Null>>
    ELSE <<[c \in 1..n |-> RoundP(r[c], p)]>>

GeoEncodeFunction(call, batch) == Emit(MapRows(LAMBDA r : Geohash(r, 2, call.args.precision), batch))
GeoEncode3Function(call, batch) == Emit(MapRows(LAMBDA r : Geohash(r, 3, call.args.precision), batch))

Magnitude(v) == IF v # Null /\ v < 0 THEN -v ELSE v

RowSumFunction(call, batch) ==
    Emit(MapRows(LAMBDA r :
            IF AnyNull(r) THEN <<Null>>
            ELSE <<SumOf([c \in DOMAIN r |-> IF call.args.absolute THEN Magnitude(r[c]) ELSE r[c]])>>,
            batch))

BlendedDropFunction(call, batch) == Emit(<<>>)

CountOf(v) == IF v = Null \/ v < 0 THEN 0 ELSE v
Counts(batch) == [k \in DOMAIN batch |-> CountOf(batch[k][1])]

(* 0..n-1 for each input row, in order, with the row each came from.       *)
Exploded(counts) == FlattenSeq([k \in DOMAIN counts |-> [i \in 1..counts[k] |-> <<i - 1>>]])
ExplodedFrom(counts) == FlattenSeq([k \in DOMAIN counts |-> [i \in 1..counts[k] |-> Row(k)]])

BlendedExplodeFunction(call, batch) ==
    EmitWith(Exploded(Counts(batch)), ExplodedFrom(Counts(batch)), None)

BlendedAnyFunction(call, batch) == Emit(MapRows(LAMBDA r : <<r[1]>>, batch))
BlendedAnyVarargsFunction(call, batch) == Emit(batch)

Times(v, factor) == IF v = Null THEN Null ELSE v * factor

(* Only the projected ones of a = 10 x and b = 100 x are computed.         *)
ProjectableBlendedFunction(call, batch) ==
    Emit(MapRows(LAMBDA r : [c \in DOMAIN call.columns |->
                    Times(r[1], IF call.columns[c] = 1 THEN 10 ELSE 100)], batch))
-----------------------------------------------------------------------------
(* The cache-advertising functions of cached.rs.                           *)

CACHE_TTL == 300

CachedEchoFunction(call, batch) == EmitWith(Project(batch, call.columns), None, Ttl(CACHE_TTL))
CachedSerialEchoFunction(call, batch) == EmitWith(Project(batch, call.columns), None, Ttl(CACHE_TTL))
CachedFinalizingEchoFunction(call, batch) == EmitWith(Project(batch, call.columns), None, Ttl(CACHE_TTL))

Doubled(batch) == MapRows(LAMBDA r : <<Times(r[1], 2)>>, batch)

CachedDoubleFunction(call, batch) ==
    EmitWith(Doubled(batch), None, [Ttl(CACHE_TTL) EXCEPT !.per_value = TRUE])

(* Round k emits value k for every parent with more than k, so a parent's  *)
(* rows are not contiguous.                                                *)
CachedExplodeFunction(call, batch) ==
    LET counts == Counts(batch)
        rounds == 0..(IF counts = <<>> THEN -1 ELSE Max(ToSet(counts)) - 1)
        pairs  == FlattenSeq([r \in 1..Cardinality(rounds) |->
                      SelectSeq([k \in DOMAIN counts |-> <<k, r - 1>>], LAMBDA p : counts[p[1]] > p[2])])
    IN  EmitWith([j \in DOMAIN pairs |-> <<pairs[j][2]>>], [j \in DOMAIN pairs |-> Row(pairs[j][1])],
                 [Ttl(CACHE_TTL) EXCEPT !.per_value = TRUE])

(* content_etag: a digest of the batch, here the batch itself.             *)
ContentEtag(batch) == [version |-> "content", of |-> batch]

NotModified(cache) == EmitWith(<<>>, None, [cache EXCEPT !.not_modified = TRUE])

CachedRevalidatingEchoFunction(call, batch) ==
    LET projected == Project(batch, call.columns)
        fresh     == Revalidatable(ContentEtag(projected))
    IN  IF call.if_none_match = fresh.etag THEN NotModified(fresh)
        ELSE EmitWith(projected, None, fresh)

CachedRevalidatingDoubleFunction(call, batch) ==
    LET fresh == Revalidatable(ContentEtag(batch))
    IN  IF call.if_none_match = fresh.etag THEN NotModified(fresh)
        ELSE EmitWith(Doubled(batch), None, fresh)

CachedRevalidationPolicyFunction(call, batch) ==
    LET projected == Project(batch, call.columns)
        control   == [Revalidatable(ContentEtag(projected)) EXCEPT !.stale = 60]
        noStore   == [NoCache EXCEPT !.no_store = TRUE]
    IN  IF call.if_none_match # control.etag THEN EmitWith(projected, None, control)
        ELSE CASE call.args.policy = "error"                 -> Failed
               [] call.args.policy = "not_modified_no_store" -> NotModified(noStore)
               [] call.args.policy = "fresh_no_store"        -> EmitWith(projected, None, noStore)
               [] call.args.policy = "transaction"           ->
                      NotModified([Ttl(60) EXCEPT !.scope = "transaction"])
               [] OTHER                                      -> NotModified(control)
-----------------------------------------------------------------------------
(* The continued-output functions of paged.rs.                             *)

PagedState(counts) == [counts |-> counts, row |-> 1, offset |-> 0, call_rows |-> 0, page |-> 0,
                       empty_first |-> FALSE, bump |-> 0]

(* PagedArgs::validate, at bind.                                           *)
PagedArgsValid(args) == args.page_size >= 1 /\ args.cache_ttl >= 0

TtlCacheControl(args) == IF args.cache_ttl > 0 THEN Ttl(args.cache_ttl) ELSE None

Version(v) == [version |-> v, of |-> <<>>]

(* paged_begin: the state and the cache control of an input's first reply. *)
PagedBegin(call, counts) ==
    LET st == PagedState(counts)
    IN  CASE ~call.args.revalidate -> [st |-> st, cache |-> TtlCacheControl(call.args)]
          [] call.args.revalidate /\ call.if_none_match = None ->
                 [st |-> [st EXCEPT !.bump = -1], cache |-> Revalidatable(Version("v1"))]
          [] call.args.revalidate /\ call.if_none_match # None /\ call.args.not_modified_more ->
                 [st |-> [st EXCEPT !.bump = 1000, !.empty_first = TRUE],
                  cache |-> [Revalidatable(Version("v1")) EXCEPT !.not_modified = TRUE]]
          [] OTHER -> [st |-> [st EXCEPT !.bump = 1000], cache |-> Revalidatable(Version("v2"))]

(* Input rows with no output after a page are skipped.                     *)
SkipEmpty(st) ==
    LET left == {k \in st.row..Len(st.counts) : st.counts[k] # 0}
    IN  [st EXCEPT !.row = IF left = {} THEN Len(st.counts) + 1 ELSE Min(left)]

(* The first loop of next_page, as the state it ends in: whole rows are    *)
(* taken while they fit, then part of one.                                 *)
Taken(st, page) ==
    LET Left(k)  == st.counts[k] - (IF k = st.row THEN st.offset ELSE 0)
        Until(k) == SumOf([j \in 1..(k - st.row) |-> Left(st.row + j - 1)])
        ends     == {k \in st.row..Len(st.counts) : Until(k) + Left(k) > page}
        last     == IF ends = {} THEN Len(st.counts) + 1 ELSE Min(ends)
        full     == {k \in st.row..last : Until(k) = page}
        stop     == IF full = {} THEN last ELSE Min(full)
    IN  [st EXCEPT !.row = stop,
                   !.offset = IF stop > Len(st.counts) THEN 0
                              ELSE (IF stop = st.row THEN st.offset ELSE 0) + page - Until(stop)]

(* next_page: the rows between the two positions.                          *)
PageBetween(st, end) ==
    LET Part(k) == LET lo == IF k = st.row THEN st.offset ELSE 0
                       hi == IF k = end.row THEN end.offset ELSE st.counts[k]
                   IN  [i \in 1..(hi - lo) |-> <<lo + i - 1, Row(k)>>]
        pairs == FlattenSeq([j \in 1..((IF end.row > Len(st.counts) THEN Len(st.counts) ELSE end.row)
                                       - st.row + 1) |-> Part(st.row + j - 1)])
        next  == IF end.offset = 0 THEN SkipEmpty(end) ELSE end
    IN  [st |-> next, vals |-> [j \in DOMAIN pairs |-> pairs[j][1]],
         parents |-> [j \in DOMAIN pairs |-> pairs[j][2]], more |-> next.row <= Len(st.counts)]

NextPage(st, page) == PageBetween(st, Taken(st, page))

Everything == 1000     \* more rows than any input of an instance fans out to

(* paged_next: None is the failure fail_on_page asks for.                  *)
PagedNext(args, before) ==
    LET st   == [before EXCEPT !.page = @ + 1]
        page == NextPage(st, args.page_size)
    IN  CASE st.page = args.fail_on_page      -> None
          [] st.page # args.fail_on_page /\ st.page = 1 /\ st.empty_first ->
                 [st |-> st, vals |-> <<>>, parents |-> <<>>, more |-> TRUE]
          [] st.page # args.fail_on_page /\ ~(st.page = 1 /\ st.empty_first) /\ st.bump < 0 ->
                 NextPage(st, Everything)
          [] OTHER -> [page EXCEPT !.vals = [j \in DOMAIN @ |-> @[j] + st.bump]]

EmitPage(page, rows, parents, cache) ==
    LET out == EmitWith(rows, parents, cache)
    IN  IF page.more /\ ~out.err THEN [out EXCEPT !.more = TRUE, !.resume = page.st] ELSE out

PagedReply(page, attributed, cache) ==
    IF page = None THEN Failed
    ELSE EmitPage(page, [j \in DOMAIN page.vals |-> <<page.vals[j]>>],
                  IF attributed THEN page.parents ELSE None, cache)

BlendedPagedResume(call, st, cache) == PagedReply(PagedNext(call.args, st), TRUE, cache)

BlendedPagedFunction(call, batch) ==
    LET begin == PagedBegin(call, Counts(batch))
    IN  BlendedPagedResume(call, begin.st, begin.cache)

SLICED_ROWS_PER_CALL == 3

SlicedReply(page, st, cache) ==
    EmitPage(page, [j \in DOMAIN page.vals |-> <<page.vals[j], st.call_rows>>], page.parents, cache)

BlendedSlicedResume(call, st, cache) == SlicedReply(NextPage(st, call.args.page_size), st, cache)

BlendedSlicedFunction(call, batch) ==
    LET cache == IF call.args.cache_ttl > 0 THEN [Ttl(call.args.cache_ttl) EXCEPT !.per_value = TRUE]
                 ELSE None
    IN  IF Len(batch) > SLICED_ROWS_PER_CALL THEN Failed
        ELSE BlendedSlicedResume(call, [PagedState(Counts(batch)) EXCEPT !.call_rows = Len(batch)], cache)

(* No provenance: the output of a TABLE argument is not attributed.        *)
PagedExplodeResume(call, st, cache) == PagedReply(PagedNext(call.args, st), FALSE, cache)

PagedExplodeFunction(call, batch) ==
    LET begin == PagedBegin(call, Counts(batch))
    IN  PagedExplodeResume(call, begin.st, begin.cache)
=============================================================================
