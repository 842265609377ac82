----------------------------- MODULE ScanFixtures -----------------------------
(***************************************************************************)
(* The example worker's functions that share a work queue between the      *)
(* workers of one scan (table/batch_index.rs, order_modes.rs,              *)
(* partition.rs), and its fixed scans (static_scan.rs, versioned_scan.rs,  *)
(* tt_pushdown.rs, rff.rs, settings_fixtures.rs).                          *)
(*                                                                         *)
(* The cacheable functions (table/cache.rs): `adv` says on which batch the *)
(* freshness of the result is advertised and how the producer knows it is  *)
(* that batch: at row 0 ("start"), by a flag it carries ("flag"), by its   *)
(* batch counter ("counter"), or on each ("every").                        *)
(*                                                                         *)
(* The functions about pushed filters (table/filters.rs): the dispatcher   *)
(* applies the filters, so a scan gives the rows below less the ones       *)
(* filtered out.                                                           *)
(***************************************************************************)
EXTENDS ProducerFunctions

(* A producer that pops an item and drains it: the item it holds travels   *)
(* in the token, since the queue no longer has it.                         *)
Queued(f, items, workers) ==
    [f EXCEPT !.prod = "queue", !.saves = {"cur"}, !.work = items, !.workers = workers]

(* A producer that emits one whole item per pop: nothing to carry.         *)
QueuedWhole(f, items, workers) ==
    [f EXCEPT !.prod = "whole", !.saves = {}, !.work = items, !.workers = workers]
-----------------------------------------------------------------------------
(* table/batch_index.rs                                                    *)

PushWork(count, chunk) == Items(count, chunk)

PartitionedBatchIndexFunction(a) ==
    LET n == AtLeast(0, Val(a.n, 0))
    IN  Queued([Plain EXCEPT !.count = n, !.batch = 1000, !.max = Val(a.n, None),
                             !.tag = "pid", !.ordered = TRUE], PushWork(n, 1000), 4)

PartitionedBatchIndexMarkedFunction(a) ==
    LET n == AtLeast(0, Val(a.n, 0))
    IN  Unprojected(Queued([Plain EXCEPT !.count = n, !.batch = 1000, !.max = Val(a.n, None),
                                         !.tag = "pid", !.ordered = TRUE,
                                         !.cols = <<"partition_id", "seq">>],
                           PushWork(n, AtLeast(1, Val(a.chunk, 1000))), 4))

(* Declares an order it breaks: no tag, a tag that falls, a tag too large. *)
BrokenBatchIndexFunction(mode, a) ==
    Unprojected([Plain EXCEPT
        !.prod = "broken", !.count = AtLeast(0, Val(a.n, 1)) + (IF mode = "NonMonotone" THEN 1 ELSE 0),
        !.batch = AtLeast(0, Val(a.n, 1)), !.max = Val(a.n, None), !.ordered = TRUE,
        !.tag = CASE mode = "Missing" -> "never" [] mode = "NonMonotone" -> "falls"
                  [] mode = "Overflow" -> "huge"])

(* table/order_modes.rs: capped number of items, or items of 1000 rows.    *)
QueueSeqFunction(maxPartitions, hasIncrement, a) ==
    LET n     == AtLeast(0, Val(a.n, 0))
        chunk == IF maxPartitions = None THEN 1000 ELSE AtLeast(1, CeilDiv(n, maxPartitions))
    IN  Unprojected(Queued([Plain EXCEPT !.count = n, !.batch = 1000, !.max = Val(a.n, None),
                                         !.step = IF hasIncrement THEN Val(a.inc, 1) ELSE 1],
                           Items(n, chunk), 4))
-----------------------------------------------------------------------------
(* table/partition.rs                                                      *)

NumPartitions(k, a) ==
    CASE k \in {"CountrySales", "TrailingSales"} -> 5
      [] k = "RegionYear" -> 6
      [] k = "Override"   -> 3
      [] k \in {"Disjoint", "Overlapping"} -> AtLeast(0, Val(a.n, 0))

RowsPerPartition(k, a) ==
    IF k \in {"Disjoint", "Overlapping"} THEN AtLeast(1, Val(a.batch, 10)) ELSE AtLeast(1, Val(a.n, 1))

PartitionSchema(k) ==
    CASE k = "CountrySales"  -> <<"country", "sales">>
      [] k = "TrailingSales" -> <<"seq", "label", "sales", "country">>
      [] k = "RegionYear"    -> <<"region", "year", "value">>
      [] k = "Override"      -> <<"category", "revenue">>
      [] OTHER               -> <<"key", "value">>

(* Mutant: the disjoint ranges have the overlapping ones' stride.          *)
Mut_PartitionStride(k) == IF k \in {"Overlapping", "Disjoint"} THEN 500 ELSE 0

(* build_batch: the first key of partition i; a single-valued partition's  *)
(* key is its index.                                                       *)
PartitionStride(k) == CASE k = "Overlapping" -> 500 [] k = "Disjoint" -> 1000 [] OTHER -> 0

PartitionFunction(k, a) ==
    LET rows == RowsPerPartition(k, a)
        all  == NumPartitions(k, a) * rows
    IN  QueuedWhole([Plain EXCEPT
            !.count = all, !.batch = rows, !.pv = TRUE, !.stride = PartitionStride(k),
            !.kind = CASE k = "Disjoint" -> "DISJOINT" [] k = "Overlapping" -> "OVERLAPPING"
                       [] OTHER -> "SINGLE_VALUE",
            !.project = (k = "TrailingSales"), !.cols = PartitionSchema(k)], Partitions(NumPartitions(k, a), rows), 4)

(* One batch of five rows without values, with two values, or an error.    *)
BrokenPartitionFunction(mode) ==
    Unprojected(Unresumable([Plain EXCEPT
        !.prod = IF mode \in {"NoAnnotation", "AbsentColumn"} THEN "offset" ELSE "flag",
        !.count = IF mode \in {"NoAnnotation", "AbsentColumn"} THEN 0 ELSE 5,
        !.ends = IF mode \in {"NoAnnotation", "AbsentColumn"} THEN "error" ELSE "done",
        !.kind = IF mode = "NoAnnotation" THEN None ELSE "SINGLE_VALUE",
        !.pv = (mode = "MinNeqMax"), !.stride = IF mode = "MinNeqMax" THEN 1 ELSE 0,
        !.cols = <<"country", "sales">>]))
-----------------------------------------------------------------------------
(* table/static_scan.rs                                                    *)

StaticScan(rows, cols) ==
    Unprojected(OneBatch([Plain EXCEPT !.count = rows, !.max = rows, !.cols = cols]))

FixtureScans ==
    {StaticScan(3, <<"id", "name", "budget">>),
     StaticScan(5, <<"id", "name", "email", "department_id">>),
     StaticScan(3, <<"department_id", "project_code", "title">>),
     StaticScan(3, <<"id", "name", "quantity", "price">>),
     StaticScan(3, <<"id", "color", "hex_code">>)}

RegisterVersionedTables ==
    {StaticScan(5, <<"name", "legs", "sound">>),
     StaticScan(5, <<"name", "legs", "sound", "color">>),
     StaticScan(5, <<"name", "kind", "height_m">>)}

(* The layout and the row id type are checked when the call is bound.      *)
RowIdSequenceFunction(layout, rowIdType, a) ==
    IF layout \notin {"first", "middle", "last"} \/ rowIdType \notin {"int64", "string", "struct"}
    THEN Refused
    ELSE OneBatch([Plain EXCEPT !.count = AtLeast(0, Val(a.n, 0)), !.max = Val(a.n, None),
                                !.cols = CASE layout = "middle" -> <<"name", "row_id", "value">>
                                           [] layout = "last"   -> <<"name", "value", "row_id">>
                                           [] layout = "first"  -> <<"row_id", "name", "value">>])

(* table/versioned_scan.rs: rows and columns of each version.              *)
VersionedDataScan(v) ==
    CASE v = 1 -> StaticScan(3, <<"id">>)
      [] v = 2 -> StaticScan(5, <<"id", "name", "score", "active">>)
      [] OTHER -> StaticScan(4, <<"id", "score">>)

VersionedConstraintsScan(v) ==
    CASE v = 1 -> StaticScan(2, <<"id", "name">>)
      [] v = 2 -> StaticScan(3, <<"id", "name", "email">>)
      [] OTHER -> StaticScan(3, <<"id", "name", "email", "department_id">>)

(* table/tt_pushdown.rs                                                    *)
ResolveTtVersion(unit, value) ==
    CASE unit = None -> 2
      [] unit = "VERSION" -> IF value \in {1, 2} THEN value ELSE None
      [] unit = "TIMESTAMP" -> IF value = None THEN None ELSE IF value <= 2020 THEN 1 ELSE 2
      [] OTHER -> None

TtRows(v) == IF v = 1 THEN 5 ELSE 10
TtSchema == <<"id", "val", "seen_version", "pushed_filters">>

TimeTravelPushdownFunction(unit, value) ==
    LET v == ResolveTtVersion(unit, value)
    IN  IF v = None THEN Refused
        ELSE OneBatch([Plain EXCEPT !.count = TtRows(v), !.base = 1, !.cols = TtSchema])

TtPushdownColsScanFunction(a) ==
    LET rows == TtRows(Val(a.n, 2))
    IN  OneBatch([Plain EXCEPT !.count = rows, !.base = 1, !.max = rows, !.cols = TtSchema])

(* table/rff.rs                                                            *)
RffScan(shape) ==
    CASE shape \in {"simple", "none"} -> StaticScan(3, <<"a", "b">>)
      [] shape = "struct" -> StaticScan(3, <<"s", "other">>)
      [] shape = "nested" -> StaticScan(3, <<"wrapper">>)
      [] shape = "multi"  -> StaticScan(2, <<"s", "top">>)

RffRowidScan ==
    OneBatch([Plain EXCEPT !.count = 10, !.max = 10, !.cols = <<"row_id", "bbox", "other">>,
                           !.emits = "projected"])
-----------------------------------------------------------------------------
(* table/settings_fixtures.rs                                              *)

(* One row per field of the resolved secret, no batch when there is none.  *)
SecretDemoFunction(fields) ==
    Unprojected(OneBatch([Plain EXCEPT !.count = fields, !.adv = "start", !.emits = "projected",
                                       !.prod = IF fields = 0 THEN "offset" ELSE "flag",
                                       !.cols = <<"key", "value", "arrow_type">>]))

ScopedSecretDemoFunction ==
    Unprojected(OneBatch([Plain EXCEPT !.count = 1, !.cols = <<"scope", "found", "secret_keys">>]))

MultiSecretDemoFunction ==
    Unprojected(OneBatch([Plain EXCEPT !.count = 1, !.cols = <<"api_key">>]))

SettingsAwareFunction(verbose, a) ==
    Unprojected(OneBatch([Plain EXCEPT
        !.count = AtLeast(0, Val(a.n, 0)),
        !.cols = IF verbose THEN <<"id", "greeting", "value", "details">>
                 ELSE <<"id", "greeting", "value">>]))

StructSettingsFunction(start, step, a) ==
    Unprojected(OneBatch([Plain EXCEPT !.count = AtLeast(0, Val(a.n, 0)), !.base = Val(start, 0),
                                       !.step = Val(step, 1), !.cols = <<"n", "label">>]))

-----------------------------------------------------------------------------
(* Countdown: advertised at row 0, both counters travel.                   *)
CacheCountdown(rows, batch) ==
    Unprojected(Counted([Plain EXCEPT !.count = AtLeast(0, rows), !.batch = batch, !.adv = "start"]))

CacheableNumbersFunction(a) ==
    [CacheCountdown(Val(a.n, 10), 1000) EXCEPT !.max = Val(a.n, 10)]

CacheNoStoreFunction(a) == CacheCountdown(Val(a.n, 10), 1000)

CacheBigFunction(a) == [CacheCountdown(Val(a.n, 5000), 1000) EXCEPT !.max = Val(a.n, 5000)]

CacheBenchFunction(a) ==
    [CacheCountdown(Val(a.n, 0), 2048) EXCEPT !.max = Val(a.n, None), !.cols = <<"v">>]

CacheFilteredFunction(a) == CacheCountdown(Val(a.n, 100), 2048)

(* Every fifth row is NULL in all the nullable columns.                    *)
CacheTypesFunction(a) ==
    [CacheCountdown(Val(a.n, 0), 2048) EXCEPT
        !.cols = <<"id", "tags", "attrs", "amt", "ts", "label">>]

(* One batch and no position: the producer is not rebuilt for it.          *)
CacheSingle(rows, cols) ==
    Unprojected(Unresumable(OneBatch([Plain EXCEPT !.count = rows, !.adv = "start", !.cols = cols])))

(* The nonce is drawn when the producer is built.                          *)
CacheNonceFunction(nonce) == [CacheSingle(1, <<"nonce">>) EXCEPT !.base = nonce]

CacheMultiColFunction(a) == CacheSingle(AtLeast(0, Val(a.n, 4)), <<"a", "b", "c">>)

CacheWhoamiFunction == CacheSingle(1, <<"principal">>)

VersionedRows(v) ==
    CASE v = 1 -> [base |-> 101, count |-> 3]
      [] v = 2 -> [base |-> 201, count |-> 2]
      [] OTHER -> [base |-> 301, count |-> 4]

CacheVersionedFunction(a) ==
    LET rows == VersionedRows(Val(a.n, 3))
    IN  [CacheSingle(rows.count, <<"v">>) EXCEPT !.base = rows.base]

CacheProjectionFunction ==
    [CacheSingle(3, <<"a", "b", "c">>) EXCEPT !.project = TRUE, !.emits = "projected"]

(* In batches of 1000 although the producer carries no position.           *)
CacheScopedTxnFunction(a) ==
    Unprojected(Unresumable([Plain EXCEPT !.prod = "remcur", !.count = AtLeast(0, Val(a.n, 10)),
                                          !.batch = 1000, !.adv = "start",
                                          !.cols = <<"n", "nonce">>]))
-----------------------------------------------------------------------------
(* What the conditional-request fixtures answer to a caller that holds the *)
(* validator `held`, at the `call`th call of that policy.                  *)

RevalidatableReply(held) == IF held = "v1" THEN "not_modified" ELSE "rows"

RevalidationReply(mode, call, held) ==
    CASE mode = "revoke_then_error" /\ call = 2 /\ held = "v1" -> "revoked"
      [] mode = "revoke_then_error" /\ call >= 3               -> "error"
      [] mode = "rotate_then_error" /\ call = 2 /\ held = "v1" -> "rotated"
      [] mode = "rotate_then_error" /\ call >= 3               -> "error"
      [] held = "v1" /\ mode = "revoke"                        -> "revoked"
      [] held = "v1" /\ mode = "stale_if_error"                -> "error"
      [] held = "v1"                                           -> "not_modified"
      [] OTHER                                                 -> "rows"

Replied(reply) ==
    [CacheSingle(IF reply = "rows" THEN 1 ELSE 0, <<"nonce">>) EXCEPT
        !.ends = IF reply = "error" THEN "error" ELSE "done",
        !.prod = IF reply = "error" THEN "offset" ELSE "flag"]

CacheRevalidatableFunction(held) == Replied(RevalidatableReply(held))

CacheRevalidationPolicyFunction(mode, call, held) == Replied(RevalidationReply(mode, call, held))

(* A cacheable batch, then an error, or a pointer nobody can resolve.      *)
Poison(ends) ==
    Unprojected([Plain EXCEPT !.prod = "poison", !.count = 3, !.batch = 3, !.adv = "start",
                              !.saves = {"pos", "done"}, !.ends = ends])

CachePoisonFunction == Poison("error")
CacheExternalFailFunction == Poison("pointer")
-----------------------------------------------------------------------------
(* Work-queue fan-out.                                                     *)

PushChunks(rows, chunk) == Items(rows, AtLeast(1, chunk))

CacheQueue(f, items) ==
    Unprojected([Queued(f, items, 8) EXCEPT !.adv = "flag", !.saves = {"cur", "adv"}])

CacheParallelFunction(a) ==
    LET rows == AtLeast(0, Val(a.n, 0))
    IN  CacheQueue([Plain EXCEPT !.count = rows, !.batch = AtLeast(1, Val(a.batch, 24000)),
                                 !.max = Val(a.n, None), !.cols = <<"v">>],
                   PushChunks(rows, AtLeast(1, CeilDiv(rows, 24))))

CacheOrderedFunction(a) ==
    LET rows == AtLeast(0, Val(a.n, 200000))
    IN  CacheQueue([Plain EXCEPT !.count = rows, !.batch = 256, !.tag = "pid", !.ordered = TRUE],
                   PushChunks(rows, Val(a.chunk, 1000)))
-----------------------------------------------------------------------------
(* Partitioned results: one batch per partition, in order, the index of    *)
(* the next one carried.                                                   *)
ByPartition(partitions, rows, cols) ==
    Unprojected([Plain EXCEPT !.prod = "index", !.count = partitions * rows, !.batch = rows,
                              !.work = Partitions(partitions, rows),
                              !.kind = "SINGLE_VALUE", !.pv = TRUE, !.cols = cols])

RowsPerCountry(a) == AtLeast(0, Val(a.n, 1))

CachePartitionedFunction(a) ==
    [ByPartition(5, RowsPerCountry(a), <<"country", "sales">>) EXCEPT
        !.saves = {"pos", "adv"}, !.adv = "flag"]

CachePartitionScopeFunction(a) ==
    [ByPartition(5, RowsPerCountry(a), <<"country", "sales">>) EXCEPT !.adv = "every"]

CachePartitionMultiColFunction(a) ==
    [ByPartition(4, RowsPerCountry(a), <<"region", "year", "amount">>) EXCEPT !.adv = "every"]

(* The values are given explicitly: the projection may drop the column.    *)
CachePartitionProjFunction(a) ==
    [ByPartition(2, RowsPerCountry(a), <<"country", "sales", "extra">>) EXCEPT
        !.adv = "every", !.project = TRUE, !.emits = "projected"]

CachePartitionParallelFunction(a) ==
    LET rows == RowsPerCountry(a)
    IN  Unprojected([QueuedWhole([Plain EXCEPT
            !.count = 4 * rows, !.batch = rows, !.kind = "SINGLE_VALUE", !.pv = TRUE,
            !.cols = <<"country", "sales">>], Partitions(4, rows), 8)
            EXCEPT !.adv = "every"])

-----------------------------------------------------------------------------
FilterEchoTableScan ==
    OneBatch([Plain EXCEPT !.count = 100, !.max = 100, !.cols = <<"n", "s", "pushed_filters">>])

SpatialFilterExampleFunction(a) ==
    [Plain EXCEPT !.count = AtLeast(0, Val(a.n, 0)), !.batch = AtLeast(1, Val(a.batch, 1024)),
                  !.max = Val(a.n, None), !.cols = <<"n", "x", "y", "geom">>]

ExpressionFilterTestFunction(a) ==
    [Plain EXCEPT !.count = AtLeast(0, Val(a.n, 0)), !.batch = AtLeast(1, Val(a.batch, 1024)),
                  !.max = Val(a.n, None), !.cols = <<"id", "name", "tags", "score">>]

(* Descending; the witness of the current filter is not carried, a rebuilt *)
(* producer reads it off the rebuilt filters.                              *)
DynamicFilterEchoFunction(a) ==
    LET n == AtLeast(0, Val(a.n, 0))
    IN  [Plain EXCEPT !.count = n, !.batch = AtLeast(1, Val(a.batch, 2048)), !.base = n - 1,
                      !.step = -1, !.max = Val(a.n, None), !.cols = <<"n", "pushed_filters">>]

DictFilterEchoFunction(a) ==
    Counted([Plain EXCEPT !.count = AtLeast(0, Val(a.n, 0)), !.batch = 2048,
                          !.max = Val(a.n, None), !.cols = <<"n", "s">>])

(* At most 24 items of equal size; a worker pops one and drains it in      *)
(* batches of 1000, carrying the rest of it between turns.                 *)
FilterEchoPartitionedFunction(a) ==
    LET n == AtLeast(0, Val(a.n, 0))
    IN  Queued([Plain EXCEPT !.count = n, !.batch = 1000, !.max = Val(a.n, None),
                             !.cols = <<"n", "worker_pid", "pushed_filters">>],
               Items(n, AtLeast(1, CeilDiv(n, 24))), 4)

FilterEchoFunction(a) ==
    Counted([Plain EXCEPT !.count = AtLeast(0, Val(a.n, 0)),
                          !.batch = AtLeast(1, Val(a.batch, 2048)), !.max = Val(a.n, None),
                          !.cols = <<"n", "s", "pushed_filters">>])

(* The one batch holds everything that remains.                            *)
BoolFilterEchoFunction(a) ==
    LET n == AtLeast(0, Val(a.n, 0))
    IN  Counted([Plain EXCEPT !.count = n, !.batch = n, !.max = Val(a.n, None),
                              !.cols = <<"n", "flag", "pushed_filters">>])

(* `values` of the key set are left of the filter; the list travels with   *)
(* the cursor, since a rebuilt producer may not see that filter.           *)
ValuePruneFunction(values, a) ==
    Counted([Plain EXCEPT !.count = values, !.batch = AtLeast(1, Val(a.batch, 2048)),
                          !.max = Val(a.n, None), !.cols = <<"n", "resolved">>])

FilteredColumnsEchoFunction(a) ==
    Counted([Plain EXCEPT !.count = AtLeast(0, Val(a.n, 0)), !.batch = 1024,
                          !.max = Val(a.n, None),
                          !.cols = <<"n", "tag", "filtered_cols", "has_n", "has_tag", "tag_values">>])

NamedParamsEchoFunction(a) ==
    Unprojected(Counted([Plain EXCEPT
        !.count = AtLeast(0, Val(a.n, 0)), !.batch = 2048, !.max = Val(a.n, None),
        !.cols = <<"id", "greeting", "value", "float_value", "enabled">>]))
=============================================================================
