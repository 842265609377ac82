------------------------------- MODULE Splits -------------------------------
(***************************************************************************)
(* A scan divided into splits.  The client plans page by page              *)
(* (vgi-client/src/scan.rs), the worker stamps a token on every split and  *)
(* opens it when a reader redeems it (vgi/src/dispatch.rs,                 *)
(* vgi/src/split_token.rs), and readers claim splits in the order of the   *)
(* plan, several per init or one at a time, until none is left.            *)
(*                                                                         *)
(* Each function of the example worker (table/splits.rs) is a descriptor   *)
(* of what its on_plan answers, page by page, and of how its producer      *)
(* reads the splits a reader redeems.  A payload is the range [lo, hi) of  *)
(* rows it names together with its ordinal.                                *)
(***************************************************************************)
EXTENDS Integers, Sequences, SequencesExt, FiniteSets

CONSTANTS
    None,
    MaxPages    \* MAX_PAGES of the client: 1024 in the code

AtMost(a, b) == IF a < b THEN a ELSE b
Positive(a) == IF a > 0 THEN a ELSE 0

Span(lo, hi) == [lo |-> lo, hi |-> hi]

(* even_ranges: contiguous, the remainder over the first few.              *)
EvenRanges(n, k) ==
    LET rows == Positive(n)
        from(i) == i * (rows \div k) + AtMost(i, rows % k)
    IN  IF k <= 0 THEN <<>> ELSE [i \in 1..k |-> Span(from(i - 1), from(i))]

(* SplitScan::plan_ranges.                                                 *)
PlanRanges(shape, n, splits) ==
    LET head == (n * 99) \div 100
        tail == EvenRanges(n - head, splits - 1)
    IN  CASE shape = "Even" -> EvenRanges(n, splits)
          [] shape = "NoSplits" -> <<>>
          [] shape = "EmptyInterleaved" ->
                LET even == EvenRanges(n, splits)
                IN  [i \in 1..(2 * Len(even)) |->
                        LET r == even[(i + 1) \div 2]
                        IN  IF i % 2 = 1 THEN Span(r.lo, r.lo) ELSE r]
          [] shape = "Skewed" ->
                IF n <= 0 \/ splits <= 0 THEN <<>>
                ELSE <<Span(0, head)>>
                     \o [i \in DOMAIN tail |-> Span(head + tail[i].lo, head + tail[i].hi)]
          [] shape = "Many" -> EvenRanges(n, IF splits <= 0 THEN 1000 ELSE splits)
-----------------------------------------------------------------------------
(* A planned split: the payload and the metadata beside it.                *)
Planned(ord, r) ==
    [ord |-> ord, lo |-> r.lo, hi |-> r.hi, rows |-> r.hi - r.lo, key |-> None, range |-> None,
     loc |-> None, bounds |-> None, part |-> None]

Numbered(ranges) == [i \in DOMAIN ranges |-> Planned(i - 1, ranges[i])]

(* A PlanOutcome: one page of the enumeration.                             *)
Outcome(splits) ==
    [splits |-> splits, next |-> <<>>, version |-> None, locations |-> None, grouping |-> None,
     ranges |-> None, partitioning |-> <<>>, sort |-> <<>>, context |-> None, total |-> None]

OnePage(splits) == [c \in {0} |-> Outcome(splits)]

(* A function: its pages by cursor, its columns, its batch size, what its  *)
(* producer carries between two HTTP turns, and what its redemption checks.*)
SplitFunction(count, pages) ==
    [count |-> count, pages |-> pages, cols |-> <<"n">>, batch |-> 1024, reads |-> "walk",
     saves |-> {"idx", "cur"}, failAt |-> -1, failInInit |-> FALSE, policy |-> "fresh",
     context |-> FALSE, ttl |-> None, short |-> FALSE]
-----------------------------------------------------------------------------
(* Arguments for which plan_ranges names fewer rows than n: no split at    *)
(* all, or no split after the first of a skewed plan to hold the tail.     *)
ShortPlan(shape, n, splits) ==
    /\ n > 0
    /\ \/ shape \in {"Even", "EmptyInterleaved"} /\ splits = 0
       \/ shape = "Skewed" /\ splits \in {0, 1}

SplitScan(shape, n, splits) ==
    LET rs == PlanRanges(shape, n, splits)
    IN  [SplitFunction(IF shape = "NoSplits" THEN 0 ELSE Positive(n), OnePage(Numbered(rs))) EXCEPT
            !.short = ShortPlan(shape, n, splits)]

SplitFailAt(n, splits, at, inInit) ==
    [SplitFunction(n, OnePage(Numbered(EvenRanges(n, splits)))) EXCEPT
        !.batch = 8, !.reads = "fail", !.failAt = at, !.failInInit = inInit]

(* Every page returns one split and one more cursor.                       *)
SplitEndlessCursor ==
    SplitFunction(0, [c \in 0..MaxPages |->
        [Outcome(<<Planned(0, Span(0, 1))>>) EXCEPT !.next = <<c + 1>>]])

(* One row per split, all the rows a reader claimed in one batch.          *)
SplitEchoFilters(splits) ==
    [SplitFunction(splits, OnePage(Numbered([i \in 1..splits |-> Span(i - 1, i)]))) EXCEPT
        !.cols = <<"split_ordinal", "saw_filters", "n_projection">>,
        !.reads = "echo", !.saves = {"first"}]

PerPage == 4

(* The cursor is the page; the page that reaches the end has no cursor.    *)
SplitPaginated(n, splits) ==
    LET rs == EvenRanges(n, splits)
    IN  SplitFunction(n, [c \in 0..(Len(rs) \div PerPage) |->
            LET lo   == c * PerPage
                done == lo + PerPage >= Len(rs)
            IN  [Outcome(SubSeq(Numbered(rs), lo + 1, AtMost(lo + PerPage, Len(rs)))) EXCEPT
                    !.next = IF done THEN <<>> ELSE <<c + 1>>,
                    !.total = IF done THEN n ELSE None]])

StaleVersion == 987654321

SplitStalePlan(n, splits) ==
    SplitFunction(n, [c \in {0} |->
        [Outcome(Numbered(EvenRanges(n, splits))) EXCEPT !.version = StaleVersion]])

SplitShortTtl(n, splits) ==
    [SplitFunction(n, OnePage(Numbered(EvenRanges(n, splits)))) EXCEPT !.ttl = 1]

(* The ordinal gives each split a slice of the index space.                *)
SplitBatchIndex(n, splits) ==
    [SplitFunction(n, OnePage(Numbered(EvenRanges(n, splits)))) EXCEPT
        !.batch = 64, !.reads = "index", !.saves = {"idx", "cur", "emitted"}]

(* After the first plan of a zero_after_cold policy no split is left.      *)
SplitCacheable(n, splits, policy, planCalls) ==
    LET gone == policy = "zero_after_cold" /\ planCalls > 0
    IN  [SplitFunction(IF gone THEN 0 ELSE n,
                       OnePage(IF gone THEN <<>> ELSE Numbered(EvenRanges(n, splits)))) EXCEPT
            !.batch = 16, !.policy = policy, !.saves = {"idx", "cur", "first"},
            !.reads = IF policy = "fresh" THEN "cacheable" ELSE "revalidate"]

(* One split per country: US, DE, JP and BR, whose places in the order of  *)
(* the split points <<DE, JP, US>> are 3, 1, 2 and 0.                      *)
CountryRank == <<3, 1, 2, 0>>

PartitionKeyValue(mode, i) ==
    CASE mode = "valid"      -> [rows |-> 1, type |-> "utf8", value |-> CountryRank[i]]
      [] mode = "missing"    -> None
      [] mode = "two_rows"   -> [rows |-> 2, type |-> "utf8", value |-> CountryRank[i]]
      [] mode = "wrong_type" -> [rows |-> 1, type |-> "int64", value |-> 1]

SplitPartitioned(rows, mode, needsContext) ==
    LET size == Positive(rows)
        split(i) ==
            [Planned(i - 1, Span((i - 1) * size, i * size)) EXCEPT
                !.key = PartitionKeyValue(mode, i), !.range = CountryRank[i], !.loc = <<0>>,
                !.bounds = [rows |-> 2, cols |-> <<"country">>],
                !.part = [rows |-> 2, cols |-> <<"country">>]]
        page == [Outcome([i \in 1..4 |-> split(i)]) EXCEPT
                    !.locations = 1,
                    !.grouping = <<[col |-> "country", type |-> "utf8"]>>,
                    !.ranges = [col |-> "country", dir |-> "ASC", nulls |-> "LAST", points |-> <<1, 2, 3>>],
                    !.partitioning = <<[col |-> "country", transform |-> "identity", param |-> None]>>,
                    !.sort = <<[col |-> "sales", dir |-> "ASC", nulls |-> "LAST"]>>,
                    !.context = "plan"]
    IN  [SplitFunction(4 * size, [c \in {0} |-> page]) EXCEPT
            !.cols = <<"country", "sales">>, !.reads = "whole", !.context = needsContext,
            !.saves = {"idx"}]

SplitDynamicFilter(n, splits) ==
    [SplitFunction(n, OnePage(Numbered(EvenRanges(n, splits)))) EXCEPT
        !.cols = <<"n", "pushed_filters">>, !.batch = 4, !.reads = "dynamic"]

-----------------------------------------------------------------------------
CONSTANTS
    Readers,
    SplitCalls,     \* the calls explored: [f, http, group, rebind, etag]
    MaxSplits,      \* MAX_SPLITS of the client
    MaxLosses,      \* bound: connections lost in one scan
    MaxLevel        \* bound: refinements of the dynamic filter

VARIABLES
    call,
    plan,       \* the client's enumeration
    claimed,    \* the number of splits handed to readers
    reader,     \* reader[w]: the redemption in progress and what it read
    losses

splitVars == <<call, plan, claimed, reader, losses>>

CatalogVersion == 1         \* Dispatcher::CATALOG_VERSION
-----------------------------------------------------------------------------
(* handle_table_function_plan: what the worker refuses to answer with.     *)
ServerAccepts(o) ==
    /\ \A i \in DOMAIN o.splits :
            /\ o.locations = None => o.splits[i].loc = None
            /\ o.splits[i].loc # None => \A k \in DOMAIN o.splits[i].loc :
                    0 <= o.splits[i].loc[k] /\ o.splits[i].loc[k] < o.locations
    /\ o.partitioning # <<>> => \A i \in DOMAIN o.splits : o.splits[i].part # None

(* split_anchor: a plan that names no version is pinned to the live one.   *)
SplitAnchor(version) == IF version = None THEN CatalogVersion ELSE version

(* build_split_token.  No key is held, so the payload travels as it is.    *)
BuildSplitToken(payload, bind, anchor) == [bind |-> bind, anchor |-> anchor, payload |-> payload]

(* The answer for a function without on_plan: one split, its token empty.  *)
WholeScan == Outcome(<<Planned(0, Span(0, 0))>>)

SplitCapable(f) == DOMAIN f.pages # {}

Respond(f, bind, cursor) ==
    LET o == IF SplitCapable(f) THEN f.pages[cursor] ELSE WholeScan
    IN  [o EXCEPT !.splits = [i \in DOMAIN o.splits |->
            [info  |-> o.splits[i],
             token |-> IF SplitCapable(f)
                       THEN BuildSplitToken(o.splits[i], bind, SplitAnchor(o.version)) ELSE None]]]

(* Mutant: the anchor is not compared.                                     *)
Mut_OpenSplitToken(token, bind) ==
    IF token.bind # bind THEN "SPLIT_TOKEN_INVALID" ELSE "ok"

(* open_split_token: the bind first, then the anchor, each with its kind.  *)
OpenSplitToken(token, bind) ==
    IF token.bind # bind THEN "SPLIT_TOKEN_INVALID"
    ELSE IF token.anchor # CatalogVersion THEN "SPLIT_SNAPSHOT_EXPIRED"
    ELSE "ok"
-----------------------------------------------------------------------------
(* validate_plan_metadata, over the whole plan of all its pages.           *)

Known(col) == \E i \in DOMAIN call.f.cols : call.f.cols[i] = col

ValidLocations(p) ==
    \A i \in DOMAIN p.splits :
        LET loc == p.splits[i].info.loc
        IN  IF p.locations = None THEN loc = None
            ELSE loc # None => \A k \in DOMAIN loc : 0 <= loc[k] /\ loc[k] < p.locations

(* validate_transform_spec, for the identity of one column.                *)
ValidTransform(key) == Known(key.col)

(* Every split has exactly one key tuple of the declared types, and only   *)
(* when the plan declares a grouping.                                      *)
ValidKeyGrouping(p) ==
    IF p.grouping = None THEN \A i \in DOMAIN p.splits : p.splits[i].info.key = None
    ELSE /\ p.grouping # <<>>
         /\ \A k \in DOMAIN p.grouping : ValidTransform(p.grouping[k])
         /\ \A i \in DOMAIN p.splits :
                LET key == p.splits[i].info.key
                IN  key # None /\ key.rows = 1 /\ key.type = p.grouping[1].type

(* The split points ascend strictly and every split lies in one range.     *)
ValidRangePartitioning(p) ==
    IF p.ranges = None THEN \A i \in DOMAIN p.splits : p.splits[i].info.range = None
    ELSE LET points == p.ranges.points
         IN  /\ Known(p.ranges.col)
             /\ p.ranges.dir \in {"ASC", "DESC"} /\ p.ranges.nulls \in {"FIRST", "LAST"}
             /\ \A i \in 1..(Len(points) - 1) :
                    IF p.ranges.dir = "ASC" THEN points[i] < points[i + 1]
                    ELSE points[i] > points[i + 1]
             /\ \A i \in DOMAIN p.splits :
                    LET at == p.splits[i].info.range
                    IN  at # None /\ 0 <= at /\ at < Len(points) + 1

ValidBounds(b) == b # None => b.rows = 2 /\ \A i \in DOMAIN b.cols : Known(b.cols[i])

ValidPartitioning(p) ==
    /\ \A i \in DOMAIN p.splits :
            /\ p.partitioning # <<>> => p.splits[i].info.part # None
            /\ ValidBounds(p.splits[i].info.bounds) /\ ValidBounds(p.splits[i].info.part)
    /\ \A i \in DOMAIN p.partitioning :
            LET t == p.partitioning[i]
            IN  /\ Known(t.col)
                /\ IF t.transform \in {"bucket", "truncate"} THEN t.param # None /\ t.param > 0
                   ELSE /\ t.transform \in {"identity", "year", "month", "day", "hour"}
                        /\ t.param = None

ValidSortOrder(p) ==
    \A i \in DOMAIN p.sort :
        /\ Known(p.sort[i].col)
        /\ p.sort[i].dir \in {"ASC", "DESC"} /\ p.sort[i].nulls \in {"FIRST", "LAST"}

ValidatePlanMetadata(p) ==
    /\ ValidLocations(p) /\ ValidKeyGrouping(p) /\ ValidRangePartitioning(p)
    /\ ValidPartitioning(p) /\ ValidSortOrder(p)

(* Distribution is a promise of the whole plan: a page that changes it     *)
(* drops the promise and what the splits say of it, not the splits.        *)
WithoutDistribution(p) ==
    [p EXCEPT
        !.grouping = IF p.groupsAgree THEN @ ELSE None,
        !.ranges = IF p.rangesAgree THEN @ ELSE None,
        !.splits = [i \in DOMAIN @ |-> [@[i] EXCEPT
            !.info.key = IF p.groupsAgree THEN @ ELSE None,
            !.info.range = IF p.rangesAgree THEN @ ELSE None]]]

(* The empty token stands for the whole scan and is the only split.        *)
SentinelAllowed(page, before) ==
    (\E i \in DOMAIN page.splits : page.splits[i].token = None) =>
        /\ before = 0 /\ Len(page.splits) = 1 /\ page.next = <<>>
        /\ page.grouping = None /\ page.ranges = None /\ page.partitioning = <<>>
-----------------------------------------------------------------------------
(* VgiClient::plan, one page per step.                                     *)

NoPlan ==
    [state |-> "planning", pending |-> <<0>>, pages |-> 0, splits |-> <<>>, locations |-> None,
     grouping |-> None, ranges |-> None, partitioning |-> <<>>, sort |-> <<>>, context |-> None,
     groupsAgree |-> TRUE, rangesAgree |-> TRUE]

PlanFails == plan' = [plan EXCEPT !.state = "failed"]

(* The facts of the plan come from its first page; every cursor of a page  *)
(* is a branch of the enumeration of its own.                              *)
PlanAfter(page) ==
    LET first == plan.pages = 0
    IN  [plan EXCEPT
            !.pending = Tail(@) \o page.next,
            !.pages = @ + 1, !.splits = @ \o page.splits,
            !.locations = IF first THEN page.locations ELSE @,
            !.grouping = IF first THEN page.grouping ELSE @,
            !.ranges = IF first THEN page.ranges ELSE @,
            !.partitioning = IF first THEN page.partitioning ELSE @,
            !.sort = IF first THEN page.sort ELSE @,
            !.context = IF first THEN page.context ELSE @,
            !.groupsAgree = first \/ (@ /\ page.grouping = plan.grouping),
            !.rangesAgree = first \/ (@ /\ page.ranges = plan.ranges)]

PlanPage ==
    /\ plan.state = "planning" /\ plan.pending # <<>> /\ plan.pages < MaxPages
    /\ LET cursor == Head(plan.pending)
           page   == Respond(call.f, "bind", cursor)
       IN  IF (SplitCapable(call.f) => ServerAccepts(call.f.pages[cursor]))
              /\ SentinelAllowed(page, Len(plan.splits))
              /\ Len(plan.splits) + Len(page.splits) <= MaxSplits
           THEN plan' = PlanAfter(page)
           ELSE PlanFails
    /\ UNCHANGED <<call, claimed, reader, losses>>

(* The page cap, or the time budget, with cursors left.                    *)
PlanGivesUp ==
    /\ plan.state = "planning" /\ plan.pending # <<>>
    /\ PlanFails
    /\ UNCHANGED <<call, claimed, reader, losses>>

PlanReady ==
    /\ plan.state = "planning" /\ plan.pending = <<>>
    /\ LET p == WithoutDistribution(plan)
       IN  IF ValidatePlanMetadata(p) THEN plan' = [p EXCEPT !.state = "ready"] ELSE PlanFails
    /\ UNCHANGED <<call, claimed, reader, losses>>
-----------------------------------------------------------------------------
(* The producers.                                                          *)

FreshSplitProducer(claims, level) ==
    [idx |-> 1, cur |-> IF claims = <<>> THEN 0 ELSE claims[1].lo, first |-> TRUE, emitted |-> 0,
     rendered |-> level]

NoBatch(st) == [kind |-> "none", st |-> st]

ABatch(st, lo, hi) ==
    [kind |-> "batch", st |-> st,
     b |-> [lo |-> lo, hi |-> hi, tag |-> None, adv |-> FALSE, nm |-> None, filter |-> None]]

(* The claims that still have rows, an empty one being stepped over.       *)
Live(claims, st) ==
    {j \in st.idx..Len(claims) : (IF j = st.idx THEN st.cur ELSE claims[j].lo) < claims[j].hi}

(* Mutant: an empty split ends the stream.                                 *)
Mut_WalkBatch(f, claims, st) ==
    IF st.idx > Len(claims) \/ st.cur >= claims[st.idx].hi THEN NoBatch(st)
    ELSE LET hi == AtMost(st.cur + f.batch, claims[st.idx].hi)
         IN  ABatch([st EXCEPT !.cur = hi, !.emitted = @ + 1], st.cur, hi)

(* SplitProducer: the next rows of the claimed ranges.                     *)
WalkBatch(f, claims, st) ==
    IF Live(claims, st) = {} THEN NoBatch([st EXCEPT !.idx = Len(claims) + 1])
    ELSE LET j   == Min(Live(claims, st))
             cur == IF j = st.idx THEN st.cur ELSE claims[j].lo
             hi  == AtMost(cur + f.batch, claims[j].hi)
         IN  ABatch([st EXCEPT !.idx = j, !.cur = hi, !.emitted = 1 + IF j = st.idx THEN @ ELSE 0],
                    cur, hi)

(* FailProducer: an error instead of the second batch of the chosen split. *)
FailBatch(f, claims, st) ==
    LET n == WalkBatch(f, claims, st)
    IN  IF n.kind = "batch" /\ claims[n.st.idx].ord = f.failAt /\ n.b.lo > claims[n.st.idx].lo
        THEN [kind |-> "error", st |-> st] ELSE n

Stride == 1000

(* BatchIndexProducer: each split numbers its batches in a slice of its own.*)
BatchIndexBatch(f, claims, st) ==
    LET n == WalkBatch(f, claims, st)
    IN  IF n.kind = "none" THEN n
        ELSE [n EXCEPT !.b.tag = claims[n.st.idx].ord * Stride + (n.st.emitted - 1)]

(* CacheableProducer: the first batch of the stream carries the freshness. *)
CacheableBatch(f, claims, st) ==
    LET n == WalkBatch(f, claims, st)
    IN  IF n.kind = "none" THEN n ELSE [n EXCEPT !.b.adv = st.first, !.st.first = FALSE]

(* DynFilterProducer: the rows name the filter they were produced under.   *)
DynFilterBatch(f, claims, st) ==
    LET n == WalkBatch(f, claims, st)
    IN  IF n.kind = "none" THEN n ELSE [n EXCEPT !.b.filter = st.rendered]

(* PartitionedProducer: one batch per partition, an empty one stepped over.*)
WholeBatch(claims, st) ==
    LET live == {j \in st.idx..Len(claims) : claims[j].lo < claims[j].hi}
    IN  IF live = {} THEN NoBatch([st EXCEPT !.idx = Len(claims) + 1])
        ELSE LET j == Min(live)
             IN  ABatch([st EXCEPT !.idx = j + 1], claims[j].lo, claims[j].hi)

(* EchoProducer: a row for each claim, all in one batch.                   *)
EchoBatch(claims, st) ==
    IF ~st.first \/ claims = <<>> THEN NoBatch(st)
    ELSE ABatch([st EXCEPT !.first = FALSE], claims[1].lo, claims[Len(claims)].hi)

(* SplitRevalidationProducer: a conditional stream answers "not modified"  *)
(* once, with an empty batch, except where the policy says otherwise.      *)
RevalidateBatch(f, claims, st, etag) ==
    LET hasFirst == \E i \in DOMAIN claims : claims[i].lo = 0
        hasLast  == \E i \in DOMAIN claims : claims[i].hi = f.count
        rest     == [st EXCEPT !.first = FALSE]
    IN  IF ~(st.first /\ etag) THEN CacheableBatch(f, claims, st)
        ELSE IF f.policy = "error" /\ hasFirst THEN [kind |-> "error", st |-> rest]
        ELSE IF f.policy = "mixed" /\ hasLast THEN CacheableBatch(f, claims, rest)
        ELSE [ABatch([rest EXCEPT !.idx = Len(claims) + 1], 0, 0) EXCEPT
                !.b.adv = TRUE,
                !.b.nm = IF hasFirst /\ f.policy \in {"revoke", "disagree"} THEN f.policy ELSE "same"]

SplitBatch(f, claims, st, etag) ==
    CASE f.reads = "walk"       -> WalkBatch(f, claims, st)
      [] f.reads = "fail"       -> FailBatch(f, claims, st)
      [] f.reads = "index"      -> BatchIndexBatch(f, claims, st)
      [] f.reads = "cacheable"  -> CacheableBatch(f, claims, st)
      [] f.reads = "dynamic"    -> DynFilterBatch(f, claims, st)
      [] f.reads = "whole"      -> WholeBatch(claims, st)
      [] f.reads = "echo"       -> EchoBatch(claims, st)
      [] f.reads = "revalidate" -> RevalidateBatch(f, claims, st, etag)
-----------------------------------------------------------------------------
(* A reader: the splits it holds, its producer, the batches of this        *)
(* redemption and those of the ones it completed.                          *)
IdleReader ==
    [phase |-> "idle", claims |-> <<>>, tokens |-> <<>>, st |-> FreshSplitProducer(<<>>, 0),
     got |-> <<>>, read |-> <<>>, level |-> 0]

SplitInit ==
    /\ call \in SplitCalls
    /\ plan = NoPlan /\ claimed = 0 /\ losses = 0
    /\ reader = [w \in Readers |-> IdleReader]

(* on_split: the checks a function makes on the splits it was handed.      *)
OnSplit(f, claims, context) ==
    /\ f.failInInit => \A i \in DOMAIN claims : claims[i].ord # f.failAt
    /\ f.context => context = "plan"

(* init with split tokens: every token is opened before any code of the    *)
(* function runs; the payloads inside them become the producer's ranges.   *)
Redeemed(r, tokens) ==
    LET bind   == IF call.rebind THEN "other" ELSE "bind"
        whole  == \A i \in DOMAIN tokens : tokens[i] = None
        claims == [i \in DOMAIN tokens |->
                      IF tokens[i] = None THEN Planned(0, Span(0, call.f.count)) ELSE tokens[i].payload]
        bad    == {i \in DOMAIN tokens : ~whole /\ OpenSplitToken(tokens[i], bind) # "ok"}
        opened == bad = {} /\ OnSplit(call.f, claims, plan.context)
    IN  [r EXCEPT !.phase = IF opened THEN "reading" ELSE "failed",
                  !.tokens = tokens, !.claims = IF opened THEN claims ELSE <<>>,
                  !.st = FreshSplitProducer(claims, r.level), !.got = <<>>]

Claim(w) ==
    LET upto   == AtMost(claimed + call.group, Len(plan.splits))
        tokens == [i \in 1..(upto - claimed) |-> plan.splits[claimed + i].token]
    IN  /\ plan.state = "ready" /\ claimed < Len(plan.splits)
        /\ reader[w].phase = "idle"
        /\ claimed' = upto
        /\ reader' = [reader EXCEPT ![w] = Redeemed(@, tokens)]
        /\ UNCHANGED <<call, plan, losses>>

(* Mutant: the filter of the last tick is not in the token.                *)
Mut_Restored(f, claims, st) ==
    [x \in DOMAIN st |-> IF x \in f.saves THEN st[x] ELSE FreshSplitProducer(claims, 0)[x]]

(* An HTTP turn: a producer built from the payloads in the token, at the   *)
(* position it encodes, under the filters the token's history carries.     *)
Restored(f, claims, st) ==
    [x \in DOMAIN st |->
        IF x \in f.saves \cup {"rendered"} THEN st[x] ELSE FreshSplitProducer(claims, 0)[x]]

(* One tick of a reader's stream, which may carry a tighter filter.        *)
SplitTurn(w, tighter) ==
    LET r   == reader[w]
        lvl == r.level + tighter
        st0 == IF call.http THEN Restored(call.f, r.claims, r.st) ELSE r.st
        st1 == IF tighter = 1 THEN [st0 EXCEPT !.rendered = lvl] ELSE st0
        n   == SplitBatch(call.f, r.claims, st1, call.etag)
    IN  /\ r.phase = "reading"
        /\ tighter = 1 => call.f.reads = "dynamic" /\ r.level < MaxLevel
        /\ reader' = [reader EXCEPT ![w] =
                CASE n.kind = "error" -> [r EXCEPT !.phase = "failed", !.got = <<>>]
                  [] n.kind = "batch" -> [r EXCEPT !.st = n.st, !.level = lvl,
                        !.got = Append(@, [batch |-> n.b, sent |-> lvl])]
                  [] n.kind = "none"  -> [r EXCEPT !.phase = "idle", !.level = lvl, !.got = <<>>,
                        !.read = Append(@, [claims |-> r.claims, batches |-> r.got])]]
        /\ UNCHANGED <<call, plan, claimed, losses>>

(* The connection is lost in mid-stream: what the redemption gave is       *)
(* dropped and the same tokens are redeemed again.                         *)
Lose(w) ==
    /\ losses < MaxLosses
    /\ reader[w].phase = "reading"
    /\ losses' = losses + 1
    /\ reader' = [reader EXCEPT ![w] = Redeemed(@, @.tokens)]
    /\ UNCHANGED <<call, plan, claimed>>

SplitNext ==
    \/ PlanPage \/ PlanGivesUp \/ PlanReady
    \/ \E w \in Readers : Claim(w) \/ Lose(w) \/ \E t \in {0, 1} : SplitTurn(w, t)

SplitSpec == SplitInit /\ [][SplitNext]_splitVars
-----------------------------------------------------------------------------
Completed == UNION {{reader[w].read[i] : i \in DOMAIN reader[w].read} : w \in Readers}

SplitScanEnded ==
    /\ plan.state = "ready" /\ claimed = Len(plan.splits)
    /\ \A w \in Readers : reader[w].phase = "idle"

RowsOf(got) == FoldSeq(LAMBDA g, n : n + (g.batch.hi - g.batch.lo), 0, got)
ClaimedRows(claims) == FoldSeq(LAMBDA c, n : n + (c.hi - c.lo), 0, claims)
PlannedRows == ClaimedRows([i \in DOMAIN plan.splits |-> plan.splits[i].info])

(* A scan of splits gives every row once: the pages of the plan compose    *)
(* without a gap whatever number of cursors they have, an empty split ends *)
(* nothing, a split that was lost and redeemed again counts once, and a    *)
(* redemption gives all the rows of its splits, in order, or says that     *)
(* they did not change.  A plan that could not be enumerated, or a split   *)
(* that failed, never looks like a result.  A plan of the fixture          *)
(* split_skewed over one split, or of any over none, names fewer rows than *)
(* the scan has (plan_ranges): there the rows are those of the plan.       *)
SplitScanExact ==
    /\ \A c \in Completed :
            \/ RowsOf(c.batches) = ClaimedRows(c.claims)
            \/ \E i \in DOMAIN c.batches : c.batches[i].batch.nm # None /\ call.etag
    /\ \A c, d \in Completed : c # d =>
            \A i \in DOMAIN c.batches, j \in DOMAIN d.batches :
                LET a == c.batches[i].batch
                    b == d.batches[j].batch
                IN  a.lo = a.hi \/ b.lo = b.hi \/ a.hi <= b.lo \/ b.hi <= a.lo
    /\ (SplitScanEnded /\ ~call.etag) =>
            MapThenSumSet(LAMBDA c : RowsOf(c.batches), Completed)
                = IF call.f.short THEN PlannedRows ELSE call.f.count

(* What one reader sees is in order: its batch indices ascend over all the *)
(* splits it claims, the first batch of every redemption and no other      *)
(* carries the freshness of the result, and every batch was produced under *)
(* the tightest filter sent on that stream, also when each HTTP turn       *)
(* builds a new producer and when the reader moves to its next split.      *)
ReaderOrder ==
    \A w \in Readers :
        LET all == FlattenSeq([i \in DOMAIN reader[w].read |-> reader[w].read[i].batches]
                              \o <<reader[w].got>>)
        IN  /\ call.f.reads = "index" =>
                    \A i, j \in DOMAIN all : i < j => all[i].batch.tag < all[j].batch.tag
            /\ call.f.reads = "dynamic" => \A i \in DOMAIN all : all[i].batch.filter = all[i].sent
            /\ (call.f.reads \in {"cacheable", "revalidate"} /\ ~call.etag) => \A i \in DOMAIN reader[w].got :
                    reader[w].got[i].batch.adv <=> i = 1

(* What the plan says is what the readers find: no row is read under a     *)
(* token that was minted for another bind or at another catalog version,   *)
(* and in a plan that declares a grouping or a range distribution every    *)
(* split has a key and lies in the range its rows belong to.               *)
PlanHonoured ==
    /\ \A w \in Readers : reader[w].phase = "reading" =>
            \A i \in DOMAIN reader[w].tokens : reader[w].tokens[i] # None =>
                /\ ~call.rebind
                /\ \A c \in DOMAIN call.f.pages :
                        call.f.pages[c].version \in {None, CatalogVersion}
    /\ plan.state = "ready" => \A i \in DOMAIN plan.splits :
            LET info == plan.splits[i].info
            IN  /\ plan.grouping # None => info.key # None /\ info.key.rows = 1
                /\ (plan.grouping # None /\ plan.ranges # None) =>
                        info.range = Cardinality({k \in DOMAIN plan.ranges.points :
                                                    plan.ranges.points[k] <= info.key.value})

(* Redeeming the splits of a plan gives the rows of the unsplit scan, each *)
(* once, and the batches of a split in order, also when a connection is    *)
(* lost between two of them, and what the plan declares is what the        *)
(* readers find (VgiClient::plan, open_split_token, split_payloads).       *)
SplitsExact == SplitScanExact /\ ReaderOrder /\ PlanHonoured
=============================================================================
