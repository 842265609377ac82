------------------------------ MODULE Producers ------------------------------
(***************************************************************************)
(* A scan of one of the example worker's table functions: bind, init, and  *)
(* the turns of the workers that share it, as vgi/src/dispatch.rs drives a *)
(* TableProducer.  Over HTTP every turn builds a new producer and restores *)
(* the position the last reply's token carries; over a byte stream the     *)
(* producer lives as long as its stream.                                   *)
(***************************************************************************)
EXTENDS ScanFixtures, Functions

CONSTANTS
    Workers,    \* the client threads that open a stream of the scan
    Calls       \* the calls the instance explores: [f, http, ids]

VARIABLES
    call,       \* the call: the function as bound, the transport, the projection
    work,       \* the execution's work queue
    prod,       \* prod[w]: the producer (byte stream) or the token (HTTP) of w
    phase,      \* phase[w]: "new", "open", "done" or "failed"
    out,        \* the batches the clients received, in order of arrival
    snapshot,   \* the profiling counters in the execution's store
    report      \* what dynamic_to_string reported

scan == <<call, work, prod, phase, out, snapshot, report>>
-----------------------------------------------------------------------------
(* The fields of a producer that change; the constructor's values.         *)
FreshProducer(f) ==
    [pos |-> 0, left |-> f.count, done |-> FALSE, adv |-> FALSE, rows |-> 0, batches |-> 0,
     cur |-> None]

(* Mutant: the chunk in hand is not carried.                               *)
Mut_EncodeResume(f, st) == [x \in f.saves |-> IF x = "cur" THEN None ELSE st[x]]

(* encode_resume: a chunk that was drained is not carried.                 *)
EncodeResume(f, st) ==
    [x \in f.saves |->
        IF x = "cur" /\ st.cur # None /\ st.cur.from >= st.cur.to THEN None ELSE st[x]]

(* Mutant: a rebuilt producer forgets that it already advertised.          *)
Mut_RestoreResume(f, token) ==
    [x \in DOMAIN FreshProducer(f) |->
        IF x \in f.saves \ {"adv"} THEN token[x] ELSE FreshProducer(f)[x]]

(* restore_resume on a producer just built: what the token does not carry  *)
(* starts again.                                                           *)
RestoreResume(f, token) ==
    [x \in DOMAIN FreshProducer(f) |->
        IF x \in f.saves THEN token[x] ELSE FreshProducer(f)[x]]
-----------------------------------------------------------------------------
(* The next batch of a producer: rows [lo, hi) of the result, out of work  *)
(* item `it` where there is one.  A result is [kind, st, work, lo, hi, it].*)

Nothing(f, st, q) ==
    [kind |-> IF f.ends = "error" THEN "error" ELSE "none", st |-> st, work |-> q,
     lo |-> 0, hi |-> 0, it |-> None]

Rows(st, q, lo, hi, it) == [kind |-> "batch", st |-> st, work |-> q, lo |-> lo, hi |-> hi, it |-> it]

NextOffset(f, st, q) ==
    IF st.pos >= f.count THEN Nothing(f, st, q)
    ELSE LET hi == Less(st.pos + f.batch, f.count)
         IN  Rows([st EXCEPT !.pos = hi], q, st.pos, hi, None)

NextRemaining(f, st, q) ==
    IF st.left <= 0 THEN Nothing(f, st, q)
    ELSE LET size == Less(st.left, f.batch)
             lo   == IF f.prod = "rem" THEN f.count - st.left ELSE st.pos
         IN  Rows([st EXCEPT !.pos = @ + size, !.left = @ - size], q, lo, lo + size, None)

NextFlag(f, st, q) ==
    IF st.done THEN Nothing(f, st, q) ELSE Rows([st EXCEPT !.done = TRUE], q, 0, f.count, None)

NextIndex(f, st, q) ==
    IF st.pos >= Len(f.work) THEN Nothing(f, st, q)
    ELSE LET it == f.work[st.pos + 1]
         IN  Rows([st EXCEPT !.pos = @ + 1], q, it.from, it.to, it)

NextWhole(f, st, q) ==
    IF q = <<>> THEN Nothing(f, st, q) ELSE Rows(st, Tail(q), Head(q).from, Head(q).to, Head(q))

(* The work items are never empty, so the loop pops at most once.          *)
NextQueue(f, st, q) ==
    LET holds == st.cur # None /\ st.cur.from < st.cur.to
    IN  IF ~holds /\ q = <<>> THEN Nothing(f, [st EXCEPT !.cur = None], q)
        ELSE LET it == IF holds THEN st.cur ELSE Head(q)
                 hi == Less(it.from + f.batch, it.to)
             IN  Rows([st EXCEPT !.cur = [it EXCEPT !.from = hi]],
                      IF holds THEN q ELSE Tail(q), it.from, hi, it)

(* One batch, then the error, or one empty pointer batch and the end.      *)
NextPoison(f, st, q) ==
    IF st.pos = 0 THEN Rows([st EXCEPT !.pos = f.count], q, 0, f.count, None)
    ELSE IF f.ends = "error" \/ st.done THEN Nothing(f, st, q)
    ELSE Rows([st EXCEPT !.done = TRUE], q, f.count, f.count, None)

NextBroken(f, st, q) ==
    IF st.pos = 0 THEN Rows([st EXCEPT !.pos = 1], q, 0, f.batch, None)
    ELSE IF st.pos = 1 /\ f.tag = "falls"
    THEN Rows([st EXCEPT !.pos = 2], q, f.batch, f.count, None)
    ELSE Nothing(f, st, q)

NextBatch(f, st, q) ==
    CASE f.prod \in {"offset", "profile"} -> NextOffset(f, st, q)
      [] f.prod \in {"rem", "remcur"}     -> NextRemaining(f, st, q)
      [] f.prod = "flag"                  -> NextFlag(f, st, q)
      [] f.prod = "index"                 -> NextIndex(f, st, q)
      [] f.prod = "whole"                 -> NextWhole(f, st, q)
      [] f.prod = "queue"                 -> NextQueue(f, st, q)
      [] f.prod = "poison"                -> NextPoison(f, st, q)
      [] f.prod = "broken"                -> NextBroken(f, st, q)
-----------------------------------------------------------------------------
(* last_metadata: the advertisement, the batch index and the partition     *)
(* values a batch carries.                                                 *)

Advertises(f, st, r) ==
    CASE f.adv = "never"   -> FALSE
      [] f.adv = "every"   -> TRUE
      [] f.adv = "start"   -> r.lo = 0
      [] f.adv = "flag"    -> ~st.adv
      [] f.adv = "counter" -> st.batches = 0

HugeTag == 1000000000      \* stands for 2^60, above what the client accepts

BatchIndex(f, r) ==
    CASE f.tag = "never" -> None
      [] f.tag = "pid"   -> r.it.pid
      [] f.tag = "falls" -> IF r.lo = 0 THEN 10 ELSE 3
      [] f.tag = "huge"  -> HugeTag

(* The value of the partition column in a row.                             *)
PartitionKey(f, it, row) ==
    IF it = None THEN row * f.stride
    ELSE IF f.stride = 0 THEN it.pid ELSE it.pid * f.stride + (row - it.from)

(* partition_values_b64: least and greatest value, none of an empty batch. *)
PartitionValues(f, r) ==
    IF ~f.pv \/ r.lo = r.hi THEN None
    ELSE <<PartitionKey(f, r.it, r.lo), PartitionKey(f, r.it, r.hi - 1)>>
-----------------------------------------------------------------------------
(* project_schema: the columns the client asked for; out of range ids are  *)
(* dropped, no ids means every column.                                     *)
ProjectSchema(cols, ids) ==
    IF ids = <<>> THEN cols
    ELSE LET known == SelectSeq(ids, LAMBDA i : i < Len(cols))
         IN  [k \in 1..Len(known) |-> cols[known[k] + 1]]

OutputSchema == ProjectSchema(call.f.cols, call.ids)

(* project_batch: by name, an error when a column is missing.              *)
ProjectBatch(cols, want) ==
    IF cols = want THEN want
    ELSE IF \A k \in DOMAIN want : \E j \in DOMAIN cols : cols[j] = want[k] THEN want
    ELSE None

Emitted(f) == IF f.emits = "projected" THEN OutputSchema ELSE f.cols
-----------------------------------------------------------------------------
(* The calls are fixed by Init; a bind the function refuses never starts.  *)
ScanInit ==
    /\ call \in {c \in Calls : c.f.ok}
    /\ work = call.f.work
    /\ prod = [w \in Workers |-> None]
    /\ phase = [w \in Workers |-> "new"]
    /\ out = <<>> /\ snapshot = None /\ report = None

(* init of a stream: the first one is the primary, whose on_init pushed    *)
(* the work; the client opens at most max_workers.                         *)
Open(w) ==
    /\ phase[w] = "new"
    /\ Cardinality({v \in Workers : phase[v] # "new"}) < call.f.workers
    /\ phase' = [phase EXCEPT ![w] = "open"]
    /\ prod' = [prod EXCEPT ![w] = FreshProducer(call.f)]
    /\ UNCHANGED <<call, work, out, snapshot, report>>

(* The producer that serves the turn: the live one, or one just built and  *)
(* restored.  The first HTTP turn is part of init.                         *)
Serving(w) ==
    IF ~call.http \/ DOMAIN prod[w] # call.f.saves THEN prod[w] ELSE RestoreResume(call.f, prod[w])

DrainsInOneTurn == call.http /\ ~call.f.resumable

(* produce: one batch, filtered and projected, or the end of the stream.   *)
(* Over HTTP a producer without a position must be exhausted by its batch. *)
Turn(w) ==
    LET f      == call.f
        st     == Serving(w)
        r      == NextBatch(f, st, work)
        adv    == Advertises(f, st, r)
        st2    == [r.st EXCEPT !.adv = @ \/ adv, !.rows = @ + (r.hi - r.lo), !.batches = @ + 1]
        cols   == ProjectBatch(Emitted(f), OutputSchema)
        more   == DrainsInOneTurn /\ NextBatch(f, st2, r.work).kind # "none"
        fails  == r.kind = "error" \/ (r.kind = "batch" /\ (cols = None \/ more))
        batch  == [w |-> w, lo |-> r.lo, hi |-> r.hi, tag |-> BatchIndex(f, r), adv |-> adv,
                   pv |-> PartitionValues(f, r), cols |-> cols]
    IN  /\ phase[w] = "open"
        /\ work' = r.work
        /\ phase' = [phase EXCEPT ![w] = IF fails THEN "failed"
                                         ELSE IF r.kind = "none" \/ DrainsInOneTurn THEN "done"
                                         ELSE "open"]
        /\ out' = IF r.kind = "batch" /\ ~fails THEN Append(out, batch) ELSE out
        /\ prod' = [prod EXCEPT ![w] = IF call.http THEN EncodeResume(f, st2) ELSE st2]
        /\ snapshot' = IF f.prod = "profile" /\ r.kind = "batch"
                       THEN [rows |-> st2.rows, batches |-> st2.batches] ELSE snapshot
        /\ UNCHANGED <<call, report>>

(* dynamic_to_string: read the snapshot and delete it; none reads as 0.    *)
DynamicToString ==
    /\ call.f.prod = "profile" /\ report = None
    /\ \A w \in Workers : phase[w] \in {"new", "done"}
    /\ \E w \in Workers : phase[w] = "done"
    /\ report' = IF snapshot = None THEN [rows |-> 0, batches |-> 0] ELSE snapshot
    /\ snapshot' = None
    /\ UNCHANGED <<call, work, prod, phase, out>>

ScanNext == (\E w \in Workers : Open(w) \/ Turn(w)) \/ DynamicToString

ScanSpec == ScanInit /\ [][ScanNext]_scan
-----------------------------------------------------------------------------
Received == {out[i] : i \in DOMAIN out}
Ended == \A w \in Workers : phase[w] \in {"new", "done"}
Started == \E w \in Workers : phase[w] # "new"

(* The functions whose declarations are wrong on purpose.                  *)
Honest == call.f.prod # "broken" /\ (call.f.kind # None => call.f.pv)
                                 /\ ~(call.f.prod = "flag" /\ call.f.stride > 0)

(* A scan gives every row of its result once: no two batches overlap, and  *)
(* when every stream ended well the batches cover the result, with the     *)
(* columns the client asked for.  Workers that share the queue, HTTP turns *)
(* that rebuild the producer from its token, and producers that carry two  *)
(* counters, one flag or nothing must all come to this.                    *)
ScanExact ==
    /\ \A i, j \in DOMAIN out : i # j => (out[i].hi <= out[j].lo \/ out[j].hi <= out[i].lo)
    /\ (Ended /\ Started) => FoldFunction(LAMBDA b, n : n + (b.hi - b.lo), 0, out) = call.f.count
    /\ \A b \in Received : b.cols = OutputSchema

(* What a function declares of its result holds of what the scan gives:    *)
(* the cardinality bounds the rows, the statistics bound the values, an    *)
(* order by batch index is the order of the rows, and the partition values *)
(* of a batch are those of a single-valued or a disjoint partition.  What  *)
(* EXPLAIN ANALYZE reports is what the scan gave, over HTTP too, where the *)
(* counters live in the token between two turns.                           *)
DeclaredTrue ==
    LET f == call.f
        value(row) == f.base + row * f.step
    IN  Honest =>
        /\ report # None =>
                /\ report.batches = Len(out)
                /\ report.rows = FoldFunction(LAMBDA b, n : n + (b.hi - b.lo), 0, out)
        /\ f.max # None => \A b \in Received : b.lo < b.hi => b.hi <= f.max
        /\ f.stats # None => \A b \in Received : b.lo < b.hi =>
                \A row \in {b.lo, b.hi - 1} : f.stats[1] <= value(row) /\ value(row) <= f.stats[2]
        /\ f.ordered => \A i, j \in DOMAIN out :
                /\ (out[i].tag < out[j].tag) => out[i].hi <= out[j].lo
                /\ (out[i].tag = out[j].tag /\ i < j) => out[i].hi <= out[j].lo
        /\ f.kind = "SINGLE_VALUE" => \A b \in Received : b.pv # None => b.pv[1] = b.pv[2]
        /\ f.kind = "DISJOINT" => \A a, b \in Received :
                (a # b /\ a.pv # None /\ b.pv # None) => (a.pv[2] < b.pv[1] \/ b.pv[2] < a.pv[1])

(* The freshness of a result is advertised once per stream, on the first   *)
(* batch of it, however often the producer was rebuilt in between; only    *)
(* results cached per partition repeat it on every batch.                  *)
AdvertisedOnce ==
    call.f.adv \in {"start", "flag", "counter"} =>
        \A i \in DOMAIN out : out[i].adv <=> \A j \in 1..(i - 1) : out[j].w # out[i].w

(* A scan delivers what its function gives and what its batches declare:   *)
(* every row once, in both transports and under every projection, batch    *)
(* indexes, partition values and cache control as they are (next_batch,    *)
(* encode_resume, restore_resume of every fixture).                        *)
ScanFaithful == ScanExact /\ DeclaredTrue /\ AdvertisedOnce
=============================================================================
