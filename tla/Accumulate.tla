----------------------------- MODULE Accumulate -----------------------------
(***************************************************************************)
(* The accumulate catalog of the example worker                            *)
(* (vgi-example-worker/src/accumulate/mod.rs): collections of rows that    *)
(* outlive a query, kept as one file per call in a directory, with no lock.*)
(* One collection of one attach scope; calls on others touch other         *)
(* directories.  Every file operation is a step of its own, so two worker  *)
(* processes interleave between a directory listing and each of the reads  *)
(* that follow it, and between the two halves of fs::write: the file is    *)
(* created or cut to nothing, then written.  A file read in between is     *)
(* Torn and its reader fails; bytes left behind a shorter rewrite lie after*)
(* the end-of-stream mark, so the last of two writers decides what is read.*)
(***************************************************************************)
EXTENDS Integers, Sequences, FiniteSets, SequencesExt

CONSTANTS
    None,
    Procs,      \* worker processes
    AccCalls,   \* [op, schema, rows, ttl, max, result] a query may make
    MaxAcc,     \* calls in a behaviour
    MaxClock,   \* the clock's last value
    Schemas,    \* schemas a call's input may have
    OutBatchRows, \* OUT_BATCH_ROWS, rows in a staged result batch
    Overlaps    \* which of {FALSE, TRUE}: may two calls be under way together

VARIABLES
    overlap,  \* this behaviour's choice of Overlaps
    clock,    \* now_micros
    schema,   \* schema.ipc, or None: absent, or not yet written
    dir,      \* the directory seg exists
    segs,     \* seg/<ts>_<seq>.bin: a function from <<ts, seq>> to its rows, or Torn
    pr,       \* pr[p]: the call process p is executing
    made,     \* calls made so far
    hist,     \* what the collection should hold: the rows with their stamps
    exact     \* every finished call returned what it should have

accVars == <<overlap, clock, schema, dir, segs, pr, made, hist, exact>>

(* The functions the catalog offers.                                       *)
Ops == {"accumulate", "read", "clear"}

(* A call: the function, its input and its arguments.  ttl is an interval  *)
(* or absent, max_row_size 0 means no limit.                               *)
CallType == [op : Ops, schema : Schemas, rows : Nat, ttl : {None} \cup Nat, max : Nat,
             result : {"all", "new", "none"}]

AccConstants ==
    /\ OutBatchRows \in Nat \ {0}
    /\ \A c \in AccCalls : c \in CallType

Idle == [pc |-> "idle", call |-> None, no |-> 0, ts |-> 0, seq |-> 0, todo |-> <<>>, why |-> "", over |-> 0,
         cut |-> <<>>, got |-> <<>>]

(* A file that was created or truncated and not yet written.               *)
Torn == <<>>

(* segments: the directory's files, oldest first (the names sort by stamp, *)
(* then by sequence number).                                               *)
Segments ==
    SetToSortSeq(DOMAIN segs, LAMBDA a, b : a[1] < b[1] \/ (a[1] = b[1] /\ a[2] < b[2]))

(* The call's input, reassembled from its staging log and stamped: a row   *)
(* is known by its call and by how many rows of the call come after it.    *)
NewRows(p) == [i \in 1 .. pr[p].call.rows |-> <<pr[p].no, pr[p].call.rows - i>>]
Contents == FlattenSeq([i \in DOMAIN Segments |-> segs[Segments[i]]])

RemoveFile(path) == [x \in DOMAIN segs \ {path} |-> segs[x]]
PutFile(path, rows) == [x \in DOMAIN segs \cup {path} |-> IF x = path THEN rows ELSE segs[x]]

AccInit ==
    /\ overlap \in Overlaps
    /\ clock = 1 /\ schema = None /\ dir = FALSE /\ segs = [x \in {} |-> None]
    /\ pr = [p \in Procs |-> Idle]
    /\ made = 0 /\ hist = <<>> /\ exact = TRUE

Goto(p, pc) == pr' = [pr EXCEPT ![p].pc = pc]
-----------------------------------------------------------------------------
(* What the call means for the collection, as one step.                    *)

Stamped(rows, ts) == [i \in DOMAIN rows |-> [ts |-> ts, row |-> rows[i]]]
Newest(s, n) == IF Len(s) > n THEN SubSeq(s, Len(s) - n + 1, Len(s)) ELSE s

Apply(p, h) ==
    LET c      == pr[p].call
        grown  == h \o Stamped(NewRows(p), pr[p].ts)
        fresh  == IF c.ttl = None \/ pr[p].ts - c.ttl <= 0 THEN grown
                  ELSE SelectSeq(grown, LAMBDA r : r.ts >= pr[p].ts - c.ttl)
    IN  CASE c.op = "accumulate" -> IF c.max > 0 THEN Newest(fresh, c.max) ELSE fresh
          [] c.op = "clear"      -> <<>>
          [] c.op = "read"       -> h

RowsOf(h) == [i \in DOMAIN h |-> h[i].row]

Expected(p, h) ==
    LET c == pr[p].call
    IN  CASE c.op = "clear"  -> <<<<0, Len(h)>>>>
          [] c.op = "read"   -> RowsOf(h)
          [] c.result = "none" -> <<>>
          [] c.result = "new"  -> NewRows(p)
          [] OTHER             -> RowsOf(Apply(p, h))

(* Each call's rows appear once, in order, and up to its last one.         *)
WholeRows(rows) ==
    /\ IsInjective(rows)
    /\ \A i \in DOMAIN rows :
           rows[i][2] > 0 => i < Len(rows) /\ rows[i + 1] = <<rows[i][1], rows[i][2] - 1>>

(* The call returns: its process is free, and the history moves on.  What  *)
(* calls under way together return is judged row by row.                   *)
Return(p, got) ==
    /\ pr' = [pr EXCEPT ![p] = Idle]
    /\ IF overlap THEN exact' = (exact /\ (pr[p].call.op = "clear" \/ WholeRows(got))) /\ UNCHANGED hist
       ELSE /\ hist' = Apply(p, hist)
            /\ exact' = (exact /\ got = Expected(p, hist))

(* The call is refused at bind, or fails on a file that is gone or torn.   *)
Refuse(p) == pr' = [pr EXCEPT ![p] = Idle] /\ UNCHANGED <<hist, exact>>
-----------------------------------------------------------------------------
Tick ==
    /\ clock < MaxClock
    /\ clock' = clock + 1
    /\ UNCHANGED <<overlap, schema, dir, segs, pr, made, hist, exact>>

(* A query starts.  Calls one after the other are at least a microsecond   *)
(* apart; those that overlap do so after a first call has returned.        *)
Start(p) ==
    /\ pr[p] = Idle /\ made < MaxAcc
    /\ ~overlap \/ made = 1 => \A r \in Procs : pr[r] = Idle
    /\ ~overlap => \A x \in DOMAIN segs : x[1] < clock
    /\ \E c \in AccCalls :
           pr' = [pr EXCEPT ![p] = [Idle EXCEPT !.call = c, !.no = made + 1,
                                    !.pc = IF c.op = "clear" THEN "list" ELSE "bind", !.why = c.op]]
    /\ made' = made + 1
    /\ UNCHANGED <<overlap, clock, schema, dir, segs, hist, exact>>

(* AccumulateFunction::on_bind: pin the schema, or compare with the pinned *)
(* one.  The read and the two halves of the write are file operations.     *)
BindAccumulate(p) ==
    /\ pr[p].pc = "bind" /\ pr[p].call.op = "accumulate"
    /\ IF schema = None THEN Goto(p, "pin") /\ UNCHANGED <<hist, exact>>
       ELSE IF schema = pr[p].call.schema THEN Goto(p, "count") /\ UNCHANGED <<hist, exact>>
       ELSE Refuse(p)
    /\ UNCHANGED <<overlap, clock, schema, dir, segs, made>>

PutSchema(p) ==
    /\ \/ pr[p].pc = "pin" /\ schema' = None /\ Goto(p, "pinned")
       \/ pr[p].pc = "pinned" /\ schema' = pr[p].call.schema /\ Goto(p, "count")
    /\ UNCHANGED <<overlap, clock, dir, segs, made, hist, exact>>

(* combine takes the call's stamp; append_segment makes the directory and  *)
(* counts its files for the sequence number.                               *)
AppendCount(p) ==
    /\ pr[p].pc = "count"
    /\ pr' = [pr EXCEPT ![p].ts = clock, ![p].seq = Cardinality(DOMAIN segs), ![p].cut = NewRows(p),
                        ![p].pc = IF pr[p].call.rows > 0 THEN "create" ELSE "ttl"]
    /\ dir' = (dir \/ pr[p].call.rows > 0)
    /\ UNCHANGED <<overlap, clock, schema, segs, made, hist, exact>>

(* The two halves of fs::write, of a new segment and of the boundary       *)
(* segment.  Nothing can be created in a directory that was removed; what  *)
(* is written to a file removed meanwhile is lost.                         *)
OwnPath(p) == IF pr[p].todo = <<>> THEN <<pr[p].ts, pr[p].seq>> ELSE Head(pr[p].todo)

CreateFile(p) ==
    /\ pr[p].pc = "create"
    /\ IF ~dir THEN Refuse(p) /\ UNCHANGED segs
       ELSE segs' = PutFile(OwnPath(p), Torn) /\ Goto(p, "write") /\ UNCHANGED <<hist, exact>>
    /\ UNCHANGED <<overlap, clock, schema, dir, made>>

WriteFile(p) ==
    /\ pr[p].pc = "write"
    /\ segs' = IF OwnPath(p) \in DOMAIN segs THEN PutFile(OwnPath(p), pr[p].cut) ELSE segs
    /\ pr' = [pr EXCEPT ![p].pc = IF pr[p].todo = <<>> THEN "ttl" ELSE "trim", ![p].over = 0]
    /\ UNCHANGED <<overlap, clock, schema, dir, made, hist, exact>>

(* The segments whose call time lies before the cutoff.                    *)
Expired(p) ==
    LET cutoff == pr[p].ts - pr[p].call.ttl
    IN  IF pr[p].call.ttl = None \/ cutoff <= 0 THEN <<>>
        ELSE SelectSeq(Segments, LAMBDA x : x[1] < cutoff)

(* evict_ttl lists the directory, then removes file by file; a file that   *)
(* is already gone does not matter.                                        *)
EvictTtlList(p) ==
    /\ pr[p].pc = "ttl"
    /\ pr' = [pr EXCEPT ![p].todo = Expired(p), ![p].pc = "expire"]
    /\ UNCHANGED <<overlap, clock, schema, dir, segs, made, hist, exact>>

EvictTtlRemove(p) ==
    /\ pr[p].pc = "expire"
    /\ IF pr[p].todo # <<>>
       THEN segs' = RemoveFile(Head(pr[p].todo)) /\ pr' = [pr EXCEPT ![p].todo = Tail(@)]
       ELSE /\ pr' = [pr EXCEPT ![p].pc = IF pr[p].call.max > 0 \/ pr[p].call.result = "all" THEN "list" ELSE "stage",
                                ![p].why = IF pr[p].call.max > 0 THEN "total" ELSE "stage"]
            /\ UNCHANGED segs
    /\ UNCHANGED <<overlap, clock, schema, dir, made, hist, exact>>

(* read_all: list the segments, then read them one by one; a segment that  *)
(* is gone or torn fails the whole.                                        *)
ReadAllList(p) ==
    /\ pr[p].pc = "list"
    /\ pr' = [pr EXCEPT ![p].todo = Segments, ![p].got = <<>>, ![p].pc = "read"]
    /\ UNCHANGED <<overlap, clock, schema, dir, segs, made, hist, exact>>

(* The file can be opened and holds a batch.                               *)
Readable(path) == path \in DOMAIN segs /\ segs[path] # Torn

(* What read_all was called for: counting takes a failure for no rows, the *)
(* others fail with it.                                                    *)
Counting == {"total", "clear"}

ReadSegment(p) ==
    /\ pr[p].pc = "read"
    /\ IF pr[p].todo = <<>> THEN Goto(p, IF pr[p].why \in Counting THEN "counted" ELSE "stage") /\ UNCHANGED <<hist, exact>>
       ELSE IF Readable(Head(pr[p].todo))
            THEN pr' = [pr EXCEPT ![p].todo = Tail(@), ![p].got = Append(@, segs[Head(pr[p].todo)])] /\ UNCHANGED <<hist, exact>>
       ELSE IF pr[p].why \in Counting
            THEN pr' = [pr EXCEPT ![p].pc = "counted", ![p].todo = <<>>, ![p].got = <<>>] /\ UNCHANGED <<hist, exact>>
       ELSE Refuse(p)
    /\ UNCHANGED <<overlap, clock, schema, dir, segs, made>>

(* evict_max_rows counts the rows, lists the segments and drops the oldest *)
(* until the overflow is gone; the boundary segment keeps its newest rows. *)
AfterEviction(p) == IF pr[p].call.result = "all" THEN "list" ELSE "stage"

EvictMaxCount(p) ==
    /\ pr[p].pc = "counted" /\ pr[p].why = "total"
    /\ LET total == Len(FlattenSeq(pr[p].got))
       IN  IF total <= pr[p].call.max
           THEN pr' = [pr EXCEPT ![p].pc = AfterEviction(p), ![p].why = "stage"]
           ELSE pr' = [pr EXCEPT ![p].over = total - pr[p].call.max, ![p].todo = Segments, ![p].pc = "trim"]
    /\ UNCHANGED <<overlap, clock, schema, dir, segs, made, hist, exact>>

(* Mutant: the boundary segment keeps its oldest rows.                     *)
Mut_Kept(rows, over) == SubSeq(rows, 1, Len(rows) - over)

(* The newest rows of the boundary segment.                                *)
Kept(rows, over) == SubSeq(rows, over + 1, Len(rows))

(* Mutant: a segment that is exactly the rest of the overflow is trimmed.  *)
Mut_DropsWhole(rows, over) == Len(rows) < over

DropsWhole(rows, over) == Len(rows) <= over

(* A segment is read; it is dropped or rewritten in the steps that follow. *)
EvictMaxRead(p) ==
    /\ pr[p].pc = "trim"
    /\ IF pr[p].over = 0 \/ pr[p].todo = <<>>
       THEN pr' = [pr EXCEPT ![p].pc = AfterEviction(p), ![p].why = "stage", ![p].todo = <<>>] /\ UNCHANGED <<hist, exact>>
       ELSE IF ~Readable(Head(pr[p].todo)) THEN Refuse(p)
       ELSE LET rows == segs[Head(pr[p].todo)]
            IN  /\ pr' = IF DropsWhole(rows, pr[p].over)
                         THEN [pr EXCEPT ![p].pc = "drop", ![p].over = @ - Len(rows)]
                         ELSE [pr EXCEPT ![p].pc = "create", ![p].cut = Kept(rows, pr[p].over)]
                /\ UNCHANGED <<hist, exact>>
    /\ UNCHANGED <<overlap, clock, schema, dir, segs, made>>

EvictMaxDrop(p) ==
    /\ pr[p].pc = "drop"
    /\ segs' = RemoveFile(Head(pr[p].todo))
    /\ pr' = [pr EXCEPT ![p].todo = Tail(@), ![p].pc = "trim"]
    /\ UNCHANGED <<overlap, clock, schema, dir, made, hist, exact>>

(* stage_batches: every batch cut into slices of at most OutBatchRows rows *)
(* for the source phase to drain one by one.                               *)
StageBatches(batches) ==
    LET slices(b) == [k \in 1 .. ((Len(b) + OutBatchRows - 1) \div OutBatchRows) |->
                         SubSeq(b, (k - 1) * OutBatchRows + 1,
                                IF k * OutBatchRows < Len(b) THEN k * OutBatchRows ELSE Len(b))]
    IN  FlattenSeq([i \in DOMAIN batches |-> slices(batches[i])])

(* OutDrain, and BatchListProducer of a read: the batches after the        *)
(* cursor, one per tick.                                                   *)
OutDrain(staged) == FlattenSeq(staged)

(* The requested result is staged and drained: nothing, this call's rows,  *)
(* or everything read back.                                                *)
Stage(p) ==
    /\ pr[p].pc = "stage" /\ pr[p].call.op = "accumulate"
    /\ Return(p, OutDrain(StageBatches(
           CASE pr[p].call.result = "none" -> <<>>
             [] pr[p].call.result = "new"  -> <<NewRows(p)>>
             [] OTHER                      -> pr[p].got)))
    /\ UNCHANGED <<overlap, clock, schema, dir, segs, made>>

(* AccumulateReadFunction: the bind needs a schema, the producer reads     *)
(* every segment.                                                          *)
AccumulateRead(p) ==
    /\ pr[p].call # None /\ pr[p].call.op = "read"
    /\ \/ pr[p].pc = "bind" /\ schema = None /\ Refuse(p)
       \/ pr[p].pc = "bind" /\ schema # None /\ Goto(p, "list") /\ UNCHANGED <<hist, exact>>
       \/ pr[p].pc = "stage" /\ Return(p, OutDrain(pr[p].got))
    /\ UNCHANGED <<overlap, clock, schema, dir, segs, made>>

(* AccumulateClearFunction: count the rows, then remove_dir_all, which     *)
(* unlinks the files it lists and the schema, in the order the directory   *)
(* has them, and gives up at a directory that is not empty any more.       *)
ClearList(p) ==
    /\ pr[p].pc = "counted" /\ pr[p].why = "clear"
    /\ \/ schema' = None /\ pr' = [pr EXCEPT ![p].pc = "unlink", ![p].todo = Segments]
       \/ UNCHANGED schema /\ pr' = [pr EXCEPT ![p].pc = "unlink", ![p].todo = Segments, ![p].why = "schema last"]
    /\ UNCHANGED <<overlap, clock, dir, segs, made, hist, exact>>

ClearUnlink(p) ==
    /\ pr[p].pc = "unlink"
    /\ IF pr[p].todo # <<>>
       THEN /\ segs' = RemoveFile(Head(pr[p].todo)) /\ pr' = [pr EXCEPT ![p].todo = Tail(@)]
            /\ UNCHANGED <<dir, schema, hist, exact>>
       ELSE /\ dir' = (DOMAIN segs # {})
            /\ schema' = IF DOMAIN segs = {} /\ pr[p].why = "schema last" THEN None ELSE schema
            /\ Return(p, <<<<0, Len(FlattenSeq(pr[p].got))>>>>)
            /\ UNCHANGED segs
    /\ UNCHANGED <<overlap, clock, made>>

AccNext ==
    \/ Tick
    \/ \E p \in Procs :
           \/ Start(p) \/ BindAccumulate(p) \/ PutSchema(p) \/ AppendCount(p) \/ CreateFile(p) \/ WriteFile(p)
           \/ EvictTtlList(p) \/ EvictTtlRemove(p) \/ ReadAllList(p) \/ ReadSegment(p)
           \/ EvictMaxCount(p) \/ EvictMaxRead(p) \/ EvictMaxDrop(p)
           \/ Stage(p) \/ AccumulateRead(p) \/ ClearList(p) \/ ClearUnlink(p)
-----------------------------------------------------------------------------
(* Calls made one after the other: between them the directory holds        *)
(* exactly the rows the eviction rules leave (older than the ttl gone, the *)
(* newest max kept, oldest first), and every call returned exactly what    *)
(* it asked for, with files dropped and one boundary file rewritten.  Of   *)
(* calls under way together, each fails or returns, of every call it saw,  *)
(* all the rows up to the last, in order and once: never part of a file.   *)
CollectionExact ==
    /\ ~overlap /\ (\A p \in Procs : pr[p] = Idle) => Contents = RowsOf(hist)
    /\ exact

(* Whatever overlaps, a segment file holds the newest rows of one call, or *)
(* is torn and about to be written: no interleaving of appends, evictions  *)
(* and clears mixes two calls in a file, leaves a hole in one, or leaves a *)
(* file that no later call can read.                                       *)
SegmentIntegrity ==
    \A x \in DOMAIN segs :
        \/ segs[x] = Torn /\ \E p \in Procs : pr[p].pc = "write" /\ OwnPath(p) = x
        \/ segs[x] # Torn /\ WholeRows(segs[x]) /\ \A i \in DOMAIN segs[x] : segs[x][i][1] = segs[x][1][1]

(* A collection holds what the calls that have returned left in it, and no *)
(* torn or mixed segment reaches a result (accumulate/mod.rs: append,      *)
(* evict, read, clear).                                                    *)
CollectionSound == CollectionExact /\ SegmentIntegrity
=============================================================================
