----------------------------- MODULE FsStorage -----------------------------
(***************************************************************************)
(* vgi/src/storage/fs.rs: the FunctionStorage whose scope is a directory.  *)
(* Every system call is a step of its own.                                 *)
(*                                                                         *)
(* A value is a sequence of cells, so that a file opened and not yet       *)
(* written is a file with the wrong contents, and a short value written    *)
(* over a long one leaves the end of the long one.  Files are inodes: a    *)
(* name may be renamed or removed under an open descriptor.                *)
(*                                                                         *)
(* One key, one log and one queue of one scope.                            *)
(***************************************************************************)
EXTENDS Integers, FiniteSets, SequencesExt

CONSTANTS Procs, Values, MaxId, MaxBatch, None,
          Inodes,    \* 1..n: enough for every name and every descriptor
          Ttl        \* of gc

VARIABLES ino,       \* the contents of each inode
          kvf, tmpf, \* the files kv_<key> and kv_<key>.tmp
          logf,      \* the files <id>.bin of the log's directory
          queuef,    \* the files <id>.bin of __queue__
          age,       \* the time since each directory, or a file in it, was modified
          pr,        \* the processes
          env        \* what callers use, and what may fail; never changes

vars == <<ino, kvf, tmpf, logf, queuef, age, pr, env>>

FileIds == 0..MaxId

\* The three parts of a scope share nothing but its removal: a behaviour uses
\* one.  In "faults" system calls fail and processes are killed, and a log has one
\* writer; in "gc" time goes by, and workers that start sweep the store, and
\* nothing is scanned.
Environments == [part : {"kv", "log", "queue"}, mode : {"overlap", "faults", "gc"}]

Faults == env.mode = "faults"

\* The scope's directory, and the one below it that is in use.
Dirs == {"scope"} \cup ({env.part} \ {"kv"})

\* Bounds: the units of time a walk of gc takes, and the greatest age that is told
\* from a greater one.
MaxWalk == 1
MaxAge == Ttl + 1 + MaxWalk

\* The values of a batch differ, so that their order shows.
Batches == {vs \in UNION {[1..n -> Values] : n \in 1..MaxBatch} : IsInjective(vs)}

\* todo: values still to be written; id: where the next one goes; fd: the open
\* file, or the one claimed; ids: a directory listing; limit, got and seen (the
\* entries as they were when they were listed): of scan; dirs and late: of gc.
Idle == [pc |-> "idle", todo |-> << >>, id |-> 0, fd |-> None, ids |-> {},
         limit |-> 0, got |-> None, seen |-> << >>, dirs |-> {}, late |-> 0]

PCs == {"idle", "kv_open", "kv_write", "kv_rename", "kv_read", "ap_list", "ap_create", "ap_write",
        "sc_list", "sc_read", "qu_list", "qu_create", "qu_write", "qp_list", "qp_rename",
        "qp_read", "clear", "walk", "sweep", "done"}

Writing == {"kv_open", "kv_write", "kv_rename", "ap_list", "ap_create", "ap_write",
            "qu_list", "qu_create", "qu_write"}

\* The store has its type, and an operation has values left exactly while it writes.
TypeOK ==
    /\ ino \in [Inodes -> Seq(UNION {Range(v) : v \in Values})]
    /\ {kvf, tmpf} \subseteq Inodes \cup {None}
    /\ {logf, queuef} \subseteq [FileIds -> Inodes \cup {None}]
    /\ env \in Environments
    /\ age \in [Dirs -> 0..MaxAge]
    /\ \A p \in Procs : /\ pr[p].pc \in PCs
                        /\ pr[p].todo \in IF pr[p].pc \in Writing THEN Batches ELSE {<< >>}
                        /\ pr[p].fd \in Inodes \cup {None}
                        /\ pr[p].ids \subseteq FileIds

Init ==
    /\ ino = [n \in Inodes |-> << >>]
    /\ kvf = None /\ tmpf = None
    /\ logf = [i \in FileIds |-> None]
    /\ queuef = [i \in FileIds |-> None]
    /\ env \in Environments
    /\ age = [d \in Dirs |-> 0]
    /\ pr = [p \in Procs |-> Idle]

-----------------------------------------------------------------------------
(* Files.                                                                  *)

Referenced ==
    ({kvf, tmpf} \cup Range(logf) \cup Range(queuef) \cup {pr[p].fd : p \in Procs}) \ {None}

Fresh == Min(Inodes \ Referenced)

\* What the inodes hold once the step is done; one that nothing names is free.
Contents(c) ==
    \E live \in {Referenced'} : ino' = [n \in Inodes |-> IF n \in live THEN c[n] ELSE << >>]

\* write_all at offset 0
Written(old, v) == v \o SubSeq(old, Len(v) + 1, Len(old))

Listed(f) == {i \in FileIds : f[i] # None}

\* max_id + 1
NextId(f) == IF Listed(f) = {} THEN 0 ELSE Max(Listed(f)) + 1

Touched(d) == age' = [age EXCEPT ![d] = 0]

Be(p, s) == pr' = [pr EXCEPT ![p] = s]

Done(p, got) == Be(p, [Idle EXCEPT !.pc = "done", !.got = got])

-----------------------------------------------------------------------------
(* Callers.  The dispatcher writes a key from one process at a time; a     *)
(* queue is filled by the init that makes up the execution id, before any  *)
(* worker that learns it takes from it; a scope is cleared when nobody     *)
(* uses it any more, and an execution that is still going on changes its   *)
(* scope within the ttl.  A log may be read while others append to it.     *)

Kind(pc) ==
    CASE pc \in {"kv_open", "kv_write", "kv_rename"} -> "put"
      [] pc \in {"ap_list", "ap_create", "ap_write"} -> "append"
      [] pc \in {"sc_list", "sc_read"} -> "scan"
      [] pc \in {"qu_list", "qu_create", "qu_write"} -> "push"
      [] pc \in {"qp_list", "qp_rename", "qp_read"} -> "pop"
      [] pc \in {"clear", "sweep"} -> "clear"
      [] OTHER -> "other"

Apart ==
    {{"put"}, {"push"}, {"push", "pop"}} \cup
    (IF Faults THEN {{"append"}} ELSE {})

Busy(q) == pr[q].pc \notin {"idle", "done", "walk"}

\* The time since the scope was modified.
Unused == Min(Range(age))

MayCall(p, part, kind) ==
    /\ pr[p].pc = "idle"
    /\ env.part = part
    /\ Unused <= Ttl
    /\ \A q \in Procs \ {p} : /\ {kind, Kind(pr[q].pc)} \notin Apart
                             /\ Kind(pr[q].pc) # "clear"

Call(p, part, kind, s) ==
    /\ MayCall(p, part, kind)
    /\ Be(p, s)
    /\ UNCHANGED <<ino, kvf, tmpf, logf, queuef, age, env>>

Start(pc) == [Idle EXCEPT !.pc = pc]

-----------------------------------------------------------------------------
(* The value.                                                              *)

KvPut(p, v) == Call(p, "kv", "put", [Start("kv_open") EXCEPT !.todo = <<v>>])

\* fs::write creates or truncates the temporary file
KvOpen(p) ==
    /\ pr[p].pc = "kv_open"
    /\ tmpf' = IF tmpf = None THEN Fresh ELSE tmpf
    /\ Touched("scope")
    /\ Be(p, [pr[p] EXCEPT !.pc = "kv_write", !.fd = tmpf'])
    /\ UNCHANGED <<kvf, logf, queuef, env>>
    /\ Contents([ino EXCEPT ![tmpf'] = << >>])

KvWrite(p) ==
    /\ pr[p].pc = "kv_write"
    /\ Be(p, [pr[p] EXCEPT !.pc = "kv_rename", !.fd = None])
    /\ Touched("scope")
    /\ UNCHANGED <<kvf, tmpf, logf, queuef, env>>
    /\ Contents([ino EXCEPT ![pr[p].fd] = Written(@, pr[p].todo[1])])

\* A create, a write or a rename that fails leaves the value as it was, and the
\* temporary file behind.
KvPutFails(p) ==
    /\ Faults
    /\ pr[p].pc \in {"kv_open", "kv_write", "kv_rename"}
    /\ Done(p, None)
    /\ UNCHANGED <<ino, kvf, tmpf, logf, queuef, age, env>>

KvRename(p) ==
    /\ pr[p].pc = "kv_rename"
    /\ kvf' = IF tmpf = None THEN kvf ELSE tmpf
    /\ tmpf' = None
    /\ Touched("scope")
    /\ Done(p, None)
    /\ UNCHANGED <<logf, queuef, env>>
    /\ Contents(ino)

\* fs::read opens the file, and reads it; an error of either reads as no value.
KvGet(p) ==
    /\ MayCall(p, "kv", "get")
    /\ \/ /\ kvf = None \/ Faults
          /\ Done(p, [kv |-> None])
       \/ /\ kvf # None
          /\ Be(p, [Start("kv_read") EXCEPT !.fd = kvf])
    /\ UNCHANGED <<ino, kvf, tmpf, logf, queuef, age, env>>

KvRead(p) ==
    /\ pr[p].pc = "kv_read"
    /\ Done(p, [kv |-> ino[pr[p].fd]])
    /\ UNCHANGED <<kvf, tmpf, logf, queuef, age, env>>
    /\ Contents(ino)

KvDel(p) ==
    /\ MayCall(p, "kv", "get")
    /\ \/ kvf' = None /\ Touched("scope")
       \/ Faults /\ UNCHANGED <<kvf, age>>
    /\ Done(p, None)
    /\ UNCHANGED <<tmpf, logf, queuef, env>>
    /\ Contents(ino)

-----------------------------------------------------------------------------
(* The log.                                                                *)

\* Bound: the ids that are taken or may still be stay within FileIds.
Pending == MapThenSumSet(LAMBDA q : Len(pr[q].todo), Procs)

Room(f, vs) == NextId(f) + Pending + Len(vs) <= MaxId + 1

\* append is append_many of one value
AppendMany(p, vs) ==
    /\ Room(logf, vs)
    /\ Call(p, "log", "append", [Start("ap_list") EXCEPT !.todo = vs])

AppendList(p) ==
    /\ pr[p].pc = "ap_list"
    /\ Be(p, [pr[p] EXCEPT !.pc = "ap_create", !.id = NextId(logf)])
    /\ UNCHANGED <<ino, kvf, tmpf, logf, queuef, age, env>>

\* open with create_new
CreateNew(f, id) == f[id] = None

\* The loop goes on to the next value of the batch, or the operation is over.
NextValue(p, pc) ==
    LET rest == Tail(pr[p].todo)
    IN  IF rest = << >> THEN Done(p, None)
        ELSE Be(p, [pr[p] EXCEPT !.pc = pc, !.todo = rest, !.id = @ + 1, !.fd = None])

\* An id that is taken is stepped over; any other error drops the value.
AppendCreate(p) ==
    /\ pr[p].pc = "ap_create"
    /\ pr[p].id \in FileIds
    /\ IF ~CreateNew(logf, pr[p].id)
       THEN Be(p, [pr[p] EXCEPT !.id = @ + 1]) /\ UNCHANGED <<logf, age>>
       ELSE \/ /\ logf' = [logf EXCEPT ![pr[p].id] = Fresh]
               /\ Be(p, [pr[p] EXCEPT !.pc = "ap_write", !.fd = Fresh])
               /\ Touched("log")
            \/ /\ Faults
               /\ NextValue(p, "ap_create")
               /\ UNCHANGED <<logf, age>>
    /\ UNCHANGED <<ino, kvf, tmpf, queuef, env>>

\* What write_all gets into the file: its result is ignored.  Of a value that is
\* cut short nothing is kept.
Stored(v) == {v} \cup (IF Faults THEN {<< >>} ELSE {})

AppendWrite(p) ==
    /\ pr[p].pc = "ap_write"
    /\ NextValue(p, "ap_create")
    /\ Touched("log")
    /\ UNCHANGED <<kvf, tmpf, logf, queuef, env>>
    /\ \E v \in Stored(pr[p].todo[1]) : Contents([ino EXCEPT ![pr[p].fd] = Written(@, v)])

\* The process that has the file open, to write it.
Writers(f, i, pc) == {p \in Procs : pr[p].pc = pc /\ pr[p].fd = f[i]}

\* What a file holds once its writer is done.
Settled(f, i, pc) ==
    IF Writers(f, i, pc) = {} THEN ino[f[i]]
    ELSE pr[CHOOSE p \in Writers(f, i, pc) : TRUE].todo[1]

Entry(i) == [id |-> i, val |-> Settled(logf, i, "ap_write"), open |-> Writers(logf, i, "ap_write") # {}]

\* scan: the ids after the cursor are listed, and the first of them are read
Scan(p, after, limit) ==
    /\ env.mode # "gc"
    /\ Call(p, "log", "scan", [Start("sc_list") EXCEPT !.id = after, !.limit = limit])

FirstIds(ids, n) == {i \in ids : Cardinality({j \in ids : j <= i}) <= n}

ScanList(p) ==
    /\ pr[p].pc = "sc_list"
    /\ LET ids == FirstIds({i \in Listed(logf) : i > pr[p].id}, pr[p].limit)
           order == SetToSortSeq(ids, <)
       IN  Be(p, [pr[p] EXCEPT !.pc = "sc_read", !.got = [entries |-> << >>], !.ids = ids,
                               !.seen = [k \in DOMAIN order |-> Entry(order[k])]])
    /\ UNCHANGED <<ino, kvf, tmpf, logf, queuef, age, env>>

\* A file that cannot be read is left out.
ScanRead(p) ==
    /\ pr[p].pc = "sc_read"
    /\ IF pr[p].ids = {} THEN Done(p, pr[p].got)
       ELSE LET i == Min(pr[p].ids)
            IN  \E readable \in {TRUE, ~Faults} :
                  Be(p, [pr[p] EXCEPT !.ids = @ \ {i},
                           !.got.entries = IF logf[i] = None \/ ~readable THEN @
                                           ELSE Append(@, [id |-> i, val |-> ino[logf[i]]])])
    /\ UNCHANGED <<ino, kvf, tmpf, logf, queuef, age, env>>

-----------------------------------------------------------------------------
(* The queue.                                                              *)

QueuePush(p, vs) ==
    /\ Room(queuef, vs)
    /\ Call(p, "queue", "push", [Start("qu_list") EXCEPT !.todo = vs])

PushList(p) ==
    /\ pr[p].pc = "qu_list"
    /\ Be(p, [pr[p] EXCEPT !.pc = "qu_create", !.id = NextId(queuef)])
    /\ UNCHANGED <<ino, kvf, tmpf, logf, queuef, age, env>>

\* An item whose file cannot be created is dropped.
PushCreate(p) ==
    /\ pr[p].pc = "qu_create"
    /\ pr[p].id \in FileIds
    /\ \/ /\ CreateNew(queuef, pr[p].id)
          /\ queuef' = [queuef EXCEPT ![pr[p].id] = Fresh]
          /\ Be(p, [pr[p] EXCEPT !.pc = "qu_write", !.fd = Fresh])
          /\ Touched("queue")
       \/ /\ ~CreateNew(queuef, pr[p].id) \/ Faults
          /\ NextValue(p, "qu_create")
          /\ UNCHANGED <<queuef, age>>
    /\ UNCHANGED <<ino, kvf, tmpf, logf, env>>

PushWrite(p) ==
    /\ pr[p].pc = "qu_write"
    /\ NextValue(p, "qu_create")
    /\ Touched("queue")
    /\ UNCHANGED <<kvf, tmpf, logf, queuef, env>>
    /\ \E v \in Stored(pr[p].todo[1]) : Contents([ino EXCEPT ![pr[p].fd] = Written(@, v)])

QueuePop(p) == Call(p, "queue", "pop", Start("qp_list"))

PopList(p) ==
    /\ pr[p].pc = "qp_list"
    /\ IF Listed(queuef) = {} THEN Done(p, [item |-> None])
       ELSE Be(p, [pr[p] EXCEPT !.pc = "qp_rename", !.ids = Listed(queuef)])
    /\ UNCHANGED <<ino, kvf, tmpf, logf, queuef, age, env>>

Mut_Claimed(f, i) == f

\* The rename leaves nothing under the old name.
Claimed(f, i) == [f EXCEPT ![i] = None]

\* The loop goes on to the next file listed, or there is none.
PopNext(p, rest) ==
    IF rest = {} THEN Done(p, [item |-> None]) ELSE Be(p, [pr[p] EXCEPT !.ids = rest])

\* The listed files are tried in order; the rename of one that another popper
\* has claimed fails, and one that is claimed and cannot be read is removed all
\* the same.
PopRename(p) ==
    LET i == Min(pr[p].ids)
        rest == pr[p].ids \ {i}
    IN  /\ pr[p].pc = "qp_rename"
        /\ \/ /\ queuef[i] # None
              /\ queuef' = Claimed(queuef, i)
              /\ Touched("queue")
              /\ \/ Be(p, [pr[p] EXCEPT !.pc = "qp_read", !.fd = queuef[i], !.ids = rest])
                 \/ Faults /\ PopNext(p, rest)
           \/ /\ queuef[i] = None \/ Faults
              /\ UNCHANGED <<queuef, age>>
              /\ PopNext(p, rest)
        /\ UNCHANGED <<kvf, tmpf, logf, env>>
        /\ Contents(ino)

\* The claimed file is read and removed.
PopRead(p) ==
    /\ pr[p].pc = "qp_read"
    /\ Done(p, [item |-> ino[pr[p].fd]])
    /\ UNCHANGED <<kvf, tmpf, logf, queuef, age, env>>
    /\ Contents(ino)

-----------------------------------------------------------------------------
(* The end of a scope, and of a process.                                   *)

NoFile == kvf = None /\ tmpf = None /\ Listed(logf) = {} /\ Listed(queuef) = {}

\* The end of an execution: nothing of it runs.
Clear(p) ==
    /\ \A q \in Procs : ~Busy(q)
    /\ pr[p].pc = "idle"
    /\ Be(p, Start("clear"))
    /\ UNCHANGED <<ino, kvf, tmpf, logf, queuef, age, env>>

Mut_Subtree == {"scope"}

\* The directories newest_mtime goes into.
Subtree == Dirs

\* gc, at the start of any worker: the clock is read, and then newest_mtime walks
\* the scope, whose metadata it is taken to be able to read.
Gc(p) ==
    /\ env.mode = "gc"
    /\ pr[p].pc = "idle"
    /\ Be(p, [Start("walk") EXCEPT !.dirs = Subtree])
    /\ UNCHANGED <<ino, kvf, tmpf, logf, queuef, age, env>>

\* One directory with the files in it.  One modification within the ttl, or after
\* the clock was read, is enough to spare the scope.
NewestMtime(p) ==
    /\ pr[p].pc = "walk"
    /\ \E d \in pr[p].dirs :
         LET rest == pr[p].dirs \ {d}
         IN  Be(p, IF age[d] - pr[p].late <= Ttl THEN Start("done")
                   ELSE IF rest = {} THEN Start("sweep")
                   ELSE [pr[p] EXCEPT !.dirs = rest])
    /\ UNCHANGED <<ino, kvf, tmpf, logf, queuef, age, env>>

\* remove_dir_all, one file at a time
RemoveFile(p) ==
    /\ pr[p].pc \in {"clear", "sweep"}
    /\ \/ kvf # None /\ kvf' = None /\ UNCHANGED <<tmpf, logf, queuef>>
       \/ tmpf # None /\ tmpf' = None /\ UNCHANGED <<kvf, logf, queuef>>
       \/ /\ \E i \in Listed(logf) : logf' = [logf EXCEPT ![i] = None]
          /\ UNCHANGED <<kvf, tmpf, queuef>>
       \/ /\ \E i \in Listed(queuef) : queuef' = [queuef EXCEPT ![i] = None]
          /\ UNCHANGED <<kvf, tmpf, logf>>
    /\ UNCHANGED <<age, pr, env>>
    /\ Contents(ino)

\* The directory itself goes, and the scope may be created again.
RemoveDir(p) ==
    /\ pr[p].pc \in {"clear", "sweep"}
    /\ NoFile
    /\ Done(p, None)
    /\ age' = IF \E q \in Procs \ {p} : pr[q].pc = "sweep" THEN age ELSE [d \in Dirs |-> 0]
    /\ UNCHANGED <<ino, kvf, tmpf, logf, queuef, env>>

Return(p) ==
    /\ pr[p].pc = "done"
    /\ Be(p, Idle)
    /\ UNCHANGED <<ino, kvf, tmpf, logf, queuef, age, env>>

\* Time goes by between operations, and while gc walks.
Tick ==
    /\ env.mode = "gc"
    /\ \A p \in Procs : ~Busy(p) /\ pr[p].late < MaxWalk
    /\ Unused < MaxAge
    /\ age' = [d \in Dirs |-> Min({age[d] + 1, MaxAge})]
    /\ pr' = [p \in Procs |-> IF pr[p].pc = "walk" THEN [pr[p] EXCEPT !.late = @ + 1] ELSE pr[p]]
    /\ UNCHANGED <<ino, kvf, tmpf, logf, queuef, env>>

\* A worker is killed, other than in a removal: nobody uses that scope again.
Killed(p) ==
    /\ Faults
    /\ pr[p].pc \notin {"idle", "clear", "sweep"}
    /\ Be(p, Idle)
    /\ UNCHANGED <<kvf, tmpf, logf, queuef, age, env>>
    /\ Contents(ino)

Next ==
    \/ \E p \in Procs :
         \/ \E v \in Values : KvPut(p, v)
         \/ KvOpen(p) \/ KvWrite(p) \/ KvPutFails(p) \/ KvRename(p) \/ KvGet(p) \/ KvRead(p) \/ KvDel(p)
         \/ \E vs \in Batches : AppendMany(p, vs) \/ QueuePush(p, vs)
         \/ AppendList(p) \/ AppendCreate(p) \/ AppendWrite(p)
         \/ Scan(p, -1, MaxId + 1) \/ Scan(p, 0, 1)
         \/ ScanList(p) \/ ScanRead(p)
         \/ PushList(p) \/ PushCreate(p) \/ PushWrite(p)
         \/ QueuePop(p) \/ PopList(p) \/ PopRename(p) \/ PopRead(p)
         \/ Clear(p) \/ Gc(p) \/ NewestMtime(p) \/ RemoveFile(p) \/ RemoveDir(p) \/ Return(p) \/ Killed(p)
    \/ Tick

Spec == Init /\ [][Next]_vars

-----------------------------------------------------------------------------
(* Correctness.                                                            *)

Removing == \E p \in Procs : pr[p].pc \in {"clear", "sweep"}

\* What p will return, from the step at which its operation takes effect: the
\* opening of the value's file, the claim of an item.  A scan takes effect when it
\* lists the log, and returns what it reads later.
AbsRet(p) ==
    CASE pr[p].pc = "kv_read" -> [kv |-> ino[pr[p].fd]]
      [] pr[p].pc = "qp_read" -> [item |-> ino[pr[p].fd]]
      [] pr[p].pc = "sc_read" -> [listed |-> pr[p].seen]
      [] OTHER -> pr[p].got

Store == INSTANCE FunctionStorage WITH
    faults <- Faults,
    kv    <- IF Removing \/ kvf = None THEN None ELSE ino[kvf],
    log   <- IF Removing THEN {} ELSE {Entry(i) : i \in Listed(logf)},
    queue <- IF Removing THEN << >>
             ELSE LET ids == SetToSortSeq(Listed(queuef), <)
                  IN  [k \in 1..Len(ids) |-> [val  |-> Settled(queuef, ids[k], "qu_write"),
                                              open |-> Writers(queuef, ids[k], "qu_write") # {}]],
    ret   <- [p \in Procs |-> AbsRet(p)]

\* Whatever system calls of other processes come between two of an operation's,
\* the operation is a step of the FunctionStorage contract (mod.rs), or two for a
\* scan: a value is read as one writer wrote it, log entries are numbered upwards
\* and scanned in order, whole unless their append is still going on, and an item
\* is popped once, first in first out.  Where calls fail or processes are killed
\* values are lost or cut short, and nothing else goes wrong.
RefinesContract == Store!Spec

\* gc removes no scope in which anything was modified within the ttl, however the
\* changes of others and the passing of time interleave with its walk, and log
\* entries and items in the nested directories included (newest_mtime).
GcSparesActive == \A p \in Procs : pr[p].pc = "sweep" => Unused > Ttl
=============================================================================
