---------------------------- MODULE WindowCache ----------------------------
(***************************************************************************)
(* vgi/src/window_cache.rs and the window handlers of vgi/src/dispatch.rs: *)
(* pooled workers share a FunctionStorage that holds window partitions in  *)
(* three parts, and each keeps decoded copies in a cache of its own.       *)
(*                                                                         *)
(* A handler is a thread of a worker; its storage calls and its sections   *)
(* under the cache lock are steps.  A partition is (execution, partition   *)
(* id), a key here; each initialisation of it has a version, and a part    *)
(* in storage is known by the version that wrote it.                       *)
(*                                                                         *)
(* The engine initialises a partition, evaluates windows over it from any  *)
(* number of calls, and destroys it, maybe while calls are still running   *)
(* (a cancelled query); it may use the partition id again until the        *)
(* execution ends, when none of its calls is running any more.             *)
(***************************************************************************)
EXTENDS Integers, Sequences, Functions

CONSTANTS Workers, Handlers, WorkerOf,
          Partitions, ExecOf,
          Inits,      \* bound: how often each partition is initialised
          HasMask,    \* the versions that carry a filter mask
          SizeOf, MaxEntries, MaxBytes,
          Addresses   \* bound: where the allocator may put an entry

ASSUME WindowAssumption ==
    /\ WorkerOf \in [Handlers -> Workers] /\ Workers # {} /\ "elsewhere" \notin Workers
    /\ Partitions # {}
    /\ Inits \in [Partitions -> Nat]
    /\ HasMask \subseteq Nat
    /\ SizeOf \in [Partitions -> Nat]
    /\ {MaxEntries, MaxBytes} \subseteq Nat

\* A worker knows a copy by its partition id alone, and a prune keeps it as
\* long as storage has any output schema under that id.  So the copy a worker
\* kept of an id that another worker initialised again is served as if it were
\* the new partition, and no handler prevents it: that an id is used once, or
\* one worker serves all calls, is what the code takes from its caller.
ReuseStaysHome ==
    \/ \A k \in Partitions : Inits[k] <= 1
    \/ \A t, u \in Handlers : WorkerOf[t] = WorkerOf[u]

VARIABLES store,  \* FunctionStorage: the parts of each partition, 0 if absent
          cache,  \* the workers' WindowPartitionCache
          th,     \* the handlers
          life    \* the engine's view of each partition

windowVars == <<store, cache, th, life>>

Parts == [p : Nat, o : Nat, m : Nat]

Absent == [p |-> 0, o |-> 0, m |-> 0]

\* The partition that initialisation v describes.
Whole(v) == [p |-> v, o |-> v, m |-> IF v \in HasMask THEN v ELSE 0]

\* An entry's id is the address of its Arc.
Entry == [part : Parts, id : Addresses]

Inner(c) ==
    /\ c.order \in Seq(Partitions) /\ IsInjective(c.order)
    /\ c.entries \in [Range(c.order) -> Entry]
    /\ c.generation \in Nat

Handler == [pc : {"ready", "snap", "prune", "dead", "remove", "put_p", "put_o", "put_m", "insert",
                  "lookup", "again", "get_p", "get_o", "get_m", "served",
                  "del_p", "del_o", "del_m", "clear"},
            op : {"none", "init", "window", "destroy", "end"},
            key : Partitions, version : Nat, part : Parts, generation : Nat,
            snap : SUBSET (Partitions \X Addresses), victim : Partitions \X (Addresses \cup {0}),
            doomed : SUBSET (Partitions \X Addresses \X Nat)]  \* history: dead when the prune began

\* What the engine has asked for: the last initialisation, and the worker that
\* was told to destroy it.
Life == [version : Nat,
         state : {"new", "init", "live", "ending", "elsewhere", "dead", "ended"},
         worker : Workers \cup {"elsewhere"}]

NoKey == CHOOSE k \in Partitions : TRUE

NoWorker == CHOOSE w \in Workers : TRUE

IdleHandler == [pc |-> "ready", op |-> "none", key |-> NoKey, version |-> 0, part |-> Absent,
          generation |-> 0, snap |-> {}, victim |-> <<NoKey, 0>>, doomed |-> {}]

WindowsTypeOK ==
    /\ store \in [Partitions -> Parts]
    /\ \A w \in Workers : Inner(cache[w])
    /\ th \in [Handlers -> Handler]
    /\ life \in [Partitions -> Life]

WindowsInit ==
    /\ store = [k \in Partitions |-> Absent]
    /\ cache = [w \in Workers |-> [entries |-> << >>, order |-> << >>, bytes |-> 0,
                                   generation |-> 0]]
    /\ th = [t \in Handlers |-> IdleHandler]
    /\ life = [k \in Partitions |-> [version |-> 0, state |-> "new", worker |-> NoWorker]]

-----------------------------------------------------------------------------
(* WindowPartitionCache, of the worker of thread t                         *)

C(t) == cache[WorkerOf[t]]

\* The addresses that an entry has, or a Weak of a prune, or that the history
\* of a prune calls a copy by.
Used ==
    (UNION {{cache[w].entries[k].id : k \in DOMAIN cache[w].entries} : w \in Workers})
        \cup (UNION {{x[2] : x \in th[t].snap \cup th[t].doomed \cup {th[t].victim}} : t \in Handlers})

\* The allocator takes a free address, and may take one again as soon as it is
\* free.
FreshId == CHOOSE id \in Addresses : id \notin Used

\* remove_key for every key of D
Without(c, D) ==
    [c EXCEPT !.entries = Restrict(@, DOMAIN @ \ D),
              !.order = SelectSeq(@, LAMBDA k : k \notin D),
              !.bytes = @ - SumFunctionOnSet(SizeOf, D \cap DOMAIN c.entries)]

\* The keys evicted before one of `bytes` fits: the shortest prefix of the
\* order that makes room.
Evicted(c, bytes) ==
    LET First(i) == Range(SubSeq(c.order, 1, i))
        Room(i) == /\ Len(c.order) - i < MaxEntries
                   /\ bytes <= MaxBytes - (c.bytes - SumFunctionOnSet(SizeOf, First(i)))
        room == {i \in 0..Len(c.order) : Room(i)}
    IN  First(IF room = {} THEN Len(c.order) ELSE CHOOSE i \in room : \A j \in room : i <= j)

Mut_Current(c, g) == TRUE

Current(c, g) == g = c.generation

Mut_Displaced(c, k) == c

\* The cache in which k is about to be inserted.
Displaced(c, k) ==
    LET d == Without(c, {k})
    IN  Without(d, Evicted(d, SizeOf[k]))

Inserted(c, k, part, g) ==
    IF ~Current(c, g) \/ MaxEntries = 0 \/ SizeOf[k] > MaxBytes THEN c
    ELSE LET d == Displaced(c, k)
         IN  [d EXCEPT !.entries = [j \in DOMAIN d.entries \cup {k} |->
                                       IF j = k THEN [part |-> part, id |-> FreshId] ELSE d.entries[j]],
                       !.order = Append(@, k),
                       !.bytes = @ + SizeOf[k]]

Bumped(c) == [c EXCEPT !.generation = @ + 1]

Touched(c, k) == [c EXCEPT !.order = Append(SelectSeq(@, LAMBDA j : j # k), k)]

SetCache(t, c) == cache' = [cache EXCEPT ![WorkerOf[t]] = c]

-----------------------------------------------------------------------------
(* Handlers.                                                               *)

Goto(t, pc) == th' = [th EXCEPT ![t].pc = pc]

Done(t) == th' = [th EXCEPT ![t] = IdleHandler]

Snapshot(t) == {<<k, C(t).entries[k].id>> : k \in DOMAIN C(t).entries}

PruneStart(t) ==
    /\ th[t].pc = "snap"
    /\ th' = [th EXCEPT ![t] =
                [@ EXCEPT !.pc = "prune", !.snap = Snapshot(t),
                          !.doomed = {<<x[1], x[2], life[x[1]].version>> :
                                        x \in {y \in Snapshot(t) : life[y[1]].state \in {"dead", "ended"}}}]]
    /\ UNCHANGED <<store, cache, life>>

Calling(k) == \E t \in Handlers : th[t].op = "window" /\ th[t].key = k

\* aggregate_window_init: prune first
WindowInit(t, k) ==
    /\ th[t].pc = "ready"
    /\ life[k].state \in {"new", "dead"}
    /\ life[k].version < Inits[k]
    /\ ~Calling(k)
    /\ life' = [life EXCEPT ![k] = [@ EXCEPT !.version = life[k].version + 1, !.state = "init"]]
    /\ th' = [th EXCEPT ![t] = [IdleHandler EXCEPT !.pc = "snap", !.op = "init", !.key = k,
                                             !.version = life[k].version + 1]]
    /\ UNCHANGED <<store, cache>>

\* The pc that follows a handler's prune.
AfterPrune(op) == IF op = "init" THEN "remove" ELSE "again"

Mut_Alive(k) == \E t \in Handlers : k \in DOMAIN C(t).entries

Alive(k) == store[k].o # 0

\* prune: the liveness of one entry of the snapshot is read from storage
PruneCheck(t) ==
    /\ th[t].pc = "prune"
    /\ \E x \in th[t].snap :
         th' = [th EXCEPT ![t] =
                  IF Alive(x[1]) THEN [@ EXCEPT !.snap = th[t].snap \ {x}]
                  ELSE [@ EXCEPT !.pc = "dead", !.snap = th[t].snap \ {x}, !.victim = x]]
    /\ UNCHANGED <<store, cache, life>>

Mut_SameEntry(c, x) == x[1] \in DOMAIN c.entries

\* Weak::ptr_eq with the entry the snapshot saw
SameEntry(c, x) == x[1] \in DOMAIN c.entries /\ c.entries[x[1]].id = x[2]

\* prune: the entry goes unless it was replaced
PruneDrop(t) ==
    /\ th[t].pc = "dead"
    /\ IF SameEntry(C(t), th[t].victim)
       THEN SetCache(t, Without(Bumped(C(t)), {th[t].victim[1]}))
       ELSE UNCHANGED cache
    /\ th' = [th EXCEPT ![t] = [@ EXCEPT !.pc = "prune", !.victim = IdleHandler.victim]]
    /\ UNCHANGED <<store, life>>

PruneDone(t) ==
    /\ th[t].pc = "prune"
    /\ th[t].snap = {}
    /\ IF th[t].op = "destroy"
       THEN /\ Done(t)
            /\ life' = [life EXCEPT ![th[t].key] = [@ EXCEPT !.state = "dead", !.worker = WorkerOf[t]]]
       ELSE /\ th' = [th EXCEPT ![t] = [@ EXCEPT !.pc = AfterPrune(th[t].op), !.doomed = {}]]
            /\ UNCHANGED life
    /\ UNCHANGED <<store, cache>>

InitRemove(t) ==
    /\ th[t].pc = "remove" /\ th[t].op = "init"
    /\ LET c == Without(Bumped(C(t)), {th[t].key})
       IN  /\ SetCache(t, c)
           /\ th' = [th EXCEPT ![t] = [@ EXCEPT !.pc = "put_p", !.generation = c.generation,
                                                !.part = Whole(th[t].version)]]
    /\ UNCHANGED <<store, life>>

\* The batch or the schema does not decode.
InitInvalid(t) ==
    /\ th[t].pc = "put_p"
    /\ Done(t)
    /\ life' = [life EXCEPT ![th[t].key] = [@ EXCEPT !.state = "dead", !.worker = WorkerOf[t]]]
    /\ UNCHANGED <<store, cache>>

Mut_StoredMask(v) == 0

StoredMask(v) == IF v \in HasMask THEN v ELSE 0

\* kv_put of the batch, of the output schema, and kv_put or kv_del of the mask
InitPut(t) ==
    /\ \/ /\ th[t].pc = "put_p"
          /\ store' = [store EXCEPT ![th[t].key].p = th[t].version]
          /\ Goto(t, "put_o")
       \/ /\ th[t].pc = "put_o"
          /\ store' = [store EXCEPT ![th[t].key].o = th[t].version]
          /\ Goto(t, "put_m")
       \/ /\ th[t].pc = "put_m"
          /\ store' = [store EXCEPT ![th[t].key].m = StoredMask(th[t].version)]
          /\ Goto(t, "insert")
    /\ UNCHANGED <<cache, life>>

InitInsert(t) ==
    /\ th[t].pc = "insert" /\ th[t].op = "init"
    /\ ~(Addresses \subseteq Used)
    /\ SetCache(t, Inserted(C(t), th[t].key, th[t].part, th[t].generation))
    /\ Done(t)
    /\ life' = [life EXCEPT ![th[t].key].state = "live"]
    /\ UNCHANGED store

\* aggregate_window and aggregate_window_batch
Window(t, k) ==
    /\ th[t].pc = "ready"
    /\ life[k].state = "live"
    /\ th' = [th EXCEPT ![t] = [IdleHandler EXCEPT !.pc = "lookup", !.op = "window", !.key = k,
                                             !.version = life[k].version]]
    /\ UNCHANGED <<store, cache, life>>

\* load_window_partition: a hit is moved to the end of the order
Lookup(t) ==
    /\ th[t].pc = "lookup"
    /\ IF th[t].key \in DOMAIN C(t).entries
       THEN /\ SetCache(t, Touched(C(t), th[t].key))
            /\ th' = [th EXCEPT ![t] = [@ EXCEPT !.pc = "served",
                                                 !.part = C(t).entries[th[t].key].part]]
       ELSE /\ UNCHANGED cache
            /\ Goto(t, "snap")
    /\ UNCHANGED <<store, life>>

\* The second lookup is only for the generation, but it too counts as a use.
LookupAgain(t) ==
    /\ th[t].pc = "again"
    /\ IF th[t].key \in DOMAIN C(t).entries
       THEN SetCache(t, Touched(C(t), th[t].key)) ELSE UNCHANGED cache
    /\ th' = [th EXCEPT ![t] = [@ EXCEPT !.pc = "get_p", !.generation = C(t).generation]]
    /\ UNCHANGED <<store, life>>

\* A missing batch or output schema is an error.
LoadGet(t) ==
    LET s == store[th[t].key]
    IN  /\ \/ /\ th[t].pc = "get_p"
              /\ IF s.p = 0 THEN Done(t)
                 ELSE th' = [th EXCEPT ![t] = [@ EXCEPT !.pc = "get_o", !.part = [th[t].part EXCEPT !.p = s.p]]]
           \/ /\ th[t].pc = "get_o"
              /\ IF s.o = 0 THEN Done(t)
                 ELSE th' = [th EXCEPT ![t] = [@ EXCEPT !.pc = "get_m", !.part = [th[t].part EXCEPT !.o = s.o]]]
           \/ /\ th[t].pc = "get_m"
              /\ th' = [th EXCEPT ![t] = [@ EXCEPT !.pc = "insert", !.part = [th[t].part EXCEPT !.m = s.m]]]
        /\ UNCHANGED <<store, cache, life>>

LoadInsert(t) ==
    /\ th[t].pc = "insert" /\ th[t].op = "window"
    /\ ~(Addresses \subseteq Used)
    /\ SetCache(t, Inserted(C(t), th[t].key, th[t].part, th[t].generation))
    /\ Goto(t, "served")
    /\ UNCHANGED <<store, life>>

\* The frames are evaluated over the partition, and the call returns.
Return(t) ==
    /\ th[t].pc = "served"
    /\ Done(t)
    /\ UNCHANGED <<store, cache, life>>

\* aggregate_window_destructor
WindowDestroy(t, k) ==
    /\ th[t].pc = "ready"
    /\ life[k].state = "live"
    /\ life' = [life EXCEPT ![k].state = "ending"]
    /\ th' = [th EXCEPT ![t] = [IdleHandler EXCEPT !.pc = "del_p", !.op = "destroy", !.key = k]]
    /\ UNCHANGED <<store, cache>>

DestroyDel(t) ==
    /\ \/ /\ th[t].pc = "del_p"
          /\ store' = [store EXCEPT ![th[t].key].p = 0]
          /\ Goto(t, "del_o")
       \/ /\ th[t].pc = "del_o"
          /\ store' = [store EXCEPT ![th[t].key].o = 0]
          /\ Goto(t, "del_m")
       \/ /\ th[t].pc = "del_m"
          /\ store' = [store EXCEPT ![th[t].key].m = 0]
          /\ Goto(t, "remove")
    /\ UNCHANGED <<cache, life>>

DestroyRemove(t) ==
    /\ th[t].pc = "remove" /\ th[t].op = "destroy"
    /\ SetCache(t, Without(Bumped(C(t)), {th[t].key}))
    /\ Goto(t, "snap")
    /\ UNCHANGED <<store, life>>

\* The destructor runs on a pooled worker whose cache is not among Workers.
DestroyElsewhere(k) ==
    /\ life[k].state = "live"
    /\ life' = [life EXCEPT ![k].state = "elsewhere"]
    /\ UNCHANGED <<store, cache, th>>

ElsewhereDel(k) ==
    /\ life[k].state = "elsewhere"
    /\ store' = [store EXCEPT ![k] = IF @.p # 0 THEN [@ EXCEPT !.p = 0]
                                     ELSE IF @.o # 0 THEN [@ EXCEPT !.o = 0] ELSE Absent]
    /\ life' = IF store'[k] # Absent THEN life
               ELSE [life EXCEPT ![k] = [@ EXCEPT !.state = "dead", !.worker = "elsewhere"]]
    /\ UNCHANGED <<cache, th>>

\* aggregate_destructor: the execution ends
ExecKeys(k) == {j \in Partitions : ExecOf[j] = ExecOf[k]}

EndExecution(t, k) ==
    /\ th[t].pc = "ready"
    /\ \A j \in ExecKeys(k) : life[j].state \in {"new", "live", "dead"}
    /\ \E j \in ExecKeys(k) : life[j].state = "live"
    /\ life' = [j \in Partitions |-> IF j \in ExecKeys(k) THEN [life[j] EXCEPT !.state = "ending"]
                               ELSE life[j]]
    /\ store' = [j \in Partitions |-> IF j \in ExecKeys(k) THEN Absent ELSE store[j]]
    /\ th' = [th EXCEPT ![t] = [IdleHandler EXCEPT !.pc = "clear", !.op = "end", !.key = k]]
    /\ UNCHANGED cache

EndClear(t) ==
    /\ th[t].pc = "clear"
    /\ SetCache(t, Without(Bumped(C(t)), ExecKeys(th[t].key)))
    /\ life' = [j \in Partitions |-> IF j \in ExecKeys(th[t].key) THEN [life[j] EXCEPT !.state = "ended", !.worker = WorkerOf[t]]
                               ELSE life[j]]
    /\ Done(t)
    /\ UNCHANGED store

WindowsNext ==
    \/ \E k \in Partitions : DestroyElsewhere(k) \/ ElsewhereDel(k)
    \/ \E t \in Handlers :
        \/ \E k \in Partitions :
             WindowInit(t, k) \/ Window(t, k) \/ WindowDestroy(t, k) \/ EndExecution(t, k)
        \/ PruneStart(t) \/ PruneCheck(t) \/ PruneDrop(t) \/ PruneDone(t)
        \/ InitRemove(t) \/ InitInvalid(t) \/ InitPut(t) \/ InitInsert(t)
        \/ Lookup(t) \/ LookupAgain(t) \/ LoadGet(t) \/ LoadInsert(t) \/ Return(t)
        \/ DestroyDel(t) \/ DestroyRemove(t) \/ EndClear(t)

WindowsSpec == WindowsInit /\ [][WindowsNext]_windowVars

-----------------------------------------------------------------------------
(* Properties                                                              *)

\* A window call over a partition that stays alive gets all three parts of
\* the initialisation it was made for, from the cache or from storage.
ServesCurrent ==
    \A t \in Handlers :
        LET l == life[th[t].key]
        IN  th[t].pc = "served" /\ l.version = th[t].version /\ l.state = "live"
            => th[t].part = Whole(th[t].version)

\* A fill that was in flight when the partition was destroyed leaves no copy
\* in the worker that destroyed it.
DestroyedNotRetained ==
    \A k \in Partitions :
        life[k].state \in {"dead", "ended"} /\ life[k].worker \in Workers
            => k \notin DOMAIN cache[life[k].worker].entries

\* Pruning, which asks storage without the lock, never takes away the copy of
\* a partition that was initialised again in the meantime.
PruneSparesReplacement ==
    \A t \in Handlers :
        PruneDrop(t) => \A k \in DOMAIN C(t).entries :
            C(t).entries[k].part = Whole(life[k].version) /\ life[k].state = "live"
                => k \in DOMAIN cache'[WorkerOf[t]].entries

\* The budget holds, and the byte count that it is enforced by is that of the
\* entries.
WithinBudget ==
    \A w \in Workers :
        /\ cache[w].bytes = SumFunctionOnSet(SizeOf, DOMAIN cache[w].entries)
        /\ cache[w].bytes <= MaxBytes
        /\ Len(cache[w].order) <= MaxEntries

\* A copy whose partition another worker has destroyed does not outlive the
\* next prune, the one at the next admission or destruction.
Reclaimed ==
    \A t \in Handlers :
        PruneDone(t) => \A x \in th[t].doomed :
            life[x[1]].state \in {"dead", "ended"} /\ life[x[1]].version = x[3]
                => ~(x[1] \in DOMAIN C(t).entries /\ C(t).entries[x[1]].id = x[2])

\* A window call is served the partition it was made for, and a destroyed
\* partition leaves no copy in the worker that destroyed it.
WindowSound == ServesCurrent /\ DestroyedNotRetained

\* Pruning takes what is dead and nothing else.
PrunesJustified == [][PruneSparesReplacement /\ Reclaimed]_windowVars
=============================================================================
