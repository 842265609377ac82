------------------------ MODULE WindowCacheInvariant ------------------------
(***************************************************************************)
(* WindowSound and PrunesJustified for any number of workers, handlers and *)
(* partitions, any budget and any mix of versions, provided that an id is  *)
(* used once or by one worker (ReuseStaysHome).                            *)
(*                                                                         *)
(* A partition that is being initialised, destroyed or ended has one       *)
(* handler that does it (Owned), and what storage holds of the partition   *)
(* follows from its state and from how far that handler is (Stored,        *)
(* Programs).  A load that began before the copies were removed carries an *)
(* older generation, one that begins later finds no batch in storage       *)
(* (Cleared).  A handler that prunes may find the copy it meant to drop    *)
(* again only where the partition has not come back to life (Prunes).     *)
(***************************************************************************)
EXTENDS WindowCache, TLAPS

CacheFields == {"entries", "order", "bytes", "generation"}

CacheOK(c) ==
    /\ DOMAIN c = CacheFields
    /\ c.generation \in Nat
    /\ DOMAIN c.entries \subseteq Partitions
    /\ \A k \in DOMAIN c.entries : c.entries[k] \in Entry

Shape ==
    /\ store \in [Partitions -> Parts]
    /\ th \in [Handlers -> Handler]
    /\ life \in [Partitions -> Life]
    /\ DOMAIN cache = Workers
    /\ \A w \in Workers : CacheOK(cache[w])

(* Where a handler of each kind can be.                                    *)
Places ==
    [none |-> {"ready"},
     init |-> {"snap", "prune", "dead", "remove", "put_p", "put_o", "put_m", "insert"},
     window |-> {"lookup", "snap", "prune", "dead", "again", "get_p", "get_o", "get_m", "insert", "served"},
     destroy |-> {"del_p", "del_o", "del_m", "remove", "snap", "prune", "dead"},
     end |-> {"clear"}]

Pruning == {"snap", "prune", "dead"}

(* The partitions that a handler has in hand.                              *)
Own(r) ==
    IF r.op \in {"init", "destroy"} THEN {r.key}
    ELSE IF r.op = "end" THEN ExecKeys(r.key) ELSE {}

OwnOK(t) ==
    \A k \in Own(th[t]) : life[k].state = IF th[t].op = "init" THEN "init" ELSE "ending"

Owned ==
    /\ \A t \in Handlers : OwnOK(t)
    /\ \A t, u \in Handlers : t # u => Own(th[t]) \cap Own(th[u]) = {}

(* What storage holds of a partition that no handler has in hand.          *)
StoredOK(k) ==
    /\ life[k].state = "new" => life[k].version = 0
    /\ life[k].state \in {"init", "live", "elsewhere", "dead"} => life[k].version >= 1
    /\ life[k].version <= Inits[k]
    /\ life[k].state \in {"new", "dead", "ended"} => store[k] = Absent
    /\ life[k].state = "live" => store[k] = Whole(life[k].version)

Stored == \A k \in Partitions : StoredOK(k)

InitOK(r) ==
    LET v == r.version
        s == store[r.key]
    IN  /\ v = life[r.key].version
        /\ r.pc \in Pruning \cup {"remove", "put_p"} => s = Absent
        /\ r.pc = "put_o" => s = [p |-> v, o |-> 0, m |-> 0]
        /\ r.pc = "put_m" => s = [p |-> v, o |-> v, m |-> 0]
        /\ r.pc = "insert" => s = Whole(v)
        /\ r.pc \in {"put_p", "put_o", "put_m", "insert"} => r.part = Whole(v)

WindowOK(r) ==
    LET v == r.version
    IN  /\ v = life[r.key].version
        /\ life[r.key].state \notin {"new", "init"}
        /\ life[r.key].state = "live" =>
             /\ r.pc \in {"get_o", "get_m"} => r.part.p = v
             /\ r.pc = "get_m" => r.part.o = v
             /\ r.pc \in {"insert", "served"} => r.part = Whole(v)

DestroyOK(r) ==
    LET s == store[r.key]
    IN  /\ life[r.key].version >= 1
        /\ r.pc = "del_o" => s.p = 0
        /\ r.pc = "del_m" => s.p = 0 /\ s.o = 0
        /\ r.pc \in Pruning \cup {"remove"} => s = Absent

EndOK(r) == \A k \in ExecKeys(r.key) : store[k] = Absent

Program(t) ==
    /\ th[t].pc \in Places[th[t].op]
    /\ th[t].op = "init" => InitOK(th[t])
    /\ th[t].op = "window" => WindowOK(th[t])
    /\ th[t].op = "destroy" => DestroyOK(th[t])
    /\ th[t].op = "end" => EndOK(th[t])

Programs == \A t \in Handlers : Program(t)

Cached(w) == DOMAIN cache[w].entries

(* A partition that is initialised for the first time is cached nowhere,   *)
(* and one that is initialised is not cached by its worker.                *)
Young(k) == life[k].state = "new" \/ (life[k].state = "init" /\ life[k].version = 1)

Initialised(t) ==
    th[t].op = "init" /\ th[t].pc \in {"put_p", "put_o", "put_m", "insert"}
        => th[t].key \notin Cached(WorkerOf[t])

Fresh ==
    /\ \A k \in Partitions : Young(k) => \A w \in Workers : k \notin Cached(w)
    /\ \A t \in Handlers : Initialised(t)

Copies ==
    \A t \in Handlers : \A k \in Cached(WorkerOf[t]) :
        life[k].state = "live" => C(t).entries[k].part = Whole(life[k].version)

Loading(r, k) == r.op = "window" /\ r.key = k /\ r.pc \in {"get_o", "get_m", "insert"}

Cleared(k, w) ==
    /\ k \notin Cached(w)
    /\ \A u \in Handlers :
         WorkerOf[u] = w /\ Loading(th[u], k) => th[u].generation < cache[w].generation

Destroyed(t) ==
    th[t].op = "destroy" /\ th[t].pc \in Pruning => Cleared(th[t].key, WorkerOf[t])

Gone(k) == life[k].state \in {"dead", "ended"} /\ life[k].worker \in Workers

Timely(t) ==
    th[t].op = "window" /\ th[t].pc \in {"get_p", "get_o", "get_m", "insert"}
        => th[t].generation <= C(t).generation

Clearing ==
    /\ \A t \in Handlers : Destroyed(t)
    /\ \A k \in Partitions : Gone(k) => Cleared(k, life[k].worker)
    /\ \A t \in Handlers : Timely(t)

Victim(t) ==
    th[t].pc = "dead" /\ SameEntry(C(t), th[t].victim) => life[th[t].victim[1]].state # "live"

Over(k) == life[k].state \in {"dead", "ending", "ended"} /\ store[k] = Absent

Doom(t, x) ==
    /\ th[t].pc \in {"prune", "dead"}
    /\ x[3] <= life[x[1]].version
    /\ x[3] = life[x[1]].version =>
         /\ Over(x[1])
         /\ \/ <<x[1], x[2]>> \in th[t].snap
            \/ th[t].pc = "dead" /\ th[t].victim = <<x[1], x[2]>>
            \/ ~SameEntry(C(t), x)

Prune(t) == Victim(t) /\ \A x \in th[t].doomed : Doom(t, x)

Prunes == \A t \in Handlers : Prune(t)

IInv == ReuseStaysHome /\ Shape /\ Owned /\ Stored /\ Programs /\ Fresh /\ Copies /\ Clearing /\ Prunes

-----------------------------------------------------------------------------
(* The operations of the cache.                                            *)

LEMMA WithoutKeeps ==
    ASSUME NEW c, CacheOK(c), NEW D
    PROVE  /\ CacheOK(Without(c, D))
           /\ Without(c, D).generation = c.generation
           /\ DOMAIN Without(c, D).entries = DOMAIN c.entries \ D
           /\ \A k \in DOMAIN c.entries \ D : Without(c, D).entries[k] = c.entries[k]
BY DEF CacheOK, CacheFields, Without, Restrict

LEMMA BumpedKeeps ==
    ASSUME NEW c, CacheOK(c)
    PROVE  /\ CacheOK(Bumped(c))
           /\ Bumped(c).generation = c.generation + 1
           /\ Bumped(c).entries = c.entries
BY DEF CacheOK, CacheFields, Bumped

LEMMA TouchedKeeps ==
    ASSUME NEW c, CacheOK(c), NEW k
    PROVE  /\ CacheOK(Touched(c, k))
           /\ Touched(c, k).generation = c.generation
           /\ Touched(c, k).entries = c.entries
BY DEF CacheOK, CacheFields, Touched

(* What insert_if_current leaves: the cache as it was, or the new entry    *)
(* and some of the others.                                                 *)
Admits(c, d, k, part, g) ==
    /\ g = c.generation
    /\ k \in DOMAIN d.entries /\ d.entries[k] = [part |-> part, id |-> FreshId]
    /\ \A j \in DOMAIN d.entries \ {k} : j \in DOMAIN c.entries /\ d.entries[j] = c.entries[j]

LEMMA InsertedKeeps ==
    ASSUME NEW c, CacheOK(c), NEW k \in Partitions, NEW part \in Parts, NEW g, FreshId \in Addresses
    PROVE  /\ CacheOK(Inserted(c, k, part, g))
           /\ Inserted(c, k, part, g).generation = c.generation
           /\ Inserted(c, k, part, g) = c \/ Admits(c, Inserted(c, k, part, g), k, part, g)
<1> DEFINE d == Without(c, {k})
           E == Evicted(d, SizeOf[k])
           e == Without(d, E)
           new == [j \in DOMAIN e.entries \cup {k} |->
                     IF j = k THEN [part |-> part, id |-> FreshId] ELSE e.entries[j]]
           f == [e EXCEPT !.entries = new, !.order = Append(@, k), !.bytes = @ + SizeOf[k]]
<1>1. CacheOK(d) /\ d.generation = c.generation /\ DOMAIN d.entries = DOMAIN c.entries \ {k}
      /\ \A j \in DOMAIN d.entries : d.entries[j] = c.entries[j]
  BY WithoutKeeps
<1> HIDE DEF d
<1>2. CacheOK(e) /\ e.generation = d.generation /\ DOMAIN e.entries = DOMAIN d.entries \ E
      /\ \A j \in DOMAIN e.entries : e.entries[j] = d.entries[j]
  BY <1>1, WithoutKeeps
<1> HIDE DEF E, e
<1>3. [part |-> part, id |-> FreshId] \in Entry
  BY DEF Entry
<1>4. DOMAIN f = CacheFields /\ f.generation = e.generation /\ f.entries = new
  BY <1>2 DEF CacheOK, CacheFields
<1>5. DOMAIN new \subseteq Partitions /\ \A j \in DOMAIN new : new[j] \in Entry
  BY <1>2, <1>3, Zenon DEF CacheOK
<1>6. CacheOK(f)
  BY <1>2, <1>4, <1>5, Zenon DEF CacheOK
<1>7. \A j \in DOMAIN new \ {k} : j \in DOMAIN c.entries /\ new[j] = c.entries[j]
  BY <1>1, <1>2, Zenon
<1>8. CASE Current(c, g) /\ Inserted(c, k, part, g) = f
  BY <1>1, <1>2, <1>4, <1>6, <1>7, <1>8 DEF Admits, Current
<1>9. CASE Inserted(c, k, part, g) = c
  BY <1>9
<1> QED
  BY <1>8, <1>9, Zenon DEF Inserted, Displaced, d, e, E

(* The step removes copies, or none; or it adds one at an unused address.  *)
Cold ==
    /\ DOMAIN cache' = Workers
    /\ \A w \in Workers :
         /\ CacheOK(cache'[w])
         /\ cache[w].generation <= cache'[w].generation
         /\ \A k \in DOMAIN cache'[w].entries :
              k \in DOMAIN cache[w].entries /\ cache'[w].entries[k] = cache[w].entries[k]

Keeps ==
    /\ DOMAIN cache' = Workers
    /\ \A w \in Workers :
         /\ CacheOK(cache'[w])
         /\ cache[w].generation <= cache'[w].generation
         /\ \A k \in DOMAIN cache'[w].entries :
              \/ k \in DOMAIN cache[w].entries /\ cache'[w].entries[k] = cache[w].entries[k]
              \/ cache'[w].entries[k].id \notin Used

LEMMA ColdKeeps == Cold => Keeps
BY Zenon DEF Cold, Keeps

LEMMA UnchangedCold ==
    ASSUME Shape, UNCHANGED cache PROVE Cold
BY DEF Shape, Cold, CacheOK

LEMMA RemovesCold ==
    ASSUME Shape, NEW t \in Handlers, NEW D, SetCache(t, Without(Bumped(C(t)), D))
    PROVE  /\ Cold
           /\ C(t)'.generation = C(t).generation + 1
           /\ Cached(WorkerOf[t])' = Cached(WorkerOf[t]) \ D
           /\ \A w \in Workers : w # WorkerOf[t] => cache'[w] = cache[w]
<1> DEFINE d == Without(Bumped(C(t)), D)
<1>1. WorkerOf[t] \in Workers /\ CacheOK(C(t))
  BY WindowAssumption DEF Shape, C
<1>2. /\ CacheOK(d) /\ d.generation = C(t).generation + 1
      /\ DOMAIN d.entries = DOMAIN C(t).entries \ D
      /\ \A k \in DOMAIN d.entries : d.entries[k] = C(t).entries[k]
  BY <1>1, BumpedKeeps, WithoutKeeps
<1>3. cache' = [cache EXCEPT ![WorkerOf[t]] = d]
  BY DEF SetCache
<1> HIDE DEF d
<1> QED
  BY <1>1, <1>2, <1>3 DEF Shape, Cold, CacheOK, C, Cached

LEMMA TouchesCold ==
    ASSUME Shape, NEW t \in Handlers, NEW k, SetCache(t, Touched(C(t), k)) PROVE Cold
<1> DEFINE d == Touched(C(t), k)
<1>1. WorkerOf[t] \in Workers /\ CacheOK(C(t))
  BY WindowAssumption DEF Shape, C
<1>2. CacheOK(d) /\ d.generation = C(t).generation /\ d.entries = C(t).entries
  BY <1>1, TouchedKeeps
<1>3. cache' = [cache EXCEPT ![WorkerOf[t]] = d]
  BY DEF SetCache
<1> HIDE DEF d
<1> QED
  BY <1>1, <1>2, <1>3 DEF Shape, Cold, CacheOK, C

LEMMA FreshIdUnused ==
    ASSUME ~(Addresses \subseteq Used) PROVE FreshId \in Addresses /\ FreshId \notin Used
BY DEF FreshId

LEMMA InsertsKeep ==
    ASSUME Shape, NEW t \in Handlers, ~(Addresses \subseteq Used),
           SetCache(t, Inserted(C(t), th[t].key, th[t].part, th[t].generation))
    PROVE  /\ Keeps
           /\ \A w \in Workers : cache'[w].generation = cache[w].generation
           /\ \A w \in Workers : w # WorkerOf[t] => cache'[w] = cache[w]
           /\ \/ \A w \in Workers : cache'[w] = cache[w]
              \/ Admits(C(t), cache'[WorkerOf[t]], th[t].key, th[t].part, th[t].generation)
<1> DEFINE d == Inserted(C(t), th[t].key, th[t].part, th[t].generation)
<1>1. WorkerOf[t] \in Workers /\ CacheOK(C(t))
  BY WindowAssumption DEF Shape, C
<1>2. th[t].key \in Partitions /\ th[t].part \in Parts
  BY DEF Shape, Handler
<1>3. /\ CacheOK(d) /\ d.generation = C(t).generation
      /\ d = C(t) \/ Admits(C(t), d, th[t].key, th[t].part, th[t].generation)
  BY <1>1, <1>2, FreshIdUnused, InsertedKeeps
<1>4. cache' = [cache EXCEPT ![WorkerOf[t]] = d]
  BY DEF SetCache
<1> HIDE DEF d
<1>5. \A k \in DOMAIN d.entries :
         \/ k \in DOMAIN C(t).entries /\ d.entries[k] = C(t).entries[k]
         \/ d.entries[k].id \notin Used
  BY <1>3, FreshIdUnused DEF Admits
<1>6. cache'[WorkerOf[t]] = d /\ \A w \in Workers : w # WorkerOf[t] => cache'[w] = cache[w]
  BY <1>1, <1>4 DEF Shape
<1>7. Keeps
  BY <1>1, <1>3, <1>4, <1>5, <1>6 DEF Shape, Keeps, CacheOK, C
<1>8. d = C(t) => \A w \in Workers : cache'[w] = cache[w]
  BY <1>6 DEF C
<1>9. \A w \in Workers : cache'[w].generation = cache[w].generation
  BY <1>3, <1>6, Zenon DEF C
<1> QED
  BY <1>3, <1>6, <1>7, <1>8, <1>9, Zenon

-----------------------------------------------------------------------------
(* Types.                                                                  *)

LEMMA IdleHandlerOK == IdleHandler \in Handler
<1>1. NoKey \in Partitions
  BY WindowAssumption DEF NoKey
<1>2. Absent \in Parts
  BY DEF Absent, Parts
<1> QED
  BY <1>1, <1>2 DEF IdleHandler, Handler

LEMMA WholeOK == \A v \in Nat : Whole(v) \in Parts
BY DEF Whole, Parts

(* The steps that touch only the handler t.                                *)
Typed(t) == \E r \in Handler : th' = [th EXCEPT ![t] = r]

LEMMA TypedHandlers ==
    ASSUME Shape, NEW t \in Handlers, Typed(t) PROVE th' \in [Handlers -> Handler]
BY DEF Shape, Typed

LEMMA PruneTyped ==
    ASSUME Shape, NEW t \in Handlers, PruneStart(t) \/ PruneCheck(t) \/ PruneDrop(t) \/ PruneDone(t)
    PROVE  Typed(t)
<1>1. th[t] \in Handler /\ WorkerOf[t] \in Workers /\ CacheOK(C(t))
  BY WindowAssumption DEF Shape, C
<1>2. CASE PruneStart(t)
  <2>1. Snapshot(t) \in SUBSET (Partitions \X Addresses)
    BY <1>1 DEF Snapshot, CacheOK, Entry
  <2>2. \A x \in Partitions \X Addresses : life[x[1]].version \in Nat
    BY DEF Shape, Life
  <2> DEFINE D == {<<x[1], x[2], life[x[1]].version>> : x \in {y \in Snapshot(t) : life[y[1]].state \in {"dead", "ended"}}}
  <2>3. D \in SUBSET (Partitions \X Addresses \X Nat)
    BY <2>1, <2>2
  <2> DEFINE r == [th[t] EXCEPT !.pc = "prune", !.snap = Snapshot(t), !.doomed = D]
  <2>4. th' = [th EXCEPT ![t] = r]
    BY <1>2, Zenon DEF PruneStart
  <2> HIDE DEF D
  <2>5. r \in Handler
    BY <1>1, <2>1, <2>3, Zenon DEF Handler
  <2> QED
    BY <2>4, <2>5, Zenon DEF Typed
<1>3. CASE PruneCheck(t)
  <2>1. PICK x \in th[t].snap :
          th' = [th EXCEPT ![t] = IF Alive(x[1]) THEN [th[t] EXCEPT !.snap = th[t].snap \ {x}]
                                  ELSE [th[t] EXCEPT !.pc = "dead", !.snap = th[t].snap \ {x}, !.victim = x]]
    BY <1>3, Zenon DEF PruneCheck
  <2>2. x \in Partitions \X (Addresses \cup {0})
    BY <1>1 DEF Handler
  <2> QED
    BY <1>1, <2>1, <2>2, Zenon DEF Typed, Handler
<1>4. CASE PruneDrop(t)
  BY <1>1, <1>4, IdleHandlerOK, Zenon DEF PruneDrop, Typed, Handler
<1>5. CASE PruneDone(t)
  <2>1. CASE Done(t)
    BY <2>1, IdleHandlerOK, Zenon DEF Done, Typed
  <2>2. CASE th' = [th EXCEPT ![t] = [th[t] EXCEPT !.pc = AfterPrune(th[t].op), !.doomed = {}]]
    <3> DEFINE r(pc) == [th[t] EXCEPT !.pc = pc, !.doomed = {}]
    <3>1. r("remove") \in Handler /\ r("again") \in Handler
      BY <1>1, Zenon DEF Handler
    <3> HIDE DEF r
    <3>2. th' = [th EXCEPT ![t] = r("remove")] \/ th' = [th EXCEPT ![t] = r("again")]
      BY <2>2, Zenon DEF AfterPrune, r
    <3> QED
      BY <3>1, <3>2, Zenon DEF Typed
  <2> QED
    BY <1>5, <2>1, <2>2, Zenon DEF PruneDone
<1> QED
  BY <1>2, <1>3, <1>4, <1>5

LEMMA CallTyped ==
    ASSUME Shape, NEW t \in Handlers, NEW k \in Partitions,
           WindowInit(t, k) \/ Window(t, k) \/ WindowDestroy(t, k) \/ EndExecution(t, k)
    PROVE  Typed(t)
<1> DEFINE r(pc, op, v) == [IdleHandler EXCEPT !.pc = pc, !.op = op, !.key = k, !.version = v]
<1>1. life[k].version \in Nat /\ life[k].version + 1 \in Nat
  BY DEF Shape, Life
<1>2. /\ r("snap", "init", life[k].version + 1) \in Handler /\ r("lookup", "window", life[k].version) \in Handler
      /\ [IdleHandler EXCEPT !.pc = "del_p", !.op = "destroy", !.key = k] \in Handler
      /\ [IdleHandler EXCEPT !.pc = "clear", !.op = "end", !.key = k] \in Handler
  BY <1>1, IdleHandlerOK, Zenon DEF Handler
<1> QED
  BY <1>2, Zenon DEF WindowInit, Window, WindowDestroy, EndExecution, Typed

LEMMA WorkTyped ==
    ASSUME Shape, NEW t \in Handlers,
           InitRemove(t) \/ InitInvalid(t) \/ InitPut(t) \/ InitInsert(t) \/ Lookup(t) \/ LookupAgain(t)
           \/ LoadGet(t) \/ LoadInsert(t) \/ Return(t) \/ DestroyDel(t) \/ DestroyRemove(t) \/ EndClear(t)
    PROVE  Typed(t)
<1>1. th[t] \in Handler /\ WorkerOf[t] \in Workers /\ CacheOK(C(t))
  BY WindowAssumption, Zenon DEF Shape, C
<1>2. \A pc \in {"put_o", "put_m", "insert", "snap", "served", "del_o", "del_m", "remove"} :
         Goto(t, pc) => Typed(t)
  <2> SUFFICES ASSUME NEW pc \in {"put_o", "put_m", "insert", "snap", "served", "del_o", "del_m", "remove"},
                      Goto(t, pc)
               PROVE  Typed(t)
    OBVIOUS
  <2> DEFINE r == [th[t] EXCEPT !.pc = pc]
  <2>1. th' = [th EXCEPT ![t] = r]
    BY DEF Goto
  <2>2. r \in Handler
    BY <1>1 DEF Handler
  <2> HIDE DEF r
  <2> QED
    BY <2>1, <2>2, Zenon DEF Typed
<1>3. Done(t) => Typed(t)
  BY IdleHandlerOK, Zenon DEF Done, Typed
<1>4. CASE InitRemove(t)
  <2> DEFINE g == Without(Bumped(C(t)), {th[t].key}).generation
  <2>1. g \in Nat /\ Whole(th[t].version) \in Parts
    BY <1>1, BumpedKeeps, WithoutKeeps, WholeOK DEF CacheOK, Handler
  <2>2. th' = [th EXCEPT ![t] = [th[t] EXCEPT !.pc = "put_p", !.generation = g, !.part = Whole(th[t].version)]]
    BY <1>4, Zenon DEF InitRemove
  <2> HIDE DEF g
  <2> QED
    BY <1>1, <2>1, <2>2, Zenon DEF Typed, Handler
<1>5. CASE Lookup(t)
  BY <1>1, <1>2, <1>5, Zenon DEF Lookup, Typed, Handler, CacheOK, Entry
<1>6. CASE LookupAgain(t)
  BY <1>1, <1>6, Zenon DEF LookupAgain, Typed, Handler, CacheOK
<1>7. CASE LoadGet(t)
  <2>1. store[th[t].key] \in Parts
    BY <1>1, Zenon DEF Shape, Handler
  <2> DEFINE s == store[th[t].key]
             r(pc, part) == [th[t] EXCEPT !.pc = pc, !.part = part]
             got == {[th[t].part EXCEPT !.p = s.p], [th[t].part EXCEPT !.o = s.o], [th[t].part EXCEPT !.m = s.m]}
  <2>2. th[t].part \in Parts
    BY <1>1 DEF Handler
  <2>3. got \subseteq Parts
    BY <2>1, <2>2 DEF Parts
  <2>4. Done(t) \/ \E pc \in {"get_o", "get_m", "insert"}, part \in got : th' = [th EXCEPT ![t] = r(pc, part)]
    BY <1>7, Zenon DEF LoadGet
  <2> HIDE DEF got
  <2>5. \A pc \in {"get_o", "get_m", "insert"}, part \in Parts : r(pc, part) \in Handler
    BY <1>1, Zenon DEF Handler
  <2> HIDE DEF r
  <2> QED
    BY <1>3, <2>3, <2>4, <2>5, Zenon DEF Typed
<1>8. CASE InitInvalid(t) \/ InitInsert(t) \/ Return(t) \/ EndClear(t)
  BY <1>3, <1>8, Zenon DEF InitInvalid, InitInsert, Return, EndClear
<1>9. CASE InitPut(t) \/ DestroyDel(t)
  <2>1. \E pc \in {"put_o", "put_m", "insert", "del_o", "del_m", "remove"} : Goto(t, pc)
    BY <1>9, Zenon DEF InitPut, DestroyDel
  <2> QED
    BY <1>2, <2>1
<1>10. CASE LoadInsert(t) \/ DestroyRemove(t)
  <2>1. Goto(t, "served") \/ Goto(t, "snap")
    BY <1>10, Zenon DEF LoadInsert, DestroyRemove
  <2> QED
    BY <1>2, <2>1
<1> QED
  BY <1>4, <1>5, <1>6, <1>7, <1>8, <1>9, <1>10, Zenon

-----------------------------------------------------------------------------
(* What the handlers that do not move know, and what is in storage.        *)

Only(t) == \A u \in Handlers : u # t => th'[u] = th[u]

LEMMA TypedOnly ==
    ASSUME Shape, NEW t \in Handlers, Typed(t) PROVE Only(t)
BY DEF Shape, Typed, Only

LEMMA OwnPartitions ==
    ASSUME Shape, NEW t \in Handlers PROVE Own(th[t]) \subseteq Partitions /\ th[t].key \in Partitions
BY DEF Shape, Own, Handler, ExecKeys

(* A step that changes the life and the parts of the partitions K only.    *)
Touches(K) ==
    \A k \in Partitions \ K : life'[k] = life[k] /\ store'[k] = store[k]

(* K is in the hands of no handler but t, and a partition of K that one is *)
(* called for stays what it was, or stops being alive.                     *)
Free(t, K) ==
    \A u \in Handlers : u # t =>
        /\ Own(th[u]) \cap K = {}
        /\ th[u].op = "window" /\ th[u].key \in K =>
             /\ life'[th[u].key].version = life[th[u].key].version
             /\ life'[th[u].key].state \notin {"new", "init"}
             /\ life'[th[u].key].state = "live" => life[th[u].key].state = "live"

LEMMA OthersKeep ==
    ASSUME Shape, Owned, Programs, NEW t, Only(t), NEW K, Touches(K), Free(t, K),
           NEW u \in Handlers, u # t
    PROVE  OwnOK(u)' /\ Program(u)'
<1>1. th'[u] = th[u] /\ Own(th[u]) \cap K = {} /\ OwnOK(u) /\ Program(u)
  BY Zenon DEF Only, Free, Owned, Programs
<1>2. \A k \in Own(th[u]) : life'[k] = life[k] /\ store'[k] = store[k]
  BY <1>1, OwnPartitions, Zenon DEF Touches
<1>3. OwnOK(u)'
  BY <1>1, <1>2 DEF OwnOK, Own, ExecKeys
<1>4. CASE th[u].op \in {"init", "destroy"}
  BY <1>1, <1>2, <1>3, <1>4 DEF Program, Own, InitOK, DestroyOK
<1>5. CASE th[u].op = "end"
  BY <1>1, <1>2, <1>3, <1>5, Zenon DEF Program, Own, EndOK, ExecKeys
<1>6. CASE th[u].op = "window"
  <2>1. /\ life'[th[u].key].version = life[th[u].key].version
        /\ life'[th[u].key].state \notin {"new", "init"}
        /\ life'[th[u].key].state = "live" => life[th[u].key].state = "live"
    BY <1>1, <1>6, OwnPartitions, Zenon DEF Free, Touches, Program, WindowOK
  <2> QED
    BY <1>1, <1>3, <1>6, <2>1, Zenon DEF Program, WindowOK
<1>7. CASE th[u].op = "none"
  BY <1>1, <1>3, <1>7, Zenon DEF Program
<1> QED
  BY <1>3, <1>4, <1>5, <1>6, <1>7, Zenon DEF Shape, Handler

LEMMA MoveKeeps ==
    ASSUME Shape, Owned, Stored, Programs, NEW t, Only(t),
           NEW K, Touches(K), Free(t, K), \A k \in K : StoredOK(k)',
           t \in Handlers =>
             /\ \A u \in Handlers : u # t => Own(th'[t]) \cap Own(th[u]) = {}
             /\ OwnOK(t)' /\ Program(t)'
    PROVE  Owned' /\ Stored' /\ Programs'
<1>1. \A u \in Handlers : OwnOK(u)' /\ Program(u)'
  BY OthersKeep
<1>2. \A u, v \in Handlers : u # v => Own(th'[u]) \cap Own(th'[v]) = {}
  <2> SUFFICES ASSUME NEW u \in Handlers, NEW v \in Handlers, u # v
               PROVE  Own(th'[u]) \cap Own(th'[v]) = {}
    OBVIOUS
  <2>1. CASE u # t /\ v # t
    BY <2>1, Zenon DEF Only, Owned
  <2>2. CASE u = t
    BY <2>2, Zenon DEF Only
  <2>3. CASE v = t
    <3>1. Own(th'[t]) \cap Own(th[u]) = {} /\ th'[u] = th[u]
      BY <2>3, Zenon DEF Only
    <3> QED
      BY <2>3, <3>1, Zenon
  <2> QED
    BY <2>1, <2>2, <2>3, Zenon
<1>3. \A k \in Partitions : StoredOK(k)'
  BY DEF Stored, StoredOK, Touches
<1>4. Owned'
  <2>1. \A u, v \in Handlers : u # v => (Own(th[u]) \cap Own(th[v]))' = {}
    BY <1>2, Zenon DEF Own, ExecKeys
  <2> QED
    BY <1>1, <2>1, Zenon DEF Owned
<1> QED
  BY <1>1, <1>3, <1>4, Zenon DEF Stored, Programs

-----------------------------------------------------------------------------
(* What the caches hold, after a step that adds no copy.                   *)

(* A handler comes to load only what storage holds.                        *)
Loads(t) ==
    \A k \in Partitions : Loading(th'[t], k) =>
        \/ Loading(th[t], k) /\ th'[t].generation = th[t].generation
        \/ store[k] # Absent

LEMMA ClearedStays ==
    ASSUME Shape, NEW t, Only(t), Cold, t \in Handlers => Loads(t),
           NEW k \in Partitions, NEW w \in Workers, Cleared(k, w), store[k] = Absent
    PROVE  Cleared(k, w)'
<1>1. k \notin DOMAIN cache'[w].entries
  BY Zenon DEF Cold, Cleared, Cached
<1>2. ASSUME NEW u \in Handlers, WorkerOf[u] = w, Loading(th'[u], k)
      PROVE  th'[u].generation < cache'[w].generation
  <2>1. Loading(th[u], k) /\ th'[u].generation = th[u].generation
    BY <1>2 DEF Only, Loads
  <2>2. th[u].generation < cache[w].generation /\ th[u].generation \in Nat
    BY <1>2, <2>1, Zenon DEF Cleared, Shape, Handler
  <2> QED
    BY <2>1, <2>2 DEF Cold, Shape, CacheOK
<1> QED
  BY <1>1, <1>2, Zenon DEF Cleared, Cached, Loading

LEMMA ColdFrame ==
    ASSUME IInv, NEW t, Only(t), Cold,
           \A k \in Partitions : Young(k)' => Young(k),
           \A k \in Partitions : life'[k].state = "live" => life'[k] = life[k],
           \A k \in Partitions : Gone(k)' =>
               (Gone(k) /\ life'[k].worker = life[k].worker) \/ Cleared(k, life[k].worker)',
           t \in Handlers => Loads(t) /\ Initialised(t)' /\ Destroyed(t)' /\ Timely(t)'
    PROVE  Fresh' /\ Copies' /\ Clearing'
<1>1. Shape /\ Stored /\ Programs /\ Fresh /\ Copies /\ Clearing
  BY DEF IInv
<1>2. \A u \in Handlers : WorkerOf[u] \in Workers /\ (u # t => th'[u] = th[u])
  BY WindowAssumption, Zenon DEF Only
<1>3. \A w \in Workers : \A k \in Cached(w)' : k \in Cached(w) /\ cache'[w].entries[k] = cache[w].entries[k]
  BY Zenon DEF Cold, Cached
<1>4. Fresh'
  <2>1. \A u \in Handlers : Initialised(u)'
    BY <1>1, <1>2, <1>3 DEF Fresh, Initialised
  <2>2. \A k \in Partitions : Young(k)' => \A w \in Workers : k \notin Cached(w)'
    BY <1>1, <1>3, Zenon DEF Fresh
  <2> QED
    BY <2>1, <2>2, Zenon DEF Fresh
<1>5. Copies'
  <2> SUFFICES ASSUME NEW u \in Handlers, NEW k \in Cached(WorkerOf[u])', life'[k].state = "live"
               PROVE  C(u)'.entries[k].part = Whole(life'[k].version)
    BY Zenon DEF Copies
  <2>1. k \in Cached(WorkerOf[u]) /\ C(u)'.entries[k] = C(u).entries[k]
    BY <1>2, <1>3, Zenon DEF C
  <2>2. k \in Partitions
    BY <1>1, <1>2, <2>1, Zenon DEF Shape, CacheOK, Cached
  <2> QED
    BY <1>1, <2>1, <2>2 DEF Copies
<1>6. Clearing'
  <2>1. ASSUME NEW u \in Handlers PROVE Destroyed(u)'
    <3>1. CASE u # t /\ th[u].op = "destroy" /\ th[u].pc \in Pruning
      <4>1. Cleared(th[u].key, WorkerOf[u]) /\ store[th[u].key] = Absent /\ th[u].key \in Partitions
        BY <1>1, <3>1, OwnPartitions, Zenon DEF Clearing, Destroyed, Programs, Program, DestroyOK
      <4>2. Cleared(th[u].key, WorkerOf[u])'
        <5>1. \A k \in Partitions : Cleared(k, WorkerOf[u]) /\ store[k] = Absent => Cleared(k, WorkerOf[u])'
          BY <1>1, <1>2, ClearedStays, Zenon
        <5> QED
          BY <1>2, <3>1, <4>1, <5>1 DEF Cleared, Cached, Loading
      <4> QED
        BY <1>2, <3>1, <4>2, Zenon DEF Destroyed, Cleared, Cached, Loading
    <3> QED
      BY <1>2, <3>1, Zenon DEF Destroyed
  <2>2. ASSUME NEW k \in Partitions, Gone(k)' PROVE Cleared(k, life[k].worker)'
    <3>1. CASE Gone(k) /\ life'[k].worker = life[k].worker
      <4>1. Cleared(k, life[k].worker) /\ store[k] = Absent /\ life[k].worker \in Workers
        BY <1>1, <3>1, Zenon DEF Clearing, Gone, Stored, StoredOK
      <4>2. \A w \in Workers : Cleared(k, w) => Cleared(k, w)'
        BY <1>1, <4>1, ClearedStays, Zenon
      <4> QED
        BY <3>1, <4>1, <4>2 DEF Cleared, Cached, Loading
    <3> QED
      BY <2>2, <3>1, Zenon
  <2>3. ASSUME NEW u \in Handlers PROVE Timely(u)'
    <3>1. CASE u # t
      <4>1. th'[u] = th[u] /\ Timely(u) /\ th[u].generation \in Nat
        BY <1>1, <1>2, <3>1, Zenon DEF Clearing, Shape, Handler
      <4>2. C(u).generation \in Nat /\ C(u)'.generation \in Nat /\ C(u).generation <= C(u)'.generation
        BY <1>1, <1>2, Zenon DEF Cold, C, CacheOK, Shape
      <4> QED
        BY <4>1, <4>2 DEF Timely
    <3> QED
      BY <3>1
  <2> QED
    BY <2>1, <2>2, <2>3, Zenon DEF Clearing
<1> QED
  BY <1>4, <1>5, <1>6, Zenon

-----------------------------------------------------------------------------
(* What the handlers that prune know of the copies they mean to drop.      *)

LEMMA EntryStays ==
    ASSUME Shape, Keeps, NEW u \in Handlers, NEW x, x[2] \in Used, SameEntry(C(u), x)'
    PROVE  SameEntry(C(u), x)
BY WindowAssumption DEF Keeps, SameEntry, C

LEMMA SeenUsed ==
    ASSUME NEW u \in Handlers, NEW x \in th[u].snap \cup th[u].doomed \cup {th[u].victim}
    PROVE  x[2] \in Used
<1> DEFINE S(v) == {y[2] : y \in th[v].snap \cup th[v].doomed \cup {th[v].victim}}
           E == UNION {{cache[w].entries[k].id : k \in DOMAIN cache[w].entries} : w \in Workers}
<1>1. x[2] \in S(u)
  OBVIOUS
<1>2. Used = E \cup UNION {S(v) : v \in Handlers}
  BY Zenon DEF Used
<1> HIDE DEF S, E
<1>3. x[2] \in UNION {S(v) : v \in Handlers}
  BY <1>1
<1> QED
  BY <1>2, <1>3

LEMMA PruneFrame ==
    ASSUME IInv, NEW t, Only(t), Keeps,
           \A k \in Partitions : life'[k].version \in Nat /\ life[k].version <= life'[k].version,
           \A k \in Partitions : life'[k].version = life[k].version /\ Over(k) => Over(k)',
           \A k \in Partitions : life'[k].state = "live" =>
               life[k].state = "live" \/ \A u \in Handlers : k \notin Cached(WorkerOf[u]),
           t \in Handlers => Prune(t)'
    PROVE  Prunes'
<1>1. Shape /\ Prunes
  BY DEF IInv
<1> SUFFICES ASSUME NEW u \in Handlers, u # t PROVE Prune(u)'
  BY DEF Prunes
<1>2. th'[u] = th[u] /\ Prune(u) /\ th[u] \in Handler
  BY <1>1, Zenon DEF Only, Prunes, Shape
<1>3. Victim(u)'
  <2> SUFFICES ASSUME th[u].pc = "dead", SameEntry(C(u), th[u].victim)'
               PROVE  life'[th[u].victim[1]].state # "live"
    BY <1>2, Zenon DEF Victim, SameEntry, C
  <2>1. SameEntry(C(u), th[u].victim)
    BY <1>1, <1>2, EntryStays, SeenUsed, Zenon DEF SameEntry, C
  <2>2. life[th[u].victim[1]].state # "live" /\ th[u].victim[1] \in Cached(WorkerOf[u])
    BY <1>2, <2>1, Zenon DEF Prune, Victim, SameEntry, C, Cached
  <2>3. th[u].victim[1] \in Partitions
    BY <1>2, Zenon DEF Handler
  <2> QED
    BY <2>2, <2>3, Zenon
<1>4. ASSUME NEW x \in th[u].doomed PROVE Doom(u, x)'
  <2>1. x[1] \in Partitions /\ x[3] \in Nat /\ Doom(u, x) /\ x[2] \in Used
    BY <1>2, SeenUsed, Zenon DEF Handler, Prune
  <2>2. life[x[1]].version \in Nat /\ life'[x[1]].version \in Nat /\ life[x[1]].version <= life'[x[1]].version
    BY <1>1, <2>1, Zenon DEF Shape, Life
  <2>3. ~SameEntry(C(u), x) => ~SameEntry(C(u), x)'
    BY <1>1, <2>1, EntryStays, Zenon
  <2>4. x[3] = life'[x[1]].version => x[3] = life[x[1]].version
    BY <2>1, <2>2 DEF Doom
  <2>5. x[3] = life'[x[1]].version => Over(x[1])'
    BY <2>1, <2>4, Zenon DEF Doom, Over
  <2> QED
    BY <1>2, <2>1, <2>2, <2>3, <2>4, <2>5 DEF Doom
<1> QED
  BY <1>2, <1>3, <1>4, Zenon DEF Prune

-----------------------------------------------------------------------------
(* The steps that change neither storage nor the life of a partition.      *)

LEMMA ShapeFrame ==
    ASSUME Shape, NEW t \in Handlers, Typed(t), Keeps,
           store' \in [Partitions -> Parts], life' \in [Partitions -> Life]
    PROVE  Shape'
<1>1. th' \in [Handlers -> Handler]
  BY TypedHandlers
<1> QED
  BY <1>1, Zenon DEF Shape, Keeps

LEMMA StayShape ==
    ASSUME IInv, NEW t \in Handlers, Typed(t), Keeps, UNCHANGED <<store, life>>,
           Own(th'[t]) \subseteq Own(th[t]), OwnOK(t)', Program(t)'
    PROVE  Shape' /\ Owned' /\ Stored' /\ Programs'
<1>1. Shape /\ Owned /\ Stored /\ Programs
  BY DEF IInv
<1>2. Shape'
  BY <1>1, ShapeFrame, Zenon DEF Shape
<1>3. Only(t) /\ Touches({}) /\ Free(t, {})
  BY <1>1, TypedOnly, Zenon DEF Touches, Free
<1>4. \A u \in Handlers : u # t => Own(th'[t]) \cap Own(th[u]) = {}
  BY <1>1 DEF Owned
<1>5. Owned' /\ Stored' /\ Programs'
  BY <1>1, <1>3, <1>4, MoveKeeps, Zenon
<1> QED
  BY <1>2, <1>5

LEMMA StayStep ==
    ASSUME IInv, NEW t \in Handlers, Typed(t), Cold, UNCHANGED <<store, life>>,
           Own(th'[t]) \subseteq Own(th[t]), OwnOK(t)', Program(t)',
           Loads(t), Initialised(t)', Destroyed(t)', Timely(t)', Prune(t)'
    PROVE  IInv'
<1>1. Shape /\ Only(t) /\ Keeps
  BY TypedOnly, ColdKeeps, Zenon DEF IInv
<1>2. Shape' /\ Owned' /\ Stored' /\ Programs'
  BY <1>1, StayShape, Zenon
<1>3. \A k \in Partitions :
         /\ life'[k] = life[k] /\ store'[k] = store[k]
         /\ life[k].version \in Nat /\ Young(k)' = Young(k) /\ Gone(k)' = Gone(k) /\ Over(k)' = Over(k)
  BY <1>1, Zenon DEF Shape, Life, Young, Gone, Over
<1>4. Fresh' /\ Copies' /\ Clearing'
  BY <1>1, <1>3, ColdFrame, Zenon
<1>5. Prunes'
  BY <1>1, <1>3, PruneFrame
<1> QED
  BY <1>2, <1>4, <1>5, Zenon DEF IInv

(* A handler that is not pruning has nothing to drop.                      *)
LEMMA NotPruning ==
    ASSUME IInv, NEW t \in Handlers, th[t].pc \notin {"prune", "dead"} PROVE th[t].doomed = {}
BY Zenon DEF IInv, Prunes, Prune, Doom

LEMMA NoPrune ==
    ASSUME NEW t, th'[t].pc \notin {"prune", "dead"}, th'[t].doomed = {} PROVE Prune(t)'
BY Zenon DEF Prune, Victim

(* Places, spelled out.                                                    *)
LEMMA PlaceOf ==
    ASSUME IInv, NEW t \in Handlers
    PROVE  /\ th[t] \in Handler /\ Program(t) /\ th[t].key \in Partitions
           /\ th[t].op = "none" <=> th[t].pc = "ready"
           /\ th[t].op = "end" <=> th[t].pc = "clear"
           /\ th[t].pc \in {"put_p", "put_o", "put_m"} => th[t].op = "init"
           /\ th[t].pc \in {"del_p", "del_o", "del_m"} => th[t].op = "destroy"
           /\ th[t].pc \in {"lookup", "again", "get_p", "get_o", "get_m", "served"} => th[t].op = "window"
           /\ th[t].pc \in Pruning => th[t].op \in {"init", "window", "destroy"}
<1>1. th[t] \in Handler /\ Program(t) /\ th[t].key \in Partitions
  BY Zenon DEF IInv, Shape, Programs, Handler
<1>2. th[t].pc \in Places[th[t].op] /\ th[t].op \in {"none", "init", "window", "destroy", "end"}
  BY <1>1, Zenon DEF Program, Handler
<1> QED
  BY <1>1, <1>2 DEF Places, Pruning

(* A handler goes on pruning.                                              *)
LEMMA PrunerStep ==
    ASSUME IInv, NEW t \in Handlers, Typed(t), Cold, UNCHANGED <<store, life>>,
           th[t].pc \in Pruning, th'[t].pc \in {"prune", "dead"},
           th'[t].op = th[t].op, th'[t].key = th[t].key, th'[t].version = th[t].version, Prune(t)'
    PROVE  IInv'
<1>1. Shape /\ Only(t) /\ WorkerOf[t] \in Workers
  BY TypedOnly, WindowAssumption, Zenon DEF IInv
<1>2. th[t] \in Handler /\ Program(t) /\ th[t].op \in {"init", "window", "destroy"} /\ th[t].key \in Partitions
  BY PlaceOf, Zenon
<1>3. Own(th'[t]) = Own(th[t]) /\ OwnOK(t)'
  BY DEF IInv, Owned, OwnOK, Own, ExecKeys
<1>4. Program(t)'
  <2>1. th'[t].pc \in Places[th[t].op]
    BY <1>2 DEF Places
  <2>2. CASE th[t].op = "init"
    BY <1>2, <2>1, <2>2, Zenon DEF Program, InitOK, Pruning
  <2>3. CASE th[t].op = "window"
    BY <1>2, <2>1, <2>3, Zenon DEF Program, WindowOK, Pruning
  <2>4. CASE th[t].op = "destroy"
    BY <1>2, <2>1, <2>4, Zenon DEF Program, DestroyOK, Pruning
  <2> QED
    BY <1>2, <2>2, <2>3, <2>4, Zenon
<1>5. Loads(t) /\ Initialised(t)' /\ Timely(t)'
  BY Zenon DEF Loads, Loading, Initialised, Timely
<1>6. Destroyed(t)'
  <2> SUFFICES ASSUME th[t].op = "destroy" PROVE Destroyed(t)'
    BY Zenon DEF Destroyed
  <2>1. Cleared(th[t].key, WorkerOf[t]) /\ store[th[t].key] = Absent
    BY <1>2, Zenon DEF IInv, Clearing, Destroyed, Program, DestroyOK
  <2>2. \A k \in Partitions : Cleared(k, WorkerOf[t]) /\ store[k] = Absent => Cleared(k, WorkerOf[t])'
    BY <1>1, <1>5, ClearedStays, Zenon
  <2> QED
    BY <1>2, <2>1, <2>2 DEF Destroyed, Cleared, Cached, Loading
<1> QED
  BY <1>3, <1>4, <1>5, <1>6, StayStep, Zenon

LEMMA PruneStartStep ==
    ASSUME IInv, NEW t \in Handlers, PruneStart(t) PROVE IInv'
<1> DEFINE dead == {y \in Snapshot(t) : life[y[1]].state \in {"dead", "ended"}}
           doomed == {<<x[1], x[2], life[x[1]].version>> : x \in dead}
<1>1. Shape /\ Typed(t) /\ Cold /\ UNCHANGED <<store, cache, life>> /\ th[t].pc = "snap" /\ th[t] \in Handler
  <2>1. th[t].pc = "snap" /\ UNCHANGED <<store, cache, life>>
    BY Zenon DEF PruneStart
  <2>2. Shape /\ th[t] \in Handler
    BY PlaceOf, Zenon DEF IInv
  <2>3. Typed(t) /\ Cold
    BY <2>1, <2>2, PruneTyped, UnchangedCold
  <2> QED
    BY <2>1, <2>2, <2>3
<1>2. th'[t] = [th[t] EXCEPT !.pc = "prune", !.snap = Snapshot(t), !.doomed = doomed]
  BY <1>1, Zenon DEF PruneStart, Shape
<1> HIDE DEF doomed
<1>3. /\ th'[t].pc = "prune" /\ th'[t].op = th[t].op /\ th'[t].key = th[t].key /\ th'[t].version = th[t].version
      /\ th'[t].snap = Snapshot(t) /\ th'[t].doomed = doomed
  BY <1>1, <1>2 DEF Handler
<1>4. ASSUME NEW x \in doomed PROVE Doom(t, x)'
  <2>1. PICK y \in Snapshot(t) : life[y[1]].state \in {"dead", "ended"} /\ x = <<y[1], y[2], life[y[1]].version>>
    BY <1>4, Zenon DEF doomed
  <2>2. y \in Partitions \X Addresses
    BY <1>1, <2>1, WindowAssumption DEF Snapshot, C, Shape, CacheOK, Entry
  <2>3. y[1] \in Partitions /\ <<y[1], y[2]>> = y /\ life[y[1]].version \in Nat
    BY <1>1, <2>2 DEF Shape, Life
  <2>4. store[y[1]] = Absent
    BY <2>1, <2>3, Zenon DEF IInv, Stored, StoredOK
  <2> QED
    BY <1>1, <1>3, <2>1, <2>3, <2>4 DEF Doom, Over
<1>5. Prune(t)'
  BY <1>3, <1>4, Zenon DEF Prune, Victim
<1> QED
  BY <1>1, <1>3, <1>5, PrunerStep, Zenon DEF Pruning

(* The output schema of a partition that is alive is in storage.           *)
LEMMA AliveKept ==
    ASSUME IInv, NEW k \in Partitions PROVE (life[k].state = "live" => Alive(k)) /\ (Over(k) => ~Alive(k))
<1>1. life[k].version \in Nat /\ StoredOK(k)
  BY DEF IInv, Shape, Life, Stored
<1> QED
  BY <1>1 DEF StoredOK, Whole, Alive, Over, Absent

LEMMA PruneCheckStep ==
    ASSUME IInv, NEW t \in Handlers, PruneCheck(t) PROVE IInv'
<1>1. Shape /\ Typed(t) /\ Cold /\ UNCHANGED <<store, cache, life>> /\ th[t].pc = "prune" /\ th[t] \in Handler
  <2>1. th[t].pc = "prune" /\ UNCHANGED <<store, cache, life>>
    BY Zenon DEF PruneCheck
  <2>2. Shape /\ th[t] \in Handler
    BY PlaceOf, Zenon DEF IInv
  <2>3. Typed(t) /\ Cold
    BY <2>1, <2>2, PruneTyped, UnchangedCold
  <2> QED
    BY <2>1, <2>2, <2>3
<1>2. PICK x \in th[t].snap :
        th' = [th EXCEPT ![t] = IF Alive(x[1]) THEN [th[t] EXCEPT !.snap = th[t].snap \ {x}]
                                ELSE [th[t] EXCEPT !.pc = "dead", !.snap = th[t].snap \ {x}, !.victim = x]]
  BY Zenon DEF PruneCheck
<1>3. x \in Partitions \X Addresses
  BY <1>1, Zenon DEF Handler
<1>4. x[1] \in Partitions /\ x = <<x[1], x[2]>>
  BY <1>3
<1>5. /\ th'[t].op = th[t].op /\ th'[t].key = th[t].key /\ th'[t].version = th[t].version
      /\ th'[t].snap = th[t].snap \ {x} /\ th'[t].doomed = th[t].doomed
      /\ IF Alive(x[1]) THEN th'[t].pc = "prune" ELSE th'[t].pc = "dead" /\ th'[t].victim = x
  BY <1>1, <1>2 DEF Handler, Shape
<1>6. Victim(t)'
  BY <1>1, <1>4, <1>5, AliveKept, Zenon DEF Victim
<1>7. ASSUME NEW y \in th[t].doomed PROVE Doom(t, y)'
  <2>1. Doom(t, y) /\ y[1] \in Partitions
    BY <1>1, Zenon DEF IInv, Prunes, Prune, Handler
  <2>2. <<y[1], y[2]>> = x /\ Over(y[1]) => th'[t].pc = "dead" /\ th'[t].victim = <<y[1], y[2]>>
    BY <1>4, <1>5, <2>1, AliveKept
  <2> QED
    BY <1>1, <1>5, <2>1, <2>2, Zenon DEF Doom, Over, SameEntry, C
<1>8. Prune(t)'
  BY <1>5, <1>6, <1>7, Zenon DEF Prune
<1> QED
  BY <1>1, <1>5, <1>8, PrunerStep, Zenon DEF Pruning

LEMMA PruneDropStep ==
    ASSUME IInv, NEW t \in Handlers, PruneDrop(t) PROVE IInv'
<1>1. Shape /\ Typed(t) /\ UNCHANGED <<store, life>> /\ th[t].pc = "dead" /\ th[t] \in Handler
  <2>1. th[t].pc = "dead" /\ UNCHANGED <<store, life>>
    BY Zenon DEF PruneDrop
  <2>2. Shape /\ th[t] \in Handler
    BY PlaceOf, Zenon DEF IInv
  <2>3. Typed(t)
    BY <2>2, PruneTyped
  <2> QED
    BY <2>1, <2>2, <2>3
<1>2. /\ th'[t].pc = "prune" /\ th'[t].op = th[t].op /\ th'[t].key = th[t].key /\ th'[t].version = th[t].version
      /\ th'[t].snap = th[t].snap /\ th'[t].doomed = th[t].doomed
  BY <1>1 DEF PruneDrop, Handler, Shape
<1>3. Cold /\ ~(th[t].victim[1] \in Cached(WorkerOf[t])' /\ C(t)'.entries[th[t].victim[1]].id = th[t].victim[2])
  <2>1. CASE SameEntry(C(t), th[t].victim)
    <3>1. SetCache(t, Without(Bumped(C(t)), {th[t].victim[1]}))
      BY <2>1, Zenon DEF PruneDrop
    <3>2. Cold /\ Cached(WorkerOf[t])' = Cached(WorkerOf[t]) \ {th[t].victim[1]}
      BY <1>1, <3>1, RemovesCold, Zenon
    <3> QED
      BY <3>2, Zenon
  <2>2. CASE ~SameEntry(C(t), th[t].victim)
    <3>1. UNCHANGED cache
      BY <2>2 DEF PruneDrop
    <3> QED
      BY <1>1, <2>2, <3>1, UnchangedCold, Zenon DEF SameEntry, C, Cached
  <2> QED
    BY <2>1, <2>2, Zenon
<1>4. ASSUME NEW x \in th[t].doomed PROVE Doom(t, x)'
  <2>1. Doom(t, x) /\ x[2] \in Used
    BY SeenUsed, Zenon DEF IInv, Prunes, Prune
  <2>2. ~SameEntry(C(t), x) => ~SameEntry(C(t), x)'
    BY <1>1, <1>3, <2>1, ColdKeeps, EntryStays, Zenon
  <2>3. th[t].victim = <<x[1], x[2]>> => ~SameEntry(C(t), x)'
    BY <1>3 DEF SameEntry, Cached, C
  <2> QED
    BY <1>1, <1>2, <2>1, <2>2, <2>3, Zenon DEF Doom, Over
<1>5. Prune(t)'
  BY <1>2, <1>4, Zenon DEF Prune, Victim
<1> QED
  BY <1>1, <1>2, <1>3, <1>5, PrunerStep, Zenon DEF Pruning

LEMMA PruneDoneStays ==
    ASSUME IInv, NEW t \in Handlers, PruneDone(t), th[t].op # "destroy" PROVE IInv'
<1>1. /\ Shape /\ Typed(t) /\ Cold /\ UNCHANGED <<store, life>> /\ th[t].pc = "prune"
      /\ th[t] \in Handler /\ Program(t) /\ th[t].op \in {"init", "window"}
  <2>1. th[t].pc = "prune" /\ UNCHANGED <<store, cache, life>>
    BY Zenon DEF PruneDone
  <2>2. Shape /\ th[t] \in Handler /\ Program(t) /\ th[t].op \in {"init", "window"}
    BY <2>1, PlaceOf, Zenon DEF IInv, Pruning
  <2>3. Typed(t) /\ Cold
    BY <2>1, <2>2, PruneTyped, UnchangedCold, Zenon
  <2> QED
    BY <2>1, <2>2, <2>3, Zenon
<1>2. /\ th'[t].op = th[t].op /\ th'[t].key = th[t].key /\ th'[t].version = th[t].version
      /\ th'[t].doomed = {} /\ th'[t].pc = IF th[t].op = "init" THEN "remove" ELSE "again"
  <2>1. th' = [th EXCEPT ![t] = [th[t] EXCEPT !.pc = AfterPrune(th[t].op), !.doomed = {}]]
    BY Zenon DEF PruneDone
  <2> QED
    BY <1>1, <2>1 DEF AfterPrune, Handler, Shape
<1>3. Own(th'[t]) = Own(th[t]) /\ OwnOK(t)'
  BY <1>1, <1>2, Zenon DEF IInv, Owned, OwnOK, Own, ExecKeys
<1>4. Program(t)'
  <2>1. th'[t].pc \in Places[th'[t].op]
    BY <1>1, <1>2 DEF Places
  <2>2. CASE th[t].op = "init"
    BY <1>1, <1>2, <2>1, <2>2, Zenon DEF Program, InitOK, Pruning
  <2>3. CASE th[t].op = "window"
    BY <1>1, <1>2, <2>1, <2>3, Zenon DEF Program, WindowOK
  <2> QED
    BY <1>1, <2>2, <2>3, Zenon
<1>5. Loads(t) /\ Initialised(t)' /\ Timely(t)' /\ Destroyed(t)'
  BY <1>1, <1>2, Zenon DEF Loads, Loading, Initialised, Timely, Destroyed
<1>6. Prune(t)'
  BY <1>1, <1>2, NoPrune, Zenon
<1> QED
  BY <1>1, <1>3, <1>4, <1>5, <1>6, StayStep, Zenon

LEMMA InitRemoveStep ==
    ASSUME IInv, NEW t \in Handlers, InitRemove(t) PROVE IInv'
<1>1. /\ Shape /\ Typed(t) /\ UNCHANGED <<store, life>> /\ th[t].pc = "remove" /\ th[t].op = "init"
      /\ th[t] \in Handler /\ Program(t)
  <2>1. th[t].pc = "remove" /\ th[t].op = "init" /\ UNCHANGED <<store, life>>
    BY Zenon DEF InitRemove
  <2>2. Shape /\ th[t] \in Handler /\ Program(t)
    BY PlaceOf, Zenon DEF IInv
  <2>3. Typed(t)
    BY <2>2, WorkTyped
  <2> QED
    BY <2>1, <2>2, <2>3
<1>2. Cold /\ th[t].key \notin Cached(WorkerOf[t])'
  <2>1. SetCache(t, Without(Bumped(C(t)), {th[t].key}))
    BY Zenon DEF InitRemove
  <2> QED
    BY <1>1, <2>1, RemovesCold
<1>3. /\ th'[t].op = th[t].op /\ th'[t].key = th[t].key /\ th'[t].version = th[t].version
      /\ th'[t].pc = "put_p" /\ th'[t].part = Whole(th[t].version) /\ th'[t].doomed = {}
  <2>1. PICK g : th' = [th EXCEPT ![t] = [th[t] EXCEPT !.pc = "put_p", !.generation = g,
                                                       !.part = Whole(th[t].version)]]
    BY Zenon DEF InitRemove
  <2>2. th[t].doomed = {}
    BY <1>1, NotPruning, Zenon
  <2> QED
    BY <1>1, <2>1, <2>2 DEF Handler, Shape
<1>4. Own(th'[t]) = Own(th[t]) /\ OwnOK(t)'
  BY <1>1, <1>3, Zenon DEF IInv, Owned, OwnOK, Own, ExecKeys
<1>5. Program(t)'
  <2>1. th'[t].pc \in Places[th'[t].op]
    BY <1>1, <1>3 DEF Places
  <2> QED
    BY <1>1, <1>3, <2>1, Zenon DEF Program, InitOK, Pruning
<1>6. Loads(t) /\ Initialised(t)' /\ Timely(t)' /\ Destroyed(t)'
  BY <1>1, <1>2, <1>3, Zenon DEF Loads, Loading, Initialised, Timely, Destroyed, Cached
<1>7. Prune(t)'
  BY <1>3, NoPrune, Zenon
<1> QED
  BY <1>1, <1>2, <1>4, <1>5, <1>6, <1>7, StayStep, Zenon

(* A window call goes on, or ends.                                         *)
LEMMA WindowStep ==
    ASSUME IInv, NEW t \in Handlers, Typed(t), Cold, UNCHANGED <<store, life>>, th[t].op = "window",
           \/ th'[t] = IdleHandler
           \/ /\ th'[t].op = "window" /\ th'[t].key = th[t].key /\ th'[t].version = th[t].version
              /\ th'[t].pc \in Places.window \ {"prune", "dead"} /\ th'[t].doomed = {}
              /\ WindowOK(th[t])' /\ Loads(t) /\ Timely(t)'
    PROVE  IInv'
<1>1. th'[t].op \in {"none", "window"} /\ th'[t].pc \notin {"prune", "dead"} /\ th'[t].doomed = {}
  BY DEF IdleHandler
<1>2. Own(th'[t]) \subseteq Own(th[t]) /\ OwnOK(t)'
  BY <1>1, Zenon DEF OwnOK, Own, ExecKeys
<1>3. Program(t)'
  <2>1. CASE th'[t] = IdleHandler
    BY <2>1 DEF Program, Places, IdleHandler
  <2>2. CASE th'[t].op = "window" /\ th'[t].pc \in Places.window /\ WindowOK(th[t])'
    BY <2>2, Zenon DEF Program
  <2> QED
    BY <2>1, <2>2, Zenon
<1>4. Loads(t) /\ Initialised(t)' /\ Timely(t)' /\ Destroyed(t)'
  <2>1. CASE th'[t] = IdleHandler
    BY <2>1 DEF Loads, Loading, Initialised, Timely, Destroyed, IdleHandler
  <2>2. CASE th'[t].op = "window" /\ Loads(t) /\ Timely(t)'
    BY <2>2, Zenon DEF Initialised, Destroyed
  <2> QED
    BY <2>1, <2>2, Zenon
<1>5. Prune(t)'
  BY <1>1, NoPrune, Zenon
<1> QED
  BY <1>2, <1>3, <1>4, <1>5, StayStep, Zenon

LEMMA LookupStep ==
    ASSUME IInv, NEW t \in Handlers, Lookup(t) PROVE IInv'
<1>1. /\ Shape /\ Typed(t) /\ UNCHANGED <<store, life>> /\ th[t].pc = "lookup" /\ th[t].op = "window"
      /\ th[t] \in Handler /\ Program(t) /\ th[t].doomed = {}
  <2>1. th[t].pc = "lookup" /\ UNCHANGED <<store, life>>
    BY Zenon DEF Lookup
  <2>2. Shape /\ th[t] \in Handler /\ Program(t) /\ th[t].op = "window" /\ th[t].doomed = {}
    BY <2>1, PlaceOf, NotPruning, Zenon DEF IInv
  <2>3. Typed(t)
    BY <2>2, WorkTyped, Zenon
  <2> QED
    BY <2>1, <2>2, <2>3, Zenon
<1>2. Cold
  BY <1>1, TouchesCold, UnchangedCold, Zenon DEF Lookup
<1>3. /\ th'[t].op = "window" /\ th'[t].key = th[t].key /\ th'[t].version = th[t].version
      /\ th'[t].doomed = {}
      /\ \/ th'[t].pc = "snap"
         \/ /\ th'[t].pc = "served" /\ th'[t].part = C(t).entries[th[t].key].part
            /\ th[t].key \in Cached(WorkerOf[t])
  <2>1. CASE th[t].key \in DOMAIN C(t).entries
    <3>1. th' = [th EXCEPT ![t] = [th[t] EXCEPT !.pc = "served", !.part = C(t).entries[th[t].key].part]]
      BY <2>1, Zenon DEF Lookup
    <3> QED
      <4>1. th'[t] = [th[t] EXCEPT !.pc = "served", !.part = C(t).entries[th[t].key].part]
        BY <1>1, <3>1, Zenon DEF Shape
      <4> QED
        BY <1>1, <2>1, <4>1, Zenon DEF Handler, Cached, C
  <2>2. CASE th[t].key \notin DOMAIN C(t).entries
    BY <1>1, <2>2 DEF Lookup, Goto, Handler, Shape
  <2> QED
    BY <2>1, <2>2, Zenon
<1>4. WindowOK(th[t])'
  <2>1. WindowOK(th[t])
    BY <1>1, Zenon DEF Program
  <2>2. th'[t].pc = "served" /\ life[th[t].key].state = "live" => th'[t].part = Whole(life[th[t].key].version)
    BY <1>3, Zenon DEF IInv, Copies
  <2> QED
    BY <1>1, <1>3, <2>1, <2>2, Zenon DEF WindowOK
<1>5. Loads(t) /\ Timely(t)'
  BY <1>3, Zenon DEF Loads, Loading, Timely
<1> QED
  BY <1>1, <1>2, <1>3, <1>4, <1>5, WindowStep, Zenon DEF Places

LEMMA LookupAgainStep ==
    ASSUME IInv, NEW t \in Handlers, LookupAgain(t) PROVE IInv'
<1>1. /\ Shape /\ Typed(t) /\ UNCHANGED <<store, life>> /\ th[t].pc = "again" /\ th[t].op = "window"
      /\ th[t] \in Handler /\ Program(t) /\ th[t].doomed = {}
  <2>1. th[t].pc = "again" /\ UNCHANGED <<store, life>>
    BY Zenon DEF LookupAgain
  <2>2. Shape /\ th[t] \in Handler /\ Program(t) /\ th[t].op = "window" /\ th[t].doomed = {}
    BY <2>1, PlaceOf, NotPruning, Zenon DEF IInv
  <2>3. Typed(t)
    BY <2>2, WorkTyped, Zenon
  <2> QED
    BY <2>1, <2>2, <2>3, Zenon
<1>2. Cold
  BY <1>1, TouchesCold, UnchangedCold, Zenon DEF LookupAgain
<1>3. /\ th'[t].op = "window" /\ th'[t].key = th[t].key /\ th'[t].version = th[t].version
      /\ th'[t].doomed = {} /\ th'[t].pc = "get_p" /\ th'[t].generation = C(t).generation
  BY <1>1 DEF LookupAgain, Handler, Shape
<1>4. WindowOK(th[t])'
  BY <1>1, <1>3, Zenon DEF Program, WindowOK
<1>5. Loads(t)
  BY <1>3, Zenon DEF Loads, Loading
<1>6. Timely(t)'
  BY <1>2, <1>3, WindowAssumption DEF Timely, Cold, C
<1> QED
  BY <1>1, <1>2, <1>3, <1>4, <1>5, <1>6, WindowStep, Zenon DEF Places

LEMMA LoadGetStep ==
    ASSUME IInv, NEW t \in Handlers, LoadGet(t) PROVE IInv'
<1> DEFINE k == th[t].key
<1>1. /\ Shape /\ Typed(t) /\ UNCHANGED <<store, cache, life>> /\ Cold
      /\ th[t].pc \in {"get_p", "get_o", "get_m"} /\ th[t].op = "window"
      /\ th[t] \in Handler /\ WindowOK(th[t]) /\ th[t].doomed = {} /\ Timely(t)
      /\ k \in Partitions /\ StoredOK(k) /\ store[k] \in Parts /\ th[t].part \in Parts
  <2>1. th[t].pc \in {"get_p", "get_o", "get_m"} /\ Shape /\ UNCHANGED <<store, cache, life>>
    BY Zenon DEF LoadGet, IInv
  <2>2. th[t].op = "window" /\ th[t] \in Handler /\ Program(t) /\ k \in Partitions /\ th[t].doomed = {}
    BY <2>1, PlaceOf, NotPruning, Zenon
  <2> QED
    <3>1. Typed(t) /\ Cold
      BY <2>1, WorkTyped, UnchangedCold, Zenon
    <3>2. WindowOK(th[t]) /\ Timely(t) /\ StoredOK(k)
      BY <2>2, Zenon DEF IInv, Clearing, Program, Stored
    <3>3. store[k] \in Parts /\ th[t].part \in Parts
      BY <2>1, <2>2, Zenon DEF Shape, Handler
    <3> QED
      BY <2>1, <2>2, <3>1, <3>2, <3>3, Zenon
<1>2. life[k].version \in Nat /\ (life[k].state = "live" => store[k] = Whole(life[k].version))
  BY <1>1, Zenon DEF StoredOK, Shape, Life
<1>3. CASE th'[t] = IdleHandler
  BY <1>1, <1>3, WindowStep, Zenon
<1> DEFINE Got(pc, part) ==
             \/ pc = "get_o" /\ th[t].pc = "get_p" /\ store[k].p # 0 /\ part.p = store[k].p
             \/ pc = "get_m" /\ th[t].pc = "get_o" /\ part.p = th[t].part.p /\ part.o = store[k].o
             \/ /\ pc = "insert" /\ th[t].pc = "get_m"
                /\ part = [p |-> th[t].part.p, o |-> th[t].part.o, m |-> store[k].m]
<1>4. ASSUME NEW pc, NEW part \in Parts, th'[t] = [th[t] EXCEPT !.pc = pc, !.part = part], Got(pc, part)
      PROVE  IInv'
  <2>1. /\ th'[t].op = "window" /\ th'[t].key = k /\ th'[t].version = th[t].version
        /\ th'[t].doomed = {} /\ th'[t].pc = pc /\ th'[t].generation = th[t].generation /\ th'[t].part = part
    BY <1>1, <1>4 DEF Handler
  <2>2. WindowOK(th[t])'
    <3>1. CASE life[k].state # "live"
      BY <1>1, <2>1, <3>1, Zenon DEF WindowOK
    <3>2. CASE life[k].state = "live"
      <4>1. /\ th[t].version = life[k].version
            /\ th[t].pc \in {"get_o", "get_m"} => th[t].part.p = th[t].version
            /\ th[t].pc = "get_m" => th[t].part.o = th[t].version
        BY <1>1, <3>2, Zenon DEF WindowOK
      <4>2. /\ store[k].p = th[t].version /\ store[k].o = th[t].version
            /\ Whole(th[t].version) = [p |-> th[t].version, o |-> th[t].version, m |-> store[k].m]
        BY <1>2, <3>2, <4>1 DEF Whole
      <4>3. /\ pc \in {"get_o", "get_m", "insert"}
            /\ pc \in {"get_o", "get_m"} => part.p = th[t].version
            /\ pc = "get_m" => part.o = th[t].version
            /\ pc = "insert" => part = Whole(th[t].version)
        BY <1>4, <4>1, <4>2, Zenon
      <4> QED
        BY <1>1, <2>1, <4>3, Zenon DEF WindowOK
    <3> QED
      BY <3>1, <3>2, Zenon
  <2>3. Loads(t)
    BY <1>1, <1>4, <2>1 DEF Loads, Loading, Absent
  <2>4. Timely(t)'
    BY <1>1, <2>1, Zenon DEF Timely, C
  <2> QED
    BY <1>1, <1>4, <2>1, <2>2, <2>3, <2>4, WindowStep, Zenon DEF Places
<1> HIDE DEF Got
<1>5. CASE th[t].pc = "get_p"
  <2>1. CASE store[k].p = 0
    BY <1>1, <1>3, <1>5, <2>1, Zenon DEF LoadGet, Done, Shape
  <2>2. CASE store[k].p # 0
    <3> DEFINE part == [th[t].part EXCEPT !.p = store[k].p]
    <3>1. th'[t] = [th[t] EXCEPT !.pc = "get_o", !.part = part]
      BY <1>1, <1>5, <2>2 DEF LoadGet, Shape, Handler, Parts
    <3>2. part \in Parts /\ part.p = store[k].p
      BY <1>1, Zenon DEF Parts
    <3>3. Got("get_o", part)
      BY <1>5, <2>2, <3>2, Zenon DEF Got
    <3> HIDE DEF part
    <3> QED
      BY <1>4, <3>1, <3>2, <3>3, Zenon
  <2> QED
    BY <2>1, <2>2, Zenon
<1>6. CASE th[t].pc = "get_o"
  <2>1. CASE store[k].o = 0
    BY <1>1, <1>3, <1>6, <2>1, Zenon DEF LoadGet, Done, Shape
  <2>2. CASE store[k].o # 0
    <3> DEFINE part == [th[t].part EXCEPT !.o = store[k].o]
    <3>1. th'[t] = [th[t] EXCEPT !.pc = "get_m", !.part = part]
      BY <1>1, <1>6, <2>2 DEF LoadGet, Shape, Handler, Parts
    <3>2. part \in Parts /\ part.o = store[k].o /\ part.p = th[t].part.p
      BY <1>1, Zenon DEF Parts
    <3>3. Got("get_m", part)
      BY <1>6, <3>2, Zenon DEF Got
    <3> HIDE DEF part
    <3> QED
      BY <1>4, <3>1, <3>2, <3>3, Zenon
  <2> QED
    BY <2>1, <2>2, Zenon
<1>7. CASE th[t].pc = "get_m"
  <2> DEFINE part == [th[t].part EXCEPT !.m = store[k].m]
  <2>1. th'[t] = [th[t] EXCEPT !.pc = "insert", !.part = part]
    BY <1>1, <1>7 DEF LoadGet, Shape, Handler, Parts
  <2>2. part \in Parts /\ part = [p |-> th[t].part.p, o |-> th[t].part.o, m |-> store[k].m]
    BY <1>1 DEF Parts
  <2>3. Got("insert", part)
    BY <1>7, <2>2, Zenon DEF Got
  <2> HIDE DEF part
  <2> QED
    BY <1>4, <2>1, <2>2, <2>3, Zenon
<1> QED
  BY <1>1, <1>5, <1>6, <1>7, Zenon

LEMMA ReturnStep ==
    ASSUME IInv, NEW t \in Handlers, Return(t) PROVE IInv'
<1>1. Shape /\ th[t].op = "window" /\ Typed(t) /\ Cold /\ UNCHANGED <<store, life>>
  BY WorkTyped, PlaceOf, UnchangedCold, Zenon DEF IInv, Return
<1>2. th'[t] = IdleHandler
  BY <1>1 DEF Return, Done, Shape
<1> QED
  BY <1>1, <1>2, WindowStep, Zenon

LEMMA WindowCallStep ==
    ASSUME IInv, NEW t \in Handlers, NEW k \in Partitions, Window(t, k) PROVE IInv'
<1>1. Shape /\ Typed(t) /\ Cold /\ UNCHANGED <<store, life>> /\ th[t].op = "none" /\ life[k].state = "live"
  <2>1. th[t].pc = "ready" /\ life[k].state = "live" /\ UNCHANGED <<store, cache, life>>
    BY Zenon DEF Window
  <2>2. Shape /\ th[t].op = "none"
    BY <2>1, PlaceOf, Zenon DEF IInv
  <2>3. Typed(t) /\ Cold
    BY <2>1, <2>2, CallTyped, UnchangedCold
  <2> QED
    BY <2>1, <2>2, <2>3
<1>2. th'[t] = [IdleHandler EXCEPT !.pc = "lookup", !.op = "window", !.key = k, !.version = life[k].version]
  BY <1>1 DEF Window, Shape
<1>3. /\ th'[t].pc = "lookup" /\ th'[t].op = "window" /\ th'[t].key = k /\ th'[t].version = life[k].version
      /\ th'[t].doomed = {}
  BY <1>2 DEF IdleHandler
<1>4. Own(th'[t]) \subseteq Own(th[t]) /\ OwnOK(t)'
  BY <1>3, Zenon DEF OwnOK, Own
<1>5. Program(t)'
  <2>1. th'[t].pc \in Places[th'[t].op]
    BY <1>3 DEF Places
  <2> QED
    BY <1>1, <1>3, <2>1, Zenon DEF Program, WindowOK
<1>6. Loads(t) /\ Initialised(t)' /\ Timely(t)' /\ Destroyed(t)'
  BY <1>3, Zenon DEF Loads, Loading, Initialised, Timely, Destroyed
<1>7. Prune(t)'
  BY <1>3, NoPrune, Zenon
<1> QED
  BY <1>1, <1>4, <1>5, <1>6, <1>7, StayStep, Zenon

(* A removal that counts the generation up leaves every load behind.       *)
LEMMA ClearedNow ==
    ASSUME Shape, Clearing, NEW t \in Handlers, Only(t), NEW k,
           C(t)'.generation = C(t).generation + 1, k \notin Cached(WorkerOf[t])', ~Loading(th'[t], k)
    PROVE  Cleared(k, WorkerOf[t])'
<1>1. ASSUME NEW u \in Handlers, WorkerOf[u] = WorkerOf[t], Loading(th'[u], k)
      PROVE  th'[u].generation < C(t)'.generation
  <2>1. u # t /\ th'[u] = th[u]
    BY <1>1 DEF Only
  <2>2. Timely(u) /\ th[u].generation \in Nat /\ C(t).generation \in Nat
    BY WindowAssumption DEF Clearing, Shape, Handler, CacheOK, C
  <2>3. th[u].generation <= C(t).generation
    BY <1>1, <2>1, <2>2, Zenon DEF Timely, Loading, C
  <2> QED
    BY <2>1, <2>2, <2>3
<1> QED
  BY <1>1, Zenon DEF Cleared, Cached, Loading, C

LEMMA DestroyRemoveStep ==
    ASSUME IInv, NEW t \in Handlers, DestroyRemove(t) PROVE IInv'
<1> DEFINE k == th[t].key
<1>1. /\ Shape /\ Typed(t) /\ UNCHANGED <<store, life>> /\ th[t].pc = "remove" /\ th[t].op = "destroy"
      /\ th[t] \in Handler /\ Program(t) /\ th[t].doomed = {}
  <2>1. th[t].pc = "remove" /\ th[t].op = "destroy" /\ UNCHANGED <<store, life>>
    BY Zenon DEF DestroyRemove
  <2>2. Shape /\ th[t] \in Handler /\ Program(t) /\ th[t].doomed = {}
    BY <2>1, PlaceOf, NotPruning, Zenon DEF IInv
  <2>3. Typed(t)
    BY <2>2, WorkTyped, Zenon
  <2> QED
    BY <2>1, <2>2, <2>3
<1>2. Cold /\ C(t)'.generation = C(t).generation + 1 /\ Cached(WorkerOf[t])' = Cached(WorkerOf[t]) \ {k}
  BY <1>1, RemovesCold, Zenon DEF DestroyRemove
<1>3. /\ th'[t].op = th[t].op /\ th'[t].key = k /\ th'[t].version = th[t].version
      /\ th'[t].pc = "snap" /\ th'[t].doomed = {}
  BY <1>1 DEF DestroyRemove, Goto, Handler, Shape
<1>4. Own(th'[t]) = Own(th[t]) /\ OwnOK(t)'
  BY <1>1, <1>3 DEF IInv, Owned, OwnOK, Own, ExecKeys
<1>5. Program(t)'
  <2>1. th'[t].pc \in Places[th'[t].op]
    BY <1>1, <1>3 DEF Places
  <2> QED
    BY <1>1, <1>3, <2>1, Zenon DEF Program, DestroyOK, Pruning
<1>6. Loads(t) /\ Initialised(t)' /\ Timely(t)'
  BY <1>1, <1>3, Zenon DEF Loads, Loading, Initialised, Timely
<1>7. Cleared(k, WorkerOf[t])'
  BY <1>1, <1>2, <1>3, TypedOnly, ClearedNow, Zenon DEF IInv, Loading
<1>8. Destroyed(t)'
  BY <1>3, <1>7, Zenon DEF Destroyed, Cleared, Cached, Loading
<1>9. Prune(t)'
  BY <1>3, NoPrune, Zenon
<1> QED
  BY <1>1, <1>2, <1>4, <1>5, <1>6, <1>8, <1>9, StayStep, Zenon
=============================================================================
