------------------------- MODULE WindowCacheProofs --------------------------
(***************************************************************************)
(* The inductive invariant of WindowCacheInvariant is kept by every step   *)
(* of WindowCache, and the two theorems that follow from it.               *)
(*                                                                         *)
(* Here are the steps that change storage or the life of a partition, or   *)
(* put an entry into a cache; WindowCacheInvariant has those that move a   *)
(* handler on or take entries away.  For each step it is enough to say     *)
(* which partitions it changes and how (Moves) and where its handler gets  *)
(* to (Arrives); ChangeStep does the rest.                                 *)
(***************************************************************************)
EXTENDS WindowCacheInvariant

-----------------------------------------------------------------------------
(* The steps that change storage or the life of the partitions K.          *)

Moves(k) ==
    /\ StoredOK(k)'
    /\ Young(k)' => Young(k)
    /\ life'[k].state = "live" => life'[k] = life[k]
    /\ Gone(k)' => (Gone(k) /\ life'[k].worker = life[k].worker) \/ Cleared(k, life[k].worker)'
    /\ life[k].version <= life'[k].version
    /\ life'[k].version = life[k].version /\ Over(k) => Over(k)'

(* Where the handler that moves gets to.                                   *)
Arrives(t) ==
    /\ \A u \in Handlers : u # t => Own(th'[t]) \cap Own(th[u]) = {}
    /\ OwnOK(t)' /\ Program(t)'
    /\ Loads(t) /\ Initialised(t)' /\ Destroyed(t)' /\ Timely(t)' /\ Prune(t)'

LEMMA ChangeStep ==
    ASSUME IInv, NEW t, Only(t), Cold, Shape', t \in Handlers => Arrives(t),
           NEW K \in SUBSET Partitions, Touches(K), Free(t, K), \A k \in K : Moves(k)
    PROVE  IInv'
<1>1. Shape /\ Owned /\ Stored /\ Programs /\ Keeps
  BY ColdKeeps DEF IInv
<1>2. Owned' /\ Stored' /\ Programs'
  BY <1>1, MoveKeeps, Zenon DEF Moves, Arrives
<1>3. ASSUME NEW k \in Partitions PROVE
         /\ Young(k)' => Young(k)
         /\ life'[k].state = "live" => life'[k] = life[k]
         /\ Gone(k)' => (Gone(k) /\ life'[k].worker = life[k].worker) \/ Cleared(k, life[k].worker)'
         /\ life[k].version <= life'[k].version /\ life'[k].version \in Nat
         /\ life'[k].version = life[k].version /\ Over(k) => Over(k)'
  <2>1. life'[k].version \in Nat
    BY DEF Shape, Life
  <2>2. CASE k \in K
    BY <2>1, <2>2, Zenon DEF Moves
  <2>3. CASE k \notin K
    <3>1. life'[k] = life[k] /\ store'[k] = store[k]
      BY <2>3 DEF Touches
    <3> QED
      BY <2>1, <3>1 DEF Young, Gone, Over
  <2> QED
    BY <2>2, <2>3, Zenon
<1>4. Fresh' /\ Copies' /\ Clearing'
  BY <1>3, ColdFrame, Zenon DEF Arrives
<1>5. Prunes'
  BY <1>1, <1>3, PruneFrame, Zenon DEF Arrives
<1> QED
  BY <1>2, <1>4, <1>5 DEF IInv

(* A handler that begins, or that is done.                                 *)
LEMMA IdleArrives ==
    ASSUME Shape, NEW t \in Handlers, th'[t] = IdleHandler PROVE Arrives(t)
<1>1. th'[t].op = "none" /\ th'[t].pc = "ready" /\ th'[t].doomed = {}
  BY DEF IdleHandler
<1>2. Prune(t)'
  BY <1>1, NoPrune
<1> QED
  BY <1>1, <1>2 DEF Arrives, OwnOK, Own, Program, Places, Loads, Loading, Initialised, Destroyed, Timely

(* No handler but t has k in hand.                                         *)
LEMMA FreeOf ==
    ASSUME IInv, NEW t, NEW k \in Partitions,
           \/ life[k].state \notin {"init", "ending"}
           \/ t \in Handlers /\ k \in Own(th[t])
    PROVE  \A u \in Handlers : u # t => k \notin Own(th[u])
<1>1. Owned
  BY DEF IInv
<1> QED
  BY <1>1, Zenon DEF Owned, OwnOK

(* No call is made for a partition that is being initialised.              *)
LEMMA NotCalled ==
    ASSUME IInv, NEW k \in Partitions, life[k].state = "init",
           NEW u \in Handlers
    PROVE  ~(th[u].op = "window" /\ th[u].key = k)
BY PlaceOf, Zenon DEF Program, WindowOK

LEMMA WindowInitStep ==
    ASSUME IInv, NEW t \in Handlers, NEW k \in Partitions, WindowInit(t, k) PROVE IInv'
<1>1. /\ Shape /\ Typed(t) /\ Only(t) /\ Cold /\ UNCHANGED store /\ th[t].op = "none" /\ StoredOK(k)
      /\ life[k] \in Life /\ life[k].state \in {"new", "dead"} /\ life[k].version < Inits[k] /\ Inits[k] \in Nat
  BY CallTyped, TypedOnly, PlaceOf, UnchangedCold, WindowAssumption, Zenon DEF IInv, WindowInit, Shape, Stored
<1>2. /\ life'[k] = [life[k] EXCEPT !.version = life[k].version + 1, !.state = "init"]
      /\ \A j \in Partitions \ {k} : life'[j] = life[j]
      /\ life' \in [Partitions -> Life]
  <2>1. [life[k] EXCEPT !.version = life[k].version + 1, !.state = "init"] \in Life
    <3>1. life[k].version + 1 \in Nat
      BY <1>1 DEF Life
    <3> QED
      BY <1>1, <3>1, Zenon DEF Life
  <2>2. life' = [life EXCEPT ![k] = [life[k] EXCEPT !.version = life[k].version + 1, !.state = "init"]]
    BY Zenon DEF WindowInit
  <2> QED
    BY <1>1, <2>1, <2>2, Zenon DEF Shape
<1>3. life'[k].version = life[k].version + 1 /\ life'[k].state = "init" /\ life[k].version \in Nat
  BY <1>1, <1>2, Zenon DEF Life
<1>4. th'[t] = [IdleHandler EXCEPT !.pc = "snap", !.op = "init", !.key = k, !.version = life[k].version + 1]
  BY <1>1, Zenon DEF WindowInit, Shape
<1>5. /\ th'[t].pc = "snap" /\ th'[t].op = "init" /\ th'[t].key = k /\ th'[t].version = life'[k].version
      /\ th'[t].doomed = {}
  BY <1>3, <1>4 DEF IdleHandler
<1>6. Shape'
  BY <1>1, <1>2, ColdKeeps, ShapeFrame, Zenon DEF Shape
<1>7. \A u \in Handlers : u # t => k \notin Own(th[u])
  BY <1>1, FreeOf, Zenon
<1>8. Touches({k}) /\ Free(t, {k})
  <2>1. ~Calling(k)
    BY Zenon DEF WindowInit
  <2> QED
    BY <1>1, <1>2, <1>7, <2>1, Zenon DEF Touches, Free, Calling
<1>9. Moves(k)
  BY <1>1, <1>3 DEF Moves, StoredOK, Young, Gone
<1>10. Arrives(t)
  <2>1. Prune(t)'
    BY <1>5, NoPrune, Zenon
  <2>2. Own(th'[t]) = {k}
    BY <1>5, Zenon DEF Own
  <2>3. OwnOK(t)'
    BY <1>3, <1>5, Zenon DEF OwnOK, Own
  <2>4. Program(t)'
    BY <1>1, <1>3, <1>5 DEF Program, Places, InitOK, Pruning, StoredOK
  <2> QED
    BY <1>5, <1>7, <2>1, <2>2, <2>3, <2>4, Zenon DEF Arrives, Loads, Loading, Initialised, Destroyed, Timely
<1> QED
  BY <1>1, <1>6, <1>8, <1>9, <1>10, ChangeStep, Zenon

LEMMA WindowDestroyStep ==
    ASSUME IInv, NEW t \in Handlers, NEW k \in Partitions, WindowDestroy(t, k) PROVE IInv'
<1>1. /\ Shape /\ Typed(t) /\ Only(t) /\ Cold /\ UNCHANGED store /\ th[t].op = "none" /\ StoredOK(k)
      /\ life[k] \in Life /\ life[k].state = "live"
  BY CallTyped, TypedOnly, PlaceOf, UnchangedCold, Zenon DEF IInv, WindowDestroy, Shape, Stored
<1>2. /\ life'[k] = [life[k] EXCEPT !.state = "ending"]
      /\ \A j \in Partitions \ {k} : life'[j] = life[j]
      /\ life' \in [Partitions -> Life]
  BY <1>1, Zenon DEF WindowDestroy, Shape, Life
<1>3. life'[k].version = life[k].version /\ life'[k].state = "ending" /\ life[k].version \in Nat
  BY <1>1, <1>2, Zenon DEF Life
<1>4. th'[t] = [IdleHandler EXCEPT !.pc = "del_p", !.op = "destroy", !.key = k]
  BY <1>1, Zenon DEF WindowDestroy, Shape
<1>5. th'[t].pc = "del_p" /\ th'[t].op = "destroy" /\ th'[t].key = k /\ th'[t].doomed = {}
  BY <1>4 DEF IdleHandler
<1>6. Shape'
  BY <1>1, <1>2, ColdKeeps, ShapeFrame, Zenon DEF Shape
<1>7. \A u \in Handlers : u # t => k \notin Own(th[u])
  BY <1>1, FreeOf, Zenon
<1>8. Touches({k}) /\ Free(t, {k})
  BY <1>1, <1>2, <1>3, <1>7, Zenon DEF Touches, Free
<1>9. Moves(k)
  BY <1>1, <1>3 DEF Moves, StoredOK, Young, Gone, Over
<1>10. Arrives(t)
  <2>1. Prune(t)'
    BY <1>5, NoPrune
  <2>2. Own(th'[t]) = {k}
    BY <1>5 DEF Own
  <2>3. OwnOK(t)'
    BY <1>3, <1>5, Zenon DEF OwnOK, Own
  <2>4. Program(t)'
    BY <1>1, <1>3, <1>5 DEF Program, Places, DestroyOK, Pruning, StoredOK
  <2> QED
    BY <1>5, <1>7, <2>1, <2>2, <2>3, <2>4, Zenon DEF Arrives, Loads, Loading, Initialised, Destroyed, Timely, Pruning
<1> QED
  BY <1>1, <1>6, <1>8, <1>9, <1>10, ChangeStep, Zenon

LEMMA InitInvalidStep ==
    ASSUME IInv, NEW t \in Handlers, InitInvalid(t) PROVE IInv'
<1> PICK k \in Partitions : k = th[t].key
  BY PlaceOf, Zenon
<1>1. /\ Shape /\ Typed(t) /\ Only(t) /\ Cold /\ UNCHANGED <<store, cache>>
      /\ th[t].pc = "put_p" /\ th[t].op = "init" /\ Program(t)
  BY WorkTyped, TypedOnly, PlaceOf, UnchangedCold, Zenon DEF IInv, InitInvalid
<1>2. k \in Own(th[t]) /\ life[k].state = "init" /\ StoredOK(k) /\ life[k] \in Life /\ store[k] = Absent
      /\ WorkerOf[t] \in Workers /\ k \notin Cached(WorkerOf[t])
  BY <1>1, WindowAssumption, Zenon DEF Own, IInv, Owned, OwnOK, Stored, Shape, Program, InitOK, Fresh, Initialised
<1>3. /\ life'[k] = [life[k] EXCEPT !.state = "dead", !.worker = WorkerOf[t]]
      /\ \A j \in Partitions \ {k} : life'[j] = life[j]
      /\ life' \in [Partitions -> Life]
  BY <1>1, <1>2, Zenon DEF InitInvalid, Shape, Life
<1>4. /\ life'[k].version = life[k].version /\ life'[k].state = "dead" /\ life'[k].worker = WorkerOf[t]
      /\ life[k].version \in Nat
  BY <1>2, <1>3, Zenon DEF Life
<1>5. th'[t] = IdleHandler
  BY <1>1, Zenon DEF InitInvalid, Done, Shape
<1>6. Shape'
  BY <1>1, <1>3, ColdKeeps, ShapeFrame, Zenon DEF Shape
<1>7. Touches({k}) /\ Free(t, {k})
  <2>1. \A u \in Handlers : u # t => k \notin Own(th[u])
    BY <1>2, FreeOf, Zenon
  <2>2. \A u \in Handlers : ~(th[u].op = "window" /\ th[u].key = k)
    BY <1>2, NotCalled, Zenon
  <2> QED
    BY <1>1, <1>3, <2>1, <2>2, Zenon DEF Touches, Free
<1>8. Cleared(k, WorkerOf[t])'
  <2>1. \A u \in Handlers : ~Loading(th'[u], k)
    BY <1>1, <1>2, <1>5, NotCalled DEF Only, Loading, IdleHandler
  <2> QED
    BY <1>1, <1>2, <2>1, Zenon DEF Cleared, Cached, Loading
<1>9. Cleared(k, life[k].worker)'
  BY <1>4, <1>8, Zenon DEF Cleared, Cached, Loading
<1>10. Moves(k)
  BY <1>1, <1>2, <1>4, <1>9 DEF Moves, StoredOK, Young, Over
<1>11. Arrives(t)
  BY <1>1, <1>5, IdleArrives
<1> QED
  BY <1>1, <1>6, <1>7, <1>10, <1>11, ChangeStep, Zenon

LEMMA PruneDoneDestroys ==
    ASSUME IInv, NEW t \in Handlers, PruneDone(t), th[t].op = "destroy" PROVE IInv'
<1> PICK k \in Partitions : k = th[t].key
  BY PlaceOf, Zenon
<1>1. /\ Shape /\ Typed(t) /\ Only(t) /\ Cold /\ UNCHANGED <<store, cache>>
      /\ th[t].pc = "prune" /\ Program(t)
  BY PruneTyped, TypedOnly, PlaceOf, UnchangedCold, Zenon DEF IInv, PruneDone
<1>2. k \in Own(th[t]) /\ life[k].state = "ending" /\ StoredOK(k) /\ life[k] \in Life /\ store[k] = Absent
      /\ WorkerOf[t] \in Workers /\ life[k].version >= 1 /\ Cleared(k, WorkerOf[t])
  BY <1>1, WindowAssumption, Zenon DEF Own, IInv, Owned, OwnOK, Stored, Shape, Program, DestroyOK, Pruning, Clearing, Destroyed
<1>3. /\ life'[k] = [life[k] EXCEPT !.state = "dead", !.worker = WorkerOf[t]]
      /\ \A j \in Partitions \ {k} : life'[j] = life[j]
      /\ life' \in [Partitions -> Life]
  <2>1. life' = [life EXCEPT ![k] = [life[k] EXCEPT !.state = "dead", !.worker = WorkerOf[t]]]
    BY Zenon DEF PruneDone
  <2> QED
    BY <1>1, <1>2, <2>1, Zenon DEF Shape, Life
<1>4. /\ life'[k].version = life[k].version /\ life'[k].state = "dead" /\ life'[k].worker = WorkerOf[t]
      /\ life[k].version \in Nat
  BY <1>2, <1>3, Zenon DEF Life
<1>5. th'[t] = IdleHandler
  <2>1. th' = [th EXCEPT ![t] = IdleHandler]
    BY Zenon DEF PruneDone, Done
  <2> QED
    BY <1>1, <2>1, Zenon DEF Shape
<1>6. Shape'
  BY <1>1, <1>3, ColdKeeps, ShapeFrame, Zenon DEF Shape
<1>7. Touches({k}) /\ Free(t, {k})
  <2>1. \A u \in Handlers : u # t => k \notin Own(th[u])
    BY <1>2, FreeOf, Zenon
  <2> QED
    BY <1>1, <1>3, <1>4, <2>1, Zenon DEF Touches, Free
<1>8. Arrives(t)
  BY <1>1, <1>5, IdleArrives
<1>9. Cleared(k, WorkerOf[t])'
  BY <1>1, <1>2, <1>8, ClearedStays, Zenon DEF Arrives
<1>10. Cleared(k, life[k].worker)'
  BY <1>4, <1>9, Zenon DEF Cleared, Cached, Loading
<1>11. Moves(k)
  BY <1>1, <1>2, <1>4, <1>10 DEF Moves, StoredOK, Young, Over
<1> QED
  BY <1>1, <1>6, <1>7, <1>8, <1>11, ChangeStep, Zenon

LEMMA EndExecutionStep ==
    ASSUME IInv, NEW t \in Handlers, NEW k \in Partitions, EndExecution(t, k) PROVE IInv'
<1> DEFINE K == ExecKeys(k)
<1>1. Shape /\ Typed(t) /\ Only(t) /\ Cold /\ th[t].op = "none" /\ K \in SUBSET Partitions
  BY CallTyped, TypedOnly, PlaceOf, UnchangedCold, Zenon DEF IInv, EndExecution, ExecKeys
<1>2. \A j \in K : StoredOK(j) /\ life[j] \in Life /\ life[j].state \in {"new", "live", "dead"}
  BY <1>1, Zenon DEF EndExecution, Shape, IInv, Stored
<1>3. /\ \A j \in Partitions : life'[j] = IF j \in K THEN [life[j] EXCEPT !.state = "ending"] ELSE life[j]
      /\ \A j \in Partitions : store'[j] = IF j \in K THEN Absent ELSE store[j]
      /\ life' = [j \in Partitions |-> life'[j]] /\ store' = [j \in Partitions |-> store'[j]]
  BY DEF EndExecution
<1>4. \A j \in K : life'[j].version = life[j].version /\ life'[j].state = "ending" /\ life[j].version \in Nat
                  /\ life'[j] \in Life /\ store'[j] = Absent
  BY <1>1, <1>2, <1>3 DEF Life
<1>5. life' \in [Partitions -> Life] /\ store' \in [Partitions -> Parts]
  <2>1. \A j \in Partitions : life'[j] \in Life /\ store'[j] \in Parts
    BY <1>1, <1>3, <1>4 DEF Shape, Parts, Absent
  <2> QED
    BY <1>3, <2>1
<1>6. th'[t] = [IdleHandler EXCEPT !.pc = "clear", !.op = "end", !.key = k]
  BY <1>1, Zenon DEF EndExecution, Shape
<1>7. th'[t].pc = "clear" /\ th'[t].op = "end" /\ th'[t].key = k /\ th'[t].doomed = {}
  BY <1>6 DEF IdleHandler
<1>8. Shape'
  BY <1>1, <1>5, ColdKeeps, ShapeFrame
<1>9. \A u \in Handlers : u # t => Own(th[u]) \cap K = {}
  <2>1. \A j \in K : \A u \in Handlers : u # t => j \notin Own(th[u])
    BY <1>1, <1>2, FreeOf, Zenon
  <2> QED
    BY <2>1
<1>10. Touches(K) /\ Free(t, K)
  BY <1>1, <1>3, <1>4, <1>9, Zenon DEF Touches, Free
<1>11. ASSUME NEW j \in K PROVE Moves(j)
  BY <1>2, <1>4 DEF Moves, StoredOK, Young, Gone, Over
<1>12. Arrives(t)
  <2>1. Prune(t)'
    BY <1>7, NoPrune
  <2>2. Own(th'[t]) = K
    BY <1>7 DEF Own
  <2>3. OwnOK(t)'
    BY <1>4, <1>7, Zenon DEF OwnOK, Own, ExecKeys
  <2>4. Program(t)'
    BY <1>4, <1>7 DEF Program, Places, EndOK, ExecKeys
  <2> QED
    BY <1>7, <1>9, <2>1, <2>2, <2>3, <2>4 DEF Arrives, Loads, Loading, Initialised, Destroyed, Timely
<1> QED
  BY <1>1, <1>8, <1>10, <1>11, <1>12, ChangeStep

LEMMA EndClearStep ==
    ASSUME IInv, NEW t \in Handlers, EndClear(t) PROVE IInv'
<1> PICK k \in Partitions : k = th[t].key
  BY PlaceOf, Zenon
<1> DEFINE K == ExecKeys(k)
<1>1. /\ Shape /\ Clearing /\ Typed(t) /\ Only(t) /\ UNCHANGED store /\ th[t].op = "end"
      /\ Program(t) /\ WorkerOf[t] \in Workers /\ K \in SUBSET Partitions /\ Own(th[t]) = K
  BY WorkTyped, TypedOnly, PlaceOf, WindowAssumption, Zenon DEF IInv, EndClear, ExecKeys, Own
<1>2. \A j \in K : StoredOK(j) /\ life[j] \in Life /\ life[j].state = "ending" /\ store[j] = Absent
  BY <1>1, Zenon DEF Shape, IInv, Stored, Owned, OwnOK, Program, EndOK
<1>3. Cold /\ C(t)'.generation = C(t).generation + 1 /\ Cached(WorkerOf[t])' = Cached(WorkerOf[t]) \ K
  BY <1>1, RemovesCold, Zenon DEF EndClear
<1>4. /\ \A j \in Partitions : life'[j] = IF j \in K THEN [life[j] EXCEPT !.state = "ended", !.worker = WorkerOf[t]]
                                  ELSE life[j]
      /\ life' = [j \in Partitions |-> life'[j]]
  BY Zenon DEF EndClear
<1>5. \A j \in K : life'[j].version = life[j].version /\ life'[j].state = "ended" /\ life[j].version \in Nat
                  /\ life'[j] \in Life /\ life'[j].worker = WorkerOf[t]
  <2> SUFFICES ASSUME NEW j \in K
               PROVE  /\ life'[j].version = life[j].version /\ life'[j].state = "ended" /\ life[j].version \in Nat
                      /\ life'[j] \in Life /\ life'[j].worker = WorkerOf[t]
    BY Zenon
  <2>1. life[j] \in Life /\ life'[j] = [life[j] EXCEPT !.state = "ended", !.worker = WorkerOf[t]] /\ WorkerOf[t] \in Workers
    BY <1>1, <1>2, <1>4, Zenon
  <2> QED
    BY <2>1, Zenon DEF Life
<1>6. life' \in [Partitions -> Life]
  <2>1. \A j \in Partitions : life'[j] \in Life
    BY <1>1, <1>4, <1>5, Zenon DEF Shape
  <2> QED
    BY <1>4, <2>1, Zenon
<1>7. th'[t] = IdleHandler
  BY <1>1, Zenon DEF EndClear, Done, Shape
<1>8. Shape'
  BY <1>1, <1>3, <1>6, ColdKeeps, ShapeFrame, Zenon DEF Shape
<1>9. Touches(K) /\ Free(t, K)
  <2>1. \A u \in Handlers : u # t => Own(th[u]) \cap K = {}
    BY <1>1, Zenon DEF IInv, Owned
  <2> QED
    BY <1>1, <1>4, <1>5, <2>1, Zenon DEF Touches, Free
<1>10. ASSUME NEW j \in K PROVE Moves(j)
  <2>1. ~Loading(th'[t], j)
    BY <1>7 DEF Loading, IdleHandler
  <2>2. Cleared(j, WorkerOf[t])'
    BY <1>1, <1>3, <2>1, ClearedNow, Zenon
  <2>3. Cleared(j, life[j].worker)'
    BY <1>5, <2>2, Zenon DEF Cleared, Cached, Loading
  <2> QED
    BY <1>1, <1>2, <1>5, <2>3 DEF Moves, StoredOK, Young, Over
<1>11. Arrives(t)
  BY <1>1, <1>7, IdleArrives, Zenon
<1> QED
  BY <1>1, <1>3, <1>8, <1>9, <1>10, <1>11, ChangeStep, Zenon

LEMMA DestroyElsewhereStep ==
    ASSUME IInv, NEW k \in Partitions, DestroyElsewhere(k) PROVE IInv'
<1>1. PICK t : t \notin Handlers
  BY NoSetContainsEverything
<1>2. /\ Shape /\ Cold /\ Only(t) /\ UNCHANGED <<store, cache, th>> /\ StoredOK(k)
      /\ life[k] \in Life /\ life[k].state = "live"
  BY UnchangedCold, Zenon DEF IInv, DestroyElsewhere, Shape, Stored, Only
<1>3. /\ life'[k] = [life[k] EXCEPT !.state = "elsewhere"]
      /\ \A j \in Partitions \ {k} : life'[j] = life[j]
      /\ life' \in [Partitions -> Life]
  BY <1>2, Zenon DEF DestroyElsewhere, Shape, Life
<1>4. life'[k].version = life[k].version /\ life'[k].state = "elsewhere" /\ life[k].version \in Nat
  BY <1>2, <1>3, Zenon DEF Life
<1>5. Shape'
  BY <1>2, <1>3 DEF Shape
<1>6. Touches({k}) /\ Free(t, {k})
  <2>1. \A u \in Handlers : u # t => k \notin Own(th[u])
    BY <1>2, FreeOf, Zenon
  <2> QED
    BY <1>2, <1>3, <1>4, <2>1, Zenon DEF Touches, Free
<1>7. Moves(k)
  BY <1>2, <1>4 DEF Moves, StoredOK, Young, Gone, Over
<1> QED
  BY <1>1, <1>2, <1>5, <1>6, <1>7, ChangeStep

LEMMA ElsewhereDelStep ==
    ASSUME IInv, NEW k \in Partitions, ElsewhereDel(k) PROVE IInv'
<1>1. PICK t : t \notin Handlers
  BY NoSetContainsEverything
<1>2. /\ Shape /\ Cold /\ Only(t) /\ UNCHANGED <<cache, th>> /\ StoredOK(k)
      /\ life[k] \in Life /\ life[k].state = "elsewhere" /\ store[k] \in Parts
  BY UnchangedCold, Zenon DEF IInv, ElsewhereDel, Shape, Stored, Only
<1>3. PICK s : s \in Parts /\ store' = [store EXCEPT ![k] = s]
  <2>1. \/ store' = [store EXCEPT ![k] = [store[k] EXCEPT !.p = 0]]
        \/ store' = [store EXCEPT ![k] = [store[k] EXCEPT !.o = 0]]
        \/ store' = [store EXCEPT ![k] = Absent]
    BY Zenon DEF ElsewhereDel
  <2> QED
    BY <1>2, <2>1, Zenon DEF Parts, Absent
<1>4. /\ \A j \in Partitions \ {k} : life'[j] = life[j] /\ store'[j] = store[j]
      /\ life' \in [Partitions -> Life] /\ store' \in [Partitions -> Parts]
      /\ life'[k].version = life[k].version /\ life[k].version \in Nat
      /\ \/ life'[k].state = "elsewhere"
         \/ life'[k].state = "dead" /\ life'[k].worker = "elsewhere" /\ store'[k] = Absent
  <2>1. store' \in [Partitions -> Parts] /\ \A j \in Partitions \ {k} : store'[j] = store[j]
    BY <1>2, <1>3, Zenon DEF Shape
  <2>2. CASE store'[k] # Absent
    <3>1. life' = life
      BY <2>2, Zenon DEF ElsewhereDel
    <3> QED
      BY <1>2, <2>1, <3>1, Zenon DEF Shape, Life
  <2>3. CASE store'[k] = Absent
    <3>1. life' = [life EXCEPT ![k] = [life[k] EXCEPT !.state = "dead", !.worker = "elsewhere"]]
      BY <2>3, Zenon DEF ElsewhereDel
    <3> QED
      BY <1>2, <2>1, <2>3, <3>1, Zenon DEF Shape, Life
  <2> QED
    BY <2>2, <2>3, Zenon
<1>5. Shape'
  BY <1>2, <1>4, Zenon DEF Shape
<1>6. Touches({k}) /\ Free(t, {k})
  <2>1. \A u \in Handlers : u # t => k \notin Own(th[u])
    BY <1>2, FreeOf, Zenon
  <2> QED
    BY <1>2, <1>4, <2>1, Zenon DEF Touches, Free
<1>7. Moves(k)
  BY <1>2, <1>4, WindowAssumption DEF Moves, StoredOK, Young, Gone, Over
<1> QED
  BY <1>1, <1>2, <1>5, <1>6, <1>7, ChangeStep

(* A part of the handler's own partition is written or deleted.            *)
LEMMA StoreStep ==
    ASSUME IInv, NEW t \in Handlers, Typed(t), UNCHANGED <<cache, life>>, NEW k \in Partitions, k = th[t].key,
           th[t].op \in {"init", "destroy"}, NEW s \in Parts, store' = [store EXCEPT ![k] = s],
           Over(k) => s = Absent,
           th'[t].op = th[t].op, th'[t].key = k, th'[t].pc \notin Pruning, th'[t].doomed = {},
           Program(t)', Initialised(t)'
    PROVE  IInv'
<1>1. Shape /\ Only(t) /\ Cold
  BY TypedOnly, UnchangedCold, Zenon DEF IInv
<1>2. /\ k \in Own(th[t]) /\ life[k].state = (IF th[t].op = "init" THEN "init" ELSE "ending")
      /\ StoredOK(k) /\ life[k].version \in Nat
  BY <1>1, Zenon DEF Own, IInv, Owned, OwnOK, Stored, Shape, Life
<1>3. store' \in [Partitions -> Parts] /\ store'[k] = s /\ \A j \in Partitions \ {k} : store'[j] = store[j]
  BY <1>1, Zenon DEF Shape
<1>4. Shape'
  BY <1>1, <1>3, ColdKeeps, ShapeFrame, Zenon DEF Shape
<1>5. \A u \in Handlers : u # t => k \notin Own(th[u])
  BY <1>2, FreeOf, Zenon
<1>6. Touches({k}) /\ Free(t, {k})
  <2>1. Touches({k})
    BY <1>3, Zenon DEF Touches
  <2>2. ASSUME NEW u \in Handlers, th[u].op = "window", th[u].key = k PROVE life[k].state \notin {"new", "init"}
    BY <2>2, PlaceOf, Zenon DEF Program, WindowOK
  <2> QED
    BY <1>5, <2>1, <2>2, Zenon DEF Free
<1>7. Moves(k)
  BY <1>2, <1>3 DEF Moves, StoredOK, Young, Gone, Over
<1>8. Arrives(t)
  <2>1. Prune(t)'
    BY NoPrune, Zenon DEF Pruning
  <2>2. Own(th'[t]) = {k} /\ OwnOK(t)'
    BY <1>2, Zenon DEF OwnOK, Own
  <2> QED
    BY <1>5, <2>1, <2>2, Zenon DEF Arrives, Loads, Loading, Destroyed, Timely
<1> QED
  BY <1>1, <1>4, <1>6, <1>7, <1>8, ChangeStep, Zenon

LEMMA InitPutStep ==
    ASSUME IInv, NEW t \in Handlers, InitPut(t) PROVE IInv'
<1> PICK k \in Partitions : k = th[t].key
  BY PlaceOf, Zenon
<1> DEFINE v == th[t].version
<1>1. /\ Shape /\ Typed(t) /\ UNCHANGED <<cache, life>> /\ th[t].pc \in {"put_p", "put_o", "put_m"}
      /\ th[t] \in Handler /\ v \in Nat /\ store[k] \in Parts
  BY WorkTyped, PlaceOf, Zenon DEF IInv, InitPut, Shape, Handler
<1>2. th[t].op = "init" /\ Program(t) /\ th[t].doomed = {} /\ Initialised(t)
  BY <1>1, PlaceOf, NotPruning, Zenon DEF IInv, Fresh
<1> DEFINE Put(pc, s) ==
             \/ pc = "put_o" /\ s = [p |-> v, o |-> 0, m |-> 0]
             \/ pc = "put_m" /\ s = [p |-> v, o |-> v, m |-> 0]
             \/ pc = "insert" /\ s = Whole(v)
<1>3. ASSUME NEW pc, NEW s \in Parts, store' = [store EXCEPT ![k] = s], Goto(t, pc), Put(pc, s)
      PROVE  IInv'
  <2>1. /\ th'[t].op = "init" /\ th'[t].key = k /\ th'[t].version = v /\ th'[t].part = th[t].part
        /\ th'[t].pc = pc /\ th'[t].doomed = {} /\ store'[k] = s
    BY <1>1, <1>2, <1>3 DEF Goto, Handler, Shape
  <2>2. Program(t)'
    <3>1. pc \in Places.init /\ pc \notin Pruning \cup {"remove", "put_p"}
      BY <1>3, Zenon DEF Places, Pruning
    <3>2. InitOK(th[t])
      BY <1>2, Zenon DEF Program
    <3>3. v = life[k].version /\ th[t].part = Whole(v)
      BY <1>1, <3>2, Zenon DEF InitOK
    <3>4. InitOK(th[t])'
      BY <1>1, <1>3, <2>1, <3>1, <3>3, Zenon DEF InitOK
    <3> QED
      BY <2>1, <3>1, <3>4, Zenon DEF Program
  <2>3. Initialised(t)'
    BY <1>1, <1>2, <1>3, <2>1, Zenon DEF Initialised, Cached
  <2>4. Over(k) => s = Absent
    BY <1>2, Zenon DEF IInv, Owned, OwnOK, Own, Over
  <2> QED
    BY <1>1, <1>2, <1>3, <2>1, <2>2, <2>3, <2>4, StoreStep, Zenon DEF Pruning
<1>4. CASE th[t].pc = "put_p"
  <2>1. store[k] = [p |-> 0, o |-> 0, m |-> 0]
    BY <1>2, <1>4, Zenon DEF Program, InitOK, Absent
  <2>2. store' = [store EXCEPT ![k] = [p |-> v, o |-> 0, m |-> 0]] /\ Goto(t, "put_o")
    BY <1>1, <1>4, <2>1 DEF InitPut, Shape, Parts
  <2> QED
    BY <1>1, <1>3, <2>2, Zenon DEF Parts
<1>5. CASE th[t].pc = "put_o"
  <2>1. store[k] = [p |-> v, o |-> 0, m |-> 0]
    BY <1>2, <1>5, Zenon DEF Program, InitOK
  <2>2. store' = [store EXCEPT ![k] = [p |-> v, o |-> v, m |-> 0]] /\ Goto(t, "put_m")
    BY <1>1, <1>5, <2>1 DEF InitPut, Shape, Parts
  <2> QED
    BY <1>1, <1>3, <2>2, Zenon DEF Parts
<1>6. CASE th[t].pc = "put_m"
  <2>1. store[k] = [p |-> v, o |-> v, m |-> 0]
    BY <1>2, <1>6, Zenon DEF Program, InitOK
  <2>2. store' = [store EXCEPT ![k] = Whole(v)] /\ Goto(t, "insert")
    BY <1>1, <1>6, <2>1 DEF InitPut, Shape, Parts, StoredMask, Whole
  <2> QED
    BY <1>1, <1>3, <2>2, WholeOK, Zenon
<1> QED
  BY <1>1, <1>4, <1>5, <1>6, Zenon

LEMMA DestroyDelStep ==
    ASSUME IInv, NEW t \in Handlers, DestroyDel(t) PROVE IInv'
<1> PICK k \in Partitions : k = th[t].key
  BY PlaceOf, Zenon
<1>1. /\ Shape /\ Typed(t) /\ UNCHANGED <<cache, life>> /\ th[t].pc \in {"del_p", "del_o", "del_m"}
      /\ th[t] \in Handler /\ store[k] \in Parts
  BY WorkTyped, PlaceOf, Zenon DEF IInv, DestroyDel, Shape
<1>2. th[t].op = "destroy" /\ Program(t) /\ th[t].doomed = {}
  BY <1>1, PlaceOf, NotPruning, Zenon DEF IInv
<1>3. ASSUME NEW pc, NEW s \in Parts, store' = [store EXCEPT ![k] = s], Goto(t, pc), store[k] = Absent => s = Absent,
             \/ pc = "del_o" /\ s.p = 0
             \/ pc = "del_m" /\ s.p = 0 /\ s.o = 0
             \/ pc = "remove" /\ s = Absent
      PROVE  IInv'
  <2>1. th'[t].op = "destroy" /\ th'[t].key = k /\ th'[t].pc = pc /\ th'[t].doomed = {} /\ store'[k] = s
    BY <1>1, <1>2, <1>3 DEF Goto, Handler, Shape
  <2>2. Program(t)'
    <3>1. pc \in Places.destroy /\ pc \notin Pruning
      BY <1>3, Zenon DEF Places, Pruning
    <3>2. DestroyOK(th[t])'
      BY <1>1, <1>2, <1>3, <2>1, <3>1, Zenon DEF Program, DestroyOK
    <3> QED
      BY <2>1, <3>1, <3>2, Zenon DEF Program
  <2>3. Initialised(t)'
    BY <2>1, Zenon DEF Initialised
  <2> QED
    BY <1>1, <1>2, <1>3, <2>1, <2>2, <2>3, StoreStep, Zenon DEF Pruning, Over
<1>4. CASE th[t].pc = "del_p"
  <2> DEFINE s == [store[k] EXCEPT !.p = 0]
  <2>1. store' = [store EXCEPT ![k] = s] /\ Goto(t, "del_o")
    BY <1>1, <1>4, Zenon DEF DestroyDel, Shape, Parts
  <2>2. s \in Parts /\ s.p = 0 /\ (store[k] = Absent => s = Absent)
    BY <1>1 DEF Parts, Absent
  <2> QED
    BY <1>3, <2>1, <2>2, Zenon
<1>5. CASE th[t].pc = "del_o"
  <2> DEFINE s == [store[k] EXCEPT !.o = 0]
  <2>1. store' = [store EXCEPT ![k] = s] /\ Goto(t, "del_m")
    BY <1>1, <1>5, Zenon DEF DestroyDel, Shape, Parts
  <2>2. s \in Parts /\ s.p = 0 /\ s.o = 0 /\ (store[k] = Absent => s = Absent)
    BY <1>1, <1>2, <1>5 DEF Parts, Absent, Program, DestroyOK
  <2> QED
    BY <1>3, <2>1, <2>2, Zenon
<1>6. CASE th[t].pc = "del_m"
  <2> DEFINE s == [store[k] EXCEPT !.m = 0]
  <2>1. store' = [store EXCEPT ![k] = s] /\ Goto(t, "remove")
    BY <1>1, <1>6, Zenon DEF DestroyDel, Shape, Parts
  <2>2. s \in Parts /\ s = Absent
    BY <1>1, <1>2, <1>6 DEF Parts, Absent, Program, DestroyOK
  <2> QED
    BY <1>3, <2>1, <2>2, Zenon
<1> QED
  BY <1>1, <1>4, <1>5, <1>6, Zenon

-----------------------------------------------------------------------------
(* The steps that add a copy.                                              *)

LEMMA InsertCaches ==
    ASSUME Shape, NEW t \in Handlers, ~(Addresses \subseteq Used),
           SetCache(t, Inserted(C(t), th[t].key, th[t].part, th[t].generation)),
           NEW w \in Workers, NEW j \in Cached(w)'
    PROVE  \/ j \in Cached(w) /\ cache'[w].entries[j] = cache[w].entries[j]
           \/ /\ w = WorkerOf[t] /\ j = th[t].key /\ cache'[w].entries[j].part = th[t].part
              /\ th[t].generation = cache[w].generation
<1>1. CASE \A v \in Workers : cache'[v] = cache[v]
  BY <1>1, Zenon DEF Cached
<1>2. CASE Admits(C(t), cache'[WorkerOf[t]], th[t].key, th[t].part, th[t].generation)
  <2>1. CASE w # WorkerOf[t]
    BY <2>1, InsertsKeep, Zenon DEF Cached
  <2>2. CASE w = WorkerOf[t]
    BY <1>2, <2>2 DEF Admits, Cached, C
  <2> QED
    BY <2>1, <2>2, Zenon
<1> QED
  BY <1>1, <1>2, InsertsKeep, Zenon

(* What was cleared stays so: a load that could bring it back carries an   *)
(* older generation.                                                       *)
LEMMA ClearedSpared ==
    ASSUME Shape, NEW t \in Handlers, ~(Addresses \subseteq Used), Only(t),
           SetCache(t, Inserted(C(t), th[t].key, th[t].part, th[t].generation)),
           \A k \in Partitions : ~Loading(th'[t], k),
           NEW k \in Partitions, NEW w \in Workers, Cleared(k, w), k # th[t].key \/ Loading(th[t], k)
    PROVE  Cleared(k, w)'
<1>1. k \notin Cached(w)'
  <2>1. w = WorkerOf[t] /\ k = th[t].key => th[t].generation # cache[w].generation
    <3>1. th[t].generation \in Nat /\ cache[w].generation \in Nat
      BY Zenon DEF Shape, Handler, CacheOK
    <3> QED
      BY <3>1 DEF Cleared
  <2> QED
    BY <2>1, InsertCaches, Zenon DEF Cleared
<1>2. \A v \in Workers : cache'[v].generation = cache[v].generation
  BY InsertsKeep, Zenon
<1> QED
  BY <1>1, <1>2 DEF Cleared, Only, Loading, Cached

(* The partition k that t inserts, and the life of the partitions then.    *)
Admission(t, k) ==
    /\ k = th[t].key /\ (k \in Own(th[t]) \/ Loading(th[t], k))
    /\ \A j \in Partitions : j # k => life'[j] = life[j]
    /\ life'[k].state \notin {"new", "init"}
    /\ \A u \in Handlers : u # t /\ th[u].op \in {"init", "destroy"} => th[u].key # k \/ Loading(th[t], k)
    /\ \A u \in Handlers : u # t /\ th[u].op = "init" => th[u].key # k
    /\ life'[k].state = "live" =>
         /\ th[t].part = Whole(life'[k].version)
         /\ life'[k] = life[k] \/ \A u \in Handlers : k \notin Cached(WorkerOf[u])
    /\ life'[k].state \in {"dead", "ended"} => life'[k] = life[k] /\ Loading(th[t], k)

LEMMA InsertFrame ==
    ASSUME IInv, NEW t \in Handlers, ~(Addresses \subseteq Used), Only(t),
           SetCache(t, Inserted(C(t), th[t].key, th[t].part, th[t].generation)),
           th'[t].pc \in {"served", "ready"},
           NEW k \in Partitions, Admission(t, k)
    PROVE  Fresh' /\ Copies' /\ Clearing'
<1>1. Shape /\ Fresh /\ Copies /\ Clearing
  BY Zenon DEF IInv
<1>2. \A u \in Handlers : WorkerOf[u] \in Workers /\ th[u].key \in Partitions /\ (u # t => th'[u] = th[u])
  BY WindowAssumption, PlaceOf, Zenon DEF Only
<1>3. \A w \in Workers : \A j \in Cached(w)' : j \in Cached(w) \/ j = k
  <2>1. k = th[t].key
    BY Zenon DEF Admission
  <2> QED
    BY <1>1, <2>1, InsertCaches, Zenon
<1>4. Fresh'
  <2>1. \A u \in Handlers : Initialised(u)'
    <3> SUFFICES ASSUME NEW u \in Handlers PROVE Initialised(u)'
      BY Zenon
    <3>1. CASE u = t
      BY <3>1, Zenon DEF Initialised
    <3>2. CASE u # t
      <4>1. th'[u] = th[u] /\ Initialised(u) /\ (th[u].op = "init" => th[u].key # k)
        BY <1>1, <1>2, <3>2, Zenon DEF Fresh, Admission
      <4> QED
        BY <1>2, <1>3, <4>1, Zenon DEF Initialised
    <3> QED
      BY <3>1, <3>2
  <2>2. \A j \in Partitions : Young(j)' => \A w \in Workers : j \notin Cached(w)'
    BY <1>1, <1>3, Zenon DEF Fresh, Young, Admission
  <2> QED
    BY <2>1, <2>2, Zenon DEF Fresh
<1>5. Copies'
  <2> SUFFICES ASSUME NEW u \in Handlers, NEW j \in Cached(WorkerOf[u])', life'[j].state = "live"
               PROVE  cache'[WorkerOf[u]].entries[j].part = Whole(life'[j].version)
    BY Zenon DEF Copies, C
  <2>1. CASE j \in Cached(WorkerOf[u]) /\ cache'[WorkerOf[u]].entries[j] = cache[WorkerOf[u]].entries[j]
    <3>1. j \in Partitions /\ life'[j] = life[j]
      <4>1. j \in Partitions
        BY <1>1, <1>2, <2>1, Zenon DEF Shape, CacheOK, Cached
      <4> QED
        BY <2>1, <4>1, Zenon DEF Admission
    <3> QED
      BY <1>1, <2>1, <3>1, Zenon DEF Copies, C
  <2>2. CASE j = k /\ cache'[WorkerOf[u]].entries[j].part = th[t].part
    BY <2>2, Zenon DEF Admission
  <2>3. k = th[t].key
    BY Zenon DEF Admission
  <2> QED
    BY <1>1, <1>2, <2>1, <2>2, <2>3, InsertCaches
<1>6. \A j \in Partitions : ~Loading(th'[t], j)
  BY Zenon DEF Loading
<1>7. \A w \in Workers : \A j \in Partitions : Cleared(j, w) /\ (j # k \/ Loading(th[t], j)) => Cleared(j, w)'
  <2>1. k = th[t].key
    BY Zenon DEF Admission
  <2> QED
    BY <1>1, <1>6, <2>1, ClearedSpared, Zenon
<1>8. Clearing'
  <2>1. ASSUME NEW u \in Handlers PROVE Destroyed(u)'
    <3>1. CASE u # t /\ th[u].op = "destroy" /\ th[u].pc \in Pruning
      <4>1. Cleared(th[u].key, WorkerOf[u])
        BY <1>1, <3>1, Zenon DEF Clearing, Destroyed
      <4>2. \A j \in Partitions : j = th[u].key => Cleared(j, WorkerOf[u])'
        BY <1>2, <1>7, <3>1, <4>1, Zenon DEF Admission
      <4> QED
        BY <1>2, <3>1, <4>2, Zenon DEF Destroyed, Cleared, Cached, Loading
    <3> QED
      BY <1>2, <3>1, Zenon DEF Destroyed, Pruning
  <2>2. ASSUME NEW j \in Partitions, Gone(j)' PROVE Cleared(j, life[j].worker)'
    <3>1. Gone(j) /\ life'[j] = life[j] /\ (j # k \/ Loading(th[t], j))
      BY <2>2, Zenon DEF Gone, Admission
    <3>2. Cleared(j, life[j].worker) /\ life[j].worker \in Workers
      BY <1>1, <3>1, Zenon DEF Clearing, Gone
    <3>3. \A w \in Workers : w = life[j].worker => Cleared(j, w)'
      BY <1>7, <3>1, <3>2, Zenon
    <3> QED
      BY <3>1, <3>2, <3>3, Zenon DEF Cleared, Cached, Loading
  <2>3. ASSUME NEW u \in Handlers PROVE Timely(u)'
    <3>1. CASE u # t
      <4>1. th'[u] = th[u] /\ Timely(u)
        BY <1>1, <1>2, <3>1, Zenon DEF Clearing
      <4>2. C(u)'.generation = C(u).generation
        BY <1>1, <1>2, InsertsKeep, Zenon DEF C
      <4> QED
        BY <4>1, <4>2, Zenon DEF Timely
    <3> QED
      BY <3>1, Zenon DEF Timely
  <2> QED
    BY <2>1, <2>2, <2>3, Zenon DEF Clearing
<1> QED
  BY <1>4, <1>5, <1>8, Zenon

LEMMA LoadInsertStep ==
    ASSUME IInv, NEW t \in Handlers, LoadInsert(t) PROVE IInv'
<1> PICK k \in Partitions : k = th[t].key
  BY PlaceOf, Zenon
<1>1. /\ Shape /\ Typed(t) /\ Only(t) /\ UNCHANGED <<store, life>> /\ th[t].pc = "insert" /\ th[t].op = "window"
      /\ th[t] \in Handler /\ WindowOK(th[t]) /\ th[t].doomed = {} /\ ~(Addresses \subseteq Used)
      /\ SetCache(t, Inserted(C(t), th[t].key, th[t].part, th[t].generation))
  BY WorkTyped, TypedOnly, PlaceOf, NotPruning, Zenon DEF IInv, LoadInsert, Program
<1>2. Keeps
  BY <1>1, InsertsKeep, Zenon
<1>3. /\ th'[t].op = "window" /\ th'[t].key = th[t].key /\ th'[t].version = th[t].version
      /\ th'[t].part = th[t].part /\ th'[t].pc = "served" /\ th'[t].doomed = {}
  BY <1>1 DEF LoadInsert, Goto, Handler, Shape
<1>4. Shape' /\ Owned' /\ Stored' /\ Programs'
  <2>1. Own(th'[t]) \subseteq Own(th[t]) /\ OwnOK(t)'
    BY <1>3, Zenon DEF OwnOK, Own
  <2>2. Program(t)'
    <3>1. th'[t].pc \in Places[th'[t].op]
      BY <1>3 DEF Places
    <3> QED
      BY <1>1, <1>3, <3>1, Zenon DEF Program, WindowOK
  <2> QED
    BY <1>1, <1>2, <2>1, <2>2, StayShape, Zenon
<1>5. Fresh' /\ Copies' /\ Clearing'
  <2>1. Loading(th[t], k)
    BY <1>1, Zenon DEF Loading
  <2>2. \A u \in Handlers : th[u].op = "init" => life[th[u].key].state = "init"
    BY Zenon DEF IInv, Owned, OwnOK, Own
  <2>3. life[k].state \notin {"new", "init"} /\ (life[k].state = "live" => th[t].part = Whole(life[k].version))
    BY <1>1, Zenon DEF WindowOK
  <2>4. \A j \in Partitions : life'[j] = life[j]
    BY <1>1, Zenon
  <2>5. \A u \in Handlers : u # t /\ th[u].op = "init" => th[u].key # k
    BY <2>2, <2>3, Zenon
  <2>6. Admission(t, k)
    BY <2>1, <2>3, <2>4, <2>5, Zenon DEF Admission
  <2> QED
    BY <1>1, <1>3, <2>6, InsertFrame, Zenon
<1>6. Prunes'
  <2>1. Prune(t)'
    BY <1>3, NoPrune, Zenon
  <2>2. \A j \in Partitions : life'[j] = life[j] /\ life[j].version \in Nat /\ Over(j)' = Over(j)
    BY <1>1, Zenon DEF Shape, Life, Over
  <2> QED
    BY <1>1, <1>2, <2>1, <2>2, PruneFrame
<1> QED
  BY <1>4, <1>5, <1>6 DEF IInv

(* A partition that is about to become alive is cached by no worker: not   *)
(* by its own, which removed it, and, where there are others, not by       *)
(* another, since it is the first time.                                    *)
LEMMA NotYetCached ==
    ASSUME IInv, NEW t \in Handlers, th[t].op = "init", th[t].pc = "insert", NEW u \in Handlers
    PROVE  th[t].key \notin Cached(WorkerOf[u])
<1>1. th[t].key \in Partitions /\ th[t].key \in Own(th[t])
  BY PlaceOf, Zenon DEF Own
<1>2. /\ life[th[t].key].state = "init" /\ life[th[t].key].version \in Nat /\ StoredOK(th[t].key)
      /\ th[t].key \notin Cached(WorkerOf[t]) /\ WorkerOf[u] \in Workers
  BY <1>1, WindowAssumption DEF IInv, Owned, OwnOK, Shape, Life, Stored, Fresh, Initialised
<1>3. CASE WorkerOf[u] = WorkerOf[t]
  BY <1>2, <1>3, Zenon
<1>4. CASE Inits[th[t].key] <= 1
  <2>1. Inits[th[t].key] \in Nat
    BY <1>1, WindowAssumption, Zenon
  <2>2. life[th[t].key].version = 1
    BY <1>2, <1>4, <2>1 DEF StoredOK
  <2> QED
    BY <1>1, <1>2, <2>2, Zenon DEF IInv, Fresh, Young
<1> QED
  BY <1>1, <1>3, <1>4, Zenon DEF IInv, ReuseStaysHome

LEMMA InitInsertStep ==
    ASSUME IInv, NEW t \in Handlers, InitInsert(t) PROVE IInv'
<1> PICK k \in Partitions : k = th[t].key
  BY PlaceOf, Zenon
<1>1. /\ Shape /\ Owned /\ Stored /\ Programs /\ Typed(t) /\ Only(t) /\ UNCHANGED store
      /\ th[t].pc = "insert" /\ th[t].op = "init" /\ InitOK(th[t]) /\ ~(Addresses \subseteq Used)
      /\ SetCache(t, Inserted(C(t), th[t].key, th[t].part, th[t].generation))
  BY WorkTyped, TypedOnly, PlaceOf, Zenon DEF IInv, InitInsert, Program
<1>2. k \in Own(th[t]) /\ life[k].state = "init" /\ StoredOK(k) /\ life[k] \in Life
      /\ th[t].version = life[k].version /\ store[k] = Whole(life[k].version) /\ th[t].part = Whole(life[k].version)
  BY <1>1, Zenon DEF Own, Owned, OwnOK, Stored, Shape, InitOK
<1>3. Keeps
  BY <1>1, InsertsKeep, Zenon
<1>4. /\ life'[k] = [life[k] EXCEPT !.state = "live"]
      /\ \A j \in Partitions \ {k} : life'[j] = life[j]
      /\ life' \in [Partitions -> Life]
  BY <1>1, <1>2, Zenon DEF InitInsert, Shape, Life
<1>5. life'[k].version = life[k].version /\ life'[k].state = "live" /\ life[k].version \in Nat
  BY <1>2, <1>4, Zenon DEF Life
<1>6. th'[t] = IdleHandler
  BY <1>1, Zenon DEF InitInsert, Done, Shape
<1>7. Shape'
  BY <1>1, <1>3, <1>4, ShapeFrame, Zenon DEF Shape
<1>8. \A u \in Handlers : u # t => k \notin Own(th[u])
  BY <1>2, FreeOf, Zenon
<1>9. Arrives(t)
  BY <1>1, <1>6, IdleArrives, Zenon
<1>10. Owned' /\ Stored' /\ Programs'
  <2>1. Touches({k}) /\ Free(t, {k})
    <3>1. \A u \in Handlers : ~(th[u].op = "window" /\ th[u].key = k)
      BY <1>2, NotCalled, Zenon
    <3> QED
      BY <1>1, <1>4, <1>8, <3>1, Zenon DEF Touches, Free
  <2>2. StoredOK(k)'
    BY <1>1, <1>2, <1>5, Zenon DEF StoredOK
  <2> QED
    BY <1>1, <1>9, <2>1, <2>2, MoveKeeps, Zenon DEF Arrives
<1>11. \A u \in Handlers : k \notin Cached(WorkerOf[u])
  BY <1>1, NotYetCached, Zenon
<1>12. Fresh' /\ Copies' /\ Clearing'
  <2>1. th'[t].pc = "ready"
    BY <1>6 DEF IdleHandler
  <2>2. \A u \in Handlers : u # t /\ th[u].op \in {"init", "destroy"} => th[u].key # k
    BY <1>8, Zenon DEF Own
  <2>3. th[t].part = Whole(life'[k].version) /\ \A j \in Partitions : j # k => life'[j] = life[j]
    BY <1>2, <1>4, <1>5, Zenon
  <2>4. Admission(t, k)
    BY <1>2, <1>5, <1>11, <2>2, <2>3, Zenon DEF Admission
  <2> QED
    BY <1>1, <2>1, <2>4, InsertFrame, Zenon
<1>13. Prunes'
  <2>1. ASSUME NEW j \in Partitions
        PROVE  /\ life'[j].version \in Nat /\ life[j].version <= life'[j].version
               /\ life'[j].version = life[j].version /\ Over(j) => Over(j)'
               /\ life'[j].state = "live" =>
                    life[j].state = "live" \/ \A u \in Handlers : j \notin Cached(WorkerOf[u])
    <3>1. CASE j = k
      <4>1. life'[k].version \in Nat /\ life[k].version <= life'[k].version
        BY <1>5
      <4> QED
        BY <1>2, <1>11, <3>1, <4>1, Zenon DEF Over
    <3>2. CASE j # k
      <4>1. life'[j] = life[j] /\ life[j].version \in Nat
        BY <1>1, <1>4, <3>2, Zenon DEF Shape, Life
      <4> QED
        BY <1>1, <4>1 DEF Over
    <3> QED
      BY <3>1, <3>2, Zenon
  <2>2. Prune(t)'
    BY <1>9 DEF Arrives
  <2> QED
    BY <1>1, <1>3, <2>1, <2>2, PruneFrame, Zenon
<1> QED
  BY <1>7, <1>10, <1>12, <1>13 DEF IInv

-----------------------------------------------------------------------------
(* The theorems.                                                           *)

LEMMA InitIInv == ReuseStaysHome /\ WindowsInit => IInv
<1> SUFFICES ASSUME ReuseStaysHome, WindowsInit PROVE IInv
  OBVIOUS
<1>1. /\ store = [k \in Partitions |-> Absent] /\ th = [t \in Handlers |-> IdleHandler]
      /\ life = [k \in Partitions |-> [version |-> 0, state |-> "new", worker |-> NoWorker]]
      /\ cache = [w \in Workers |-> [entries |-> << >>, order |-> << >>, bytes |-> 0, generation |-> 0]]
  BY DEF WindowsInit
<1>2. NoWorker \in Workers /\ Absent \in Parts
  BY WindowAssumption DEF NoWorker, Absent, Parts
<1>3. \A w \in Workers : DOMAIN cache[w].entries = {} /\ cache[w].generation = 0
  BY <1>1
<1>4. Shape
  <2>1. \A w \in Workers : CacheOK(cache[w])
    BY <1>1, <1>3, Zenon DEF CacheOK, CacheFields
  <2>2. life \in [Partitions -> Life]
    BY <1>1, <1>2, Zenon DEF Life
  <2> QED
    BY <1>1, <1>2, <2>1, <2>2, IdleHandlerOK, Zenon DEF Shape
<1>5. \A t \in Handlers : th[t].op = "none" /\ th[t].pc = "ready" /\ th[t].doomed = {}
  BY <1>1, Zenon DEF IdleHandler
<1>6. \A k \in Partitions : life[k].version = 0 /\ life[k].state = "new" /\ store[k] = Absent /\ Inits[k] \in Nat
  BY <1>1, WindowAssumption, Zenon
<1>7. Owned /\ Stored /\ Programs
  BY <1>5, <1>6 DEF Owned, OwnOK, Own, Stored, StoredOK, Programs, Program, Places
<1>8. Fresh /\ Copies
  BY <1>3, <1>5, WindowAssumption, Zenon DEF Fresh, Initialised, Copies, Cached
<1>9. Clearing /\ Prunes
  BY <1>5, <1>6, Zenon DEF Clearing, Destroyed, Gone, Timely, Prunes, Prune, Victim
<1> QED
  BY <1>4, <1>7, <1>8, <1>9 DEF IInv

LEMMA NextIInv == IInv /\ [WindowsNext]_windowVars => IInv'
<1> SUFFICES ASSUME IInv, [WindowsNext]_windowVars PROVE IInv'
  OBVIOUS
<1>1. CASE UNCHANGED windowVars
  <2> USE <1>1 DEF windowVars
  <2>1. Shape' /\ Stored'
    BY Zenon DEF IInv, Shape, Stored, StoredOK
  <2>2. Owned'
    BY DEF IInv, Owned, OwnOK, Own, ExecKeys
  <2>3. Programs'
    <3> SUFFICES ASSUME NEW t \in Handlers PROVE Program(t)'
      BY Zenon DEF Programs
    <3>1. Program(t)
      BY Zenon DEF IInv, Programs
    <3>2. InitOK(th[t])' = InitOK(th[t]) /\ WindowOK(th[t])' = WindowOK(th[t])
      BY Zenon DEF InitOK, WindowOK
    <3>3. DestroyOK(th[t])' = DestroyOK(th[t]) /\ EndOK(th[t])' = EndOK(th[t])
      BY Zenon DEF DestroyOK, EndOK, ExecKeys
    <3> QED
      BY <3>1, <3>2, <3>3, Zenon DEF Program
  <2>4. Fresh' /\ Copies'
    BY Zenon DEF IInv, Fresh, Young, Initialised, Copies, Cached, C
  <2>5. Clearing'
    BY Zenon DEF IInv, Clearing, Destroyed, Gone, Timely, Cleared, Loading, Cached, C
  <2>6. Prunes'
    BY Zenon DEF IInv, Prunes, Prune, Victim, Doom, Over, SameEntry, C
  <2> QED
    BY <2>1, <2>2, <2>3, <2>4, <2>5, <2>6 DEF IInv
<1>2. ASSUME NEW k \in Partitions, DestroyElsewhere(k) \/ ElsewhereDel(k) PROVE IInv'
  BY <1>2, DestroyElsewhereStep, ElsewhereDelStep
<1>3. ASSUME NEW t \in Handlers, NEW k \in Partitions,
             WindowInit(t, k) \/ Window(t, k) \/ WindowDestroy(t, k) \/ EndExecution(t, k)
      PROVE  IInv'
  BY <1>3, WindowInitStep, WindowCallStep, WindowDestroyStep, EndExecutionStep
<1>4. ASSUME NEW t \in Handlers, PruneStart(t) \/ PruneCheck(t) \/ PruneDrop(t) \/ PruneDone(t) PROVE IInv'
  BY <1>4, PruneStartStep, PruneCheckStep, PruneDropStep, PruneDoneStays, PruneDoneDestroys
<1>5. ASSUME NEW t \in Handlers, InitRemove(t) \/ InitInvalid(t) \/ InitPut(t) \/ InitInsert(t) PROVE IInv'
  BY <1>5, InitRemoveStep, InitInvalidStep, InitPutStep, InitInsertStep
<1>6. ASSUME NEW t \in Handlers,
             Lookup(t) \/ LookupAgain(t) \/ LoadGet(t) \/ LoadInsert(t) \/ Return(t)
      PROVE  IInv'
  BY <1>6, LookupStep, LookupAgainStep, LoadGetStep, LoadInsertStep, ReturnStep
<1>7. ASSUME NEW t \in Handlers, DestroyDel(t) \/ DestroyRemove(t) \/ EndClear(t) PROVE IInv'
  BY <1>7, DestroyDelStep, DestroyRemoveStep, EndClearStep
<1> QED
  BY <1>1, <1>2, <1>3, <1>4, <1>5, <1>6, <1>7, Zenon DEF WindowsNext

(* A window call over a partition that stays alive is served the three     *)
(* parts of the initialisation it was made for, whether the copy came from *)
(* the cache or from storage, and a partition that a worker destroyed      *)
(* leaves no copy in that worker, although loads were running.  An id is   *)
(* used once, or all its calls come to one worker.                         *)
THEOREM WindowsSound == ReuseStaysHome => (WindowsSpec => []WindowSound)
<1>1. IInv => WindowSound
  <2> SUFFICES ASSUME IInv PROVE WindowSound
    OBVIOUS
  <2>1. ServesCurrent
    <3> SUFFICES ASSUME NEW t \in Handlers, th[t].pc = "served", life[th[t].key].state = "live"
                 PROVE  th[t].part = Whole(th[t].version)
      BY Zenon DEF ServesCurrent
    <3> QED
      BY PlaceOf, Zenon DEF Program, WindowOK
  <2>2. DestroyedNotRetained
    BY Zenon DEF IInv, Clearing, Gone, Cleared, Cached, DestroyedNotRetained
  <2> QED
    BY <2>1, <2>2 DEF WindowSound
<1> QED
  BY <1>1, InitIInv, NextIInv, PTL DEF WindowsSpec

(* Pruning, which asks storage without the lock, never takes the copy of a *)
(* partition that is alive, and when it is done none of the copies that    *)
(* were dead when it began is left, unless the partition was initialised   *)
(* again.  An id is used once, or all its calls come to one worker.        *)
THEOREM WindowPrunesJustified == ReuseStaysHome => (WindowsSpec => PrunesJustified)
<1>1. IInv /\ [WindowsNext]_windowVars => [PruneSparesReplacement /\ Reclaimed]_windowVars
  <2> SUFFICES ASSUME IInv PROVE PruneSparesReplacement /\ Reclaimed
    OBVIOUS
  <2>1. PruneSparesReplacement
    <3> SUFFICES ASSUME NEW t \in Handlers, PruneDrop(t), NEW k \in Cached(WorkerOf[t]), life[k].state = "live"
                 PROVE  k \in Cached(WorkerOf[t])'
      BY Zenon DEF PruneSparesReplacement, Cached, C
    <3>1. Shape /\ Victim(t) /\ th[t].pc = "dead"
      BY Zenon DEF IInv, Prunes, Prune, PruneDrop
    <3>2. CASE SameEntry(C(t), th[t].victim)
      <4>1. SetCache(t, Without(Bumped(C(t)), {th[t].victim[1]})) /\ k # th[t].victim[1]
        BY <3>1, <3>2, Zenon DEF PruneDrop, Victim
      <4> QED
        BY <3>1, <4>1, RemovesCold
    <3>3. CASE ~SameEntry(C(t), th[t].victim)
      BY <3>3, Zenon DEF PruneDrop, Cached
    <3> QED
      BY <3>2, <3>3
  <2>2. Reclaimed
    <3> SUFFICES ASSUME NEW t \in Handlers, PruneDone(t), NEW x \in th[t].doomed, life[x[1]].version = x[3]
                 PROVE  ~SameEntry(C(t), x)
      BY Zenon DEF Reclaimed, SameEntry
    <3> QED
      BY Zenon DEF IInv, Prunes, Prune, Doom, PruneDone
  <2> QED
    BY <2>1, <2>2
<1> QED
  BY <1>1, InitIInv, NextIInv, PTL DEF WindowsSpec, PrunesJustified
=============================================================================
