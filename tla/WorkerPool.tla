----------------------------- MODULE WorkerPool -----------------------------
(***************************************************************************)
(* vgi-client/src/pool.rs: the pool of idle worker connections.            *)
(*                                                                         *)
(* Callers run on their own threads.  Every operation on the idle map is   *)
(* one step, because the code does it under one mutex; `connect` runs      *)
(* outside the mutex and is a step of its own.                             *)
(*                                                                         *)
(* A bucket of the idle map is the set of connections in state "idle" with *)
(* its key.  `release` stamps `since` under the mutex, so the vector the   *)
(* code keeps is ordered by `since`, and its last entry is one with the    *)
(* greatest `since`.                                                       *)
(*                                                                         *)
(* A key of AuthKeys carries the address of the caller's auth object.      *)
(* auth[k] numbers the objects that have lived at that address.            *)
(*                                                                         *)
(* An operator Mut_X is X with a fault; TLC finds the property that the    *)
(* fault breaks.                                                           *)
(***************************************************************************)
EXTENDS Integers, FiniteSets

CONSTANTS Callers, Conns, Keys, AuthKeys,
          None,         \* no connection, no key
          MaxIdle,      \* PoolConfig::max_idle
          IdleTimeout,  \* PoolConfig::idle_timeout
          MaxTime,      \* bound: how far the clock runs
          MaxAcquires,  \* bound: how many acquires are made
          MaxAuth       \* bound: how many auth objects an address sees

ASSUME PoolAssumption ==
    /\ AuthKeys \subseteq Keys
    /\ None \notin Conns \cup Keys
    /\ IsFiniteSet(Conns) /\ IsFiniteSet(Callers)
    /\ {MaxIdle, IdleTimeout, MaxTime, MaxAcquires, MaxAuth} \subseteq Nat

VARIABLES conn,     \* the connections and where each one is
          caller,   \* the callers and what each one holds
          auth,     \* the auth object living at each key's address
          now,      \* the clock
          stats,    \* PoolStats, with the closes no counter records
          dropped   \* the last Arc<PoolInner> is gone

vars == <<conn, caller, auth, now, stats, dropped>>

ConnState == [state : {"new", "out", "idle", "closed"}, key : Keys \cup {None},
              auth : Nat, since : Nat, sink : BOOLEAN, reusable : BOOLEAN]

CallerState == [pc : {"ready", "connecting", "using"}, key : Keys \cup {None},
                auth : Nat, conn : Conns \cup {None}, poisoned : BOOLEAN]

Ready == [pc |-> "ready", key |-> None, auth |-> 0, conn |-> None, poisoned |-> FALSE]

Stats == [hits : Nat, misses : Nat, failed : Nat, evicted_idle : Nat,
          evicted_full : Nat, discarded_poisoned : Nat, other : Nat]

TypeOK ==
    /\ conn \in [Conns -> ConnState]
    /\ caller \in [Callers -> CallerState]
    /\ auth \in [Keys -> Nat]
    /\ now \in Nat
    /\ stats \in Stats
    /\ dropped \in BOOLEAN

Init ==
    /\ conn = [c \in Conns |-> [state |-> "new", key |-> None, auth |-> 0,
                                since |-> 0, sink |-> FALSE, reusable |-> TRUE]]
    /\ caller = [p \in Callers |-> Ready]
    /\ auth = [k \in Keys |-> 0]
    /\ now = 0
    /\ stats = [hits |-> 0, misses |-> 0, failed |-> 0, evicted_idle |-> 0,
                evicted_full |-> 0, discarded_poisoned |-> 0, other |-> 0]
    /\ dropped = FALSE
-----------------------------------------------------------------------------
PoolingEnabled == MaxIdle > 0 /\ IdleTimeout > 0

Idle == {c \in Conns : conn[c].state = "idle"}

Mut_Bucket(k) == Idle

Bucket(k) == {c \in Idle : conn[c].key = k}

Live(c) == now - conn[c].since <= IdleTimeout

Stale == {c \in Idle : ~Live(c)}

IsNewest(c, k) ==
    c \in Bucket(k) /\ \A d \in Bucket(k) : conn[d].since <= conn[c].since

Mut_Taken(c) == conn

Taken(c) == [conn EXCEPT ![c].state = "out"]

Close(S) == [c \in Conns |-> IF c \in S THEN [conn[c] EXCEPT !.state = "closed"]
                                        ELSE conn[c]]

MayAcquire(p) ==
    /\ ~dropped
    /\ caller[p].pc = "ready"
    /\ stats.hits + stats.misses < MaxAcquires

(* The newest entry is live: it is the one handed out. *)
AcquireHit(p, k) ==
    /\ MayAcquire(p)
    /\ PoolingEnabled
    /\ \E c \in Bucket(k) :
          /\ IsNewest(c, k)
          /\ Live(c)
          /\ conn' = Taken(c)
          /\ caller' = [caller EXCEPT ![p] = [pc |-> "using", key |-> k, conn |-> c,
                                              auth |-> auth[k], poisoned |-> FALSE]]
    /\ stats' = [stats EXCEPT !.hits = @ + 1]
    /\ UNCHANGED <<auth, now, dropped>>

(* The newest entry, so every entry, is past the timeout: the loop pops and *)
(* closes them all, and the caller goes on to connect.                      *)
AcquireMiss(p, k) ==
    /\ MayAcquire(p)
    /\ PoolingEnabled => Bucket(k) \subseteq Stale
    /\ conn' = Close(Bucket(k))
    /\ caller' = [caller EXCEPT ![p] = [pc |-> "connecting", key |-> k, conn |-> None,
                                        auth |-> auth[k], poisoned |-> FALSE]]
    /\ stats' = [stats EXCEPT !.misses = @ + 1,
                              !.evicted_idle = @ + Cardinality(Bucket(k))]
    /\ UNCHANGED <<auth, now, dropped>>

Connect(p) ==
    /\ caller[p].pc = "connecting"
    /\ \E c \in Conns :
          /\ conn[c].state = "new"
          /\ conn' = [conn EXCEPT ![c] =
                        [state |-> "out", key |-> caller[p].key, since |-> now,
                         auth |-> caller[p].auth, sink |-> FALSE, reusable |-> TRUE]]
          /\ caller' = [caller EXCEPT ![p].pc = "using", ![p].conn = c]
    /\ UNCHANGED <<auth, now, stats, dropped>>

ConnectFail(p) ==
    /\ caller[p].pc = "connecting"
    /\ caller' = [caller EXCEPT ![p] = Ready]
    /\ stats' = [stats EXCEPT !.failed = @ + 1]
    /\ UNCHANGED <<conn, auth, now, dropped>>

(* PooledClient::poison, and `with` on an error. *)
Poison(p) ==
    /\ caller[p].pc = "using"
    /\ caller' = [caller EXCEPT ![p].poisoned = TRUE]
    /\ UNCHANGED <<conn, auth, now, stats, dropped>>

(* An exchange stream that ends on an error marks its own connection. *)
BreakExchange(p) ==
    /\ caller[p].pc = "using"
    /\ conn' = [conn EXCEPT ![caller[p].conn].reusable = FALSE]
    /\ UNCHANGED <<caller, auth, now, stats, dropped>>

(* The borrower routes the worker's log messages to itself. *)
SetSink(p) ==
    /\ caller[p].pc = "using"
    /\ conn' = [conn EXCEPT ![caller[p].conn].sink = TRUE]
    /\ UNCHANGED <<caller, auth, now, stats, dropped>>

Unusable(p) == caller[p].poisoned \/ ~conn[caller[p].conn].reusable

Mut_Full == Cardinality(Idle) > MaxIdle

Full == Cardinality(Idle) >= MaxIdle

Mut_Returned(c) == [conn[c] EXCEPT !.state = "idle", !.since = now]

Returned(c) == [conn[c] EXCEPT !.state = "idle", !.since = now, !.sink = FALSE]

(* Drop of a PooledClient: closed when unusable, when pooling is off, and   *)
(* when the pool is full; otherwise reset and pushed on its bucket.         *)
DropClient(p) ==
    /\ caller[p].pc = "using"
    /\ LET c == caller[p].conn
           keep == ~Unusable(p) /\ PoolingEnabled /\ ~Full
       IN  /\ conn' = IF keep THEN [conn EXCEPT ![c] = Returned(c)] ELSE Close({c})
           /\ stats' = CASE keep -> stats
                         [] Unusable(p) ->
                              [stats EXCEPT !.discarded_poisoned = @ + 1]
                         [] ~Unusable(p) /\ PoolingEnabled /\ Full ->
                              [stats EXCEPT !.evicted_full = @ + 1]
                         [] OTHER -> [stats EXCEPT !.other = @ + 1]
    /\ caller' = [caller EXCEPT ![p] = Ready]
    /\ UNCHANGED <<auth, now, dropped>>

Flush ==
    /\ ~dropped
    /\ conn' = Close(Idle)
    /\ stats' = [stats EXCEPT !.other = @ + Cardinality(Idle)]
    /\ UNCHANGED <<caller, auth, now, dropped>>

Mut_Reap ==
    /\ ~dropped
    /\ conn' = Close(Stale)
    /\ UNCHANGED <<caller, auth, now, stats, dropped>>

Reap ==
    /\ ~dropped
    /\ conn' = Close(Stale)
    /\ stats' = [stats EXCEPT !.evicted_idle = @ + Cardinality(Stale)]
    /\ UNCHANGED <<caller, auth, now, dropped>>

(* PoolInner::drop.  A PooledClient holds an Arc of the pool, so it runs    *)
(* only once none is left.                                                  *)
DropPool ==
    /\ ~dropped
    /\ \A p \in Callers : caller[p].pc = "ready"
    /\ dropped' = TRUE
    /\ conn' = Close(Idle)
    /\ stats' = [stats EXCEPT !.other = @ + Cardinality(Idle)]
    /\ UNCHANGED <<caller, auth, now>>

(* A connection made with an auth object, and the call that is making one,  *)
(* own an Arc of it.                                                        *)
Retained(k) ==
    \/ \E c \in Conns : /\ conn[c].state \in {"out", "idle"}
                        /\ conn[c].key = k /\ conn[c].auth = auth[k]
    \/ \E p \in Callers : /\ caller[p].pc = "connecting"
                          /\ caller[p].key = k /\ caller[p].auth = auth[k]

(* The host lets go of an auth object and, once nothing owns it, another    *)
(* one is allocated at the same address.                                    *)
ReplaceAuth(k) ==
    /\ k \in AuthKeys
    /\ auth[k] < MaxAuth
    /\ ~Retained(k)
    /\ auth' = [auth EXCEPT ![k] = @ + 1]
    /\ UNCHANGED <<conn, caller, now, stats, dropped>>

Tick ==
    /\ now < MaxTime
    /\ now' = now + 1
    /\ UNCHANGED <<conn, caller, auth, stats, dropped>>

Next ==
    \/ \E p \in Callers, k \in Keys : AcquireHit(p, k) \/ AcquireMiss(p, k)
    \/ \E p \in Callers : \/ Connect(p) \/ ConnectFail(p) \/ Poison(p)
                          \/ BreakExchange(p) \/ SetSink(p) \/ DropClient(p)
    \/ Flush \/ Reap \/ DropPool \/ Tick
    \/ \E k \in Keys : ReplaceAuth(k)

Spec == Init /\ [][Next]_vars
-----------------------------------------------------------------------------
Using(p) == caller[p].pc = "using"

(* A connection is in the hands of at most one caller, and one that a       *)
(* caller holds is in no bucket (take_idle pops it, Drop takes it).         *)
SoleOwner ==
    /\ \A p \in Callers : Using(p) => /\ caller[p].conn \in Conns
                                      /\ conn[caller[p].conn].state = "out"
    /\ \A p, q \in Callers :
          Using(p) /\ Using(q) /\ caller[p].conn = caller[q].conn => p = q

(* What waits in the pool is fit for the next borrower: no broken exchange  *)
(* and no log sink of the previous one (PooledClient::drop).                *)
IdleIsClean == \A c \in Idle : conn[c].reusable /\ ~conn[c].sink

(* A caller holds a connection made for its key and, although the key knows *)
(* the auth object by its address alone, with the auth object it asked for. *)
RightScope ==
    \A p \in Callers : Using(p) => /\ conn[caller[p].conn].key = caller[p].key
                                   /\ conn[caller[p].conn].auth = caller[p].auth

(* What makes RightScope inductive: a connection that is not closed, and a  *)
(* call that is connecting, keep their auth object at its address.          *)
ScopeRetained ==
    /\ \A c \in Conns : conn[c].state \in {"idle", "out"} =>
          conn[c].key \in Keys /\ conn[c].auth = auth[conn[c].key]
    /\ \A p \in Callers : caller[p].pc = "connecting" =>
          caller[p].key \in Keys /\ caller[p].auth = auth[caller[p].key]

(* Concurrent returns never take the idle set past max_idle.                *)
WithinCapacity == Cardinality(Idle) <= MaxIdle

In(s) == {c \in Conns : conn[c].state = s}

Connecting == {p \in Callers : caller[p].pc = "connecting"}

(* Every connection that was opened is in a caller's hands, in the pool, or *)
(* counted as closed; every miss opened one, failed, or is connecting.      *)
CountersBalance ==
    /\ stats.misses = stats.failed + Cardinality(In("out")) + Cardinality(In("idle"))
                      + Cardinality(In("closed")) + Cardinality(Connecting)
    /\ Cardinality(In("closed")) = stats.evicted_idle + stats.evicted_full
                                   + stats.discarded_poisoned + stats.other

(* The pool's books: what is idle is fit for reuse and within max_idle,    *)
(* and the counters account for every connection (release, reap,           *)
(* PoolStats).                                                             *)
PoolBooks == IdleIsClean /\ WithinCapacity /\ CountersBalance
=============================================================================
