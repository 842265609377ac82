-------------------------- MODULE WorkerPoolProofs --------------------------
(***************************************************************************)
(* For any set of callers, connections and keys: a connection is in one    *)
(* pair of hands, a caller never gets one made for another key or with     *)
(* another auth object, what is idle is fit for reuse and within max_idle, *)
(* and the counters account for every connection.                          *)
(***************************************************************************)
EXTENDS WorkerPool, FiniteSetTheorems, TLAPS

Scoped == TypeOK /\ SoleOwner /\ ScopeRetained /\ RightScope

LEMMA IdleFinite ==
    ASSUME NEW S \in SUBSET Conns
    PROVE  Cardinality(S) \in Nat
BY PoolAssumption, FS_Subset, FS_CardinalityType, Zenon

LEMMA CloseType ==
    ASSUME TypeOK, NEW S \in SUBSET Conns
    PROVE  Close(S) \in [Conns -> ConnState]
BY DEF TypeOK, Close, ConnState

LEMMA ReadyType == Ready \in CallerState
BY DEF Ready, CallerState

LEMMA TypeInit == Init => TypeOK
<1> SUFFICES ASSUME Init PROVE TypeOK
  OBVIOUS
<1>1. conn \in [Conns -> ConnState]
  BY Zenon DEF Init, ConnState
<1>2. caller \in [Callers -> CallerState]
  BY ReadyType, Zenon DEF Init
<1>3. stats \in Stats
  BY Zenon DEF Init, Stats
<1> QED
  BY <1>1, <1>2, <1>3, Zenon DEF Init, TypeOK

(* Every action keeps the types of the variables. *)
LEMMA TypeStep == TypeOK /\ [Next]_vars => TypeOK'
<1> SUFFICES ASSUME TypeOK, [Next]_vars PROVE TypeOK'
  OBVIOUS
<1>a. /\ Idle \in SUBSET Conns /\ Stale \in SUBSET Conns
      /\ \A k \in Keys : Bucket(k) \in SUBSET Conns
  BY DEF Idle, Stale, Bucket
<1>1. ASSUME NEW p \in Callers, NEW k \in Keys, AcquireHit(p, k) PROVE TypeOK'
  <2>1. PICK c \in Conns :
          /\ conn' = Taken(c)
          /\ caller' = [caller EXCEPT ![p] = [pc |-> "using", key |-> k, conn |-> c,
                                              auth |-> auth[k], poisoned |-> FALSE]]
    BY <1>1, <1>a, Zenon DEF AcquireHit
  <2>2. conn' \in [Conns -> ConnState]
    BY <2>1 DEF Taken, TypeOK, ConnState
  <2>3. caller' \in [Callers -> CallerState]
    BY <2>1 DEF TypeOK, CallerState
  <2> QED
    BY <1>1, <2>2, <2>3 DEF AcquireHit, TypeOK, Stats
<1>2. ASSUME NEW p \in Callers, NEW k \in Keys, AcquireMiss(p, k) PROVE TypeOK'
  <2>1. conn' \in [Conns -> ConnState]
    BY <1>2, <1>a, CloseType, Zenon DEF AcquireMiss
  <2>2. caller' \in [Callers -> CallerState]
    BY <1>2 DEF AcquireMiss, TypeOK, CallerState
  <2>3. stats' \in Stats
    <3>1. Cardinality(Bucket(k)) \in Nat
      BY <1>a, IdleFinite
    <3>2. stats.misses + 1 \in Nat /\ stats.evicted_idle + Cardinality(Bucket(k)) \in Nat
      BY <3>1 DEF TypeOK, Stats
    <3>3. [stats EXCEPT !.misses = @ + 1] \in Stats
      BY <3>2 DEF TypeOK, Stats
    <3> QED
      BY <1>2, <3>2, <3>3, Zenon DEF AcquireMiss, Stats
  <2> QED
    BY <1>2, <2>1, <2>2, <2>3, Zenon DEF AcquireMiss, TypeOK
<1>3. ASSUME NEW p \in Callers, Connect(p) PROVE TypeOK'
  <2>1. PICK c \in Conns :
          /\ conn' = [conn EXCEPT ![c] =
                        [state |-> "out", key |-> caller[p].key, since |-> now,
                         auth |-> caller[p].auth, sink |-> FALSE, reusable |-> TRUE]]
          /\ caller' = [caller EXCEPT ![p].pc = "using", ![p].conn = c]
    BY <1>3, Zenon DEF Connect
  <2>2. conn' \in [Conns -> ConnState]
    BY <2>1 DEF TypeOK, ConnState, CallerState
  <2>3. caller' \in [Callers -> CallerState]
    BY <2>1, Zenon DEF TypeOK, CallerState
  <2> QED
    BY <1>3, <2>2, <2>3, Zenon DEF Connect, TypeOK
<1>4. ASSUME NEW p \in Callers, ConnectFail(p) PROVE TypeOK'
  BY <1>4 DEF ConnectFail, Ready, TypeOK, CallerState, Stats
<1>5. ASSUME NEW p \in Callers, Poison(p) PROVE TypeOK'
  BY <1>5, Zenon DEF Poison, TypeOK, CallerState
<1>6. ASSUME NEW p \in Callers, BreakExchange(p) PROVE TypeOK'
  <2>1. \A c \in Conns : [conn[c] EXCEPT !.reusable = FALSE] \in ConnState
    BY Zenon DEF TypeOK, ConnState
  <2>2. conn' \in [Conns -> ConnState]
    BY <1>6, <2>1, Zenon DEF BreakExchange, TypeOK
  <2> QED
    BY <1>6, <2>2, Zenon DEF BreakExchange, TypeOK
<1>7. ASSUME NEW p \in Callers, SetSink(p) PROVE TypeOK'
  <2>1. \A c \in Conns : [conn[c] EXCEPT !.sink = TRUE] \in ConnState
    BY Zenon DEF TypeOK, ConnState
  <2>2. conn' \in [Conns -> ConnState]
    BY <1>7, <2>1, Zenon DEF SetSink, TypeOK
  <2> QED
    BY <1>7, <2>2, Zenon DEF SetSink, TypeOK
<1>8. ASSUME NEW p \in Callers, DropClient(p) PROVE TypeOK'
  <2>1. conn' \in [Conns -> ConnState]
    <3>1. CASE conn' = Close({caller[p].conn})
      BY <3>1 DEF Close, TypeOK, ConnState
    <3>2. CASE conn' = [conn EXCEPT ![caller[p].conn] = Returned(caller[p].conn)]
      BY <3>2, Zenon DEF Returned, TypeOK, ConnState
    <3> QED
      BY <1>8, <3>1, <3>2, Zenon DEF DropClient
  <2>2. caller' \in [Callers -> CallerState]
    BY <1>8, ReadyType, Zenon DEF DropClient, TypeOK
  <2>3. stats' \in Stats
    BY <1>8 DEF DropClient, TypeOK, Stats
  <2> QED
    BY <1>8, <2>1, <2>2, <2>3, Zenon DEF DropClient, TypeOK
<1>9. CASE Flush
  BY <1>9, <1>a, IdleFinite, CloseType DEF Flush, TypeOK, Stats
<1>10. CASE Reap
  BY <1>10, <1>a, IdleFinite, CloseType DEF Reap, TypeOK, Stats
<1>11. CASE DropPool
  BY <1>11, <1>a, IdleFinite, CloseType DEF DropPool, TypeOK, Stats
<1>12. CASE Tick
  BY <1>12, PoolAssumption DEF Tick, TypeOK
<1>13. ASSUME NEW k \in Keys, ReplaceAuth(k) PROVE TypeOK'
  BY <1>13 DEF ReplaceAuth, TypeOK
<1>14. CASE UNCHANGED vars
  BY <1>14 DEF vars, TypeOK
<1> QED
  BY <1>1, <1>2, <1>3, <1>4, <1>5, <1>6, <1>7, <1>8, <1>9, <1>10, <1>11, <1>12,
     <1>13, <1>14 DEF Next

LEMMA ScopedInit == Init => Scoped
<1> SUFFICES ASSUME Init PROVE Scoped
  OBVIOUS
<1> QED
  BY TypeInit, Zenon DEF Init, Scoped, SoleOwner, ScopeRetained, RightScope, Using, Ready

(* A step keeps what a closed set of connections does not touch. *)
LEMMA CloseScoped ==
    ASSUME Scoped, NEW S \in SUBSET Idle, conn' = Close(S),
           UNCHANGED <<caller, auth>>
    PROVE  SoleOwner' /\ ScopeRetained' /\ RightScope'
BY DEF Scoped, TypeOK, ConnState, CallerState, Close, Idle, SoleOwner, ScopeRetained,
       RightScope, Using

(* Every action keeps the scope of the connections. *)
LEMMA ScopedStep == Scoped /\ [Next]_vars => Scoped'
<1> SUFFICES ASSUME Scoped, [Next]_vars PROVE Scoped'
  OBVIOUS
<1>t. TypeOK'
  BY TypeStep DEF Scoped
<1> USE DEF SoleOwner, ScopeRetained, RightScope, Using
<1>1. ASSUME NEW p \in Callers, NEW k \in Keys, AcquireHit(p, k) PROVE Scoped'
  <2>1. PICK c \in Conns :
          /\ conn[c].state = "idle" /\ conn[c].key = k
          /\ conn' = [conn EXCEPT ![c].state = "out"]
          /\ caller' = [caller EXCEPT ![p] = [pc |-> "using", key |-> k, conn |-> c,
                                              auth |-> auth[k], poisoned |-> FALSE]]
          /\ auth' = auth
    BY <1>1, Zenon DEF AcquireHit, Taken, Bucket, Idle
  <2>2. SoleOwner'
    BY <2>1 DEF Scoped, TypeOK, ConnState, CallerState
  <2>3. ScopeRetained'
    BY <2>1 DEF Scoped, TypeOK, ConnState, CallerState
  <2>4. RightScope'
    BY <2>1 DEF Scoped, TypeOK, ConnState, CallerState
  <2> QED
    BY <1>t, <2>2, <2>3, <2>4, Zenon DEF Scoped
<1>2. ASSUME NEW p \in Callers, NEW k \in Keys, AcquireMiss(p, k) PROVE Scoped'
  <2>1. /\ conn' = [c \in Conns |-> IF c \in Bucket(k)
                      THEN [conn[c] EXCEPT !.state = "closed"] ELSE conn[c]]
        /\ caller' = [caller EXCEPT ![p] = [pc |-> "connecting", key |-> k,
                        conn |-> None, auth |-> auth[k], poisoned |-> FALSE]]
        /\ auth' = auth
        /\ \A c \in Bucket(k) : c \in Conns /\ conn[c].state = "idle"
    BY <1>2, Zenon DEF AcquireMiss, Close, Bucket, Idle
  <2>2. SoleOwner'
    BY <2>1 DEF Scoped, TypeOK, ConnState, CallerState
  <2>3. ScopeRetained'
    BY <2>1 DEF Scoped, TypeOK, ConnState, CallerState
  <2>4. RightScope'
    BY <2>1 DEF Scoped, TypeOK, ConnState, CallerState
  <2> QED
    BY <1>t, <2>2, <2>3, <2>4, Zenon DEF Scoped
<1>3. ASSUME NEW p \in Callers, Connect(p) PROVE Scoped'
  <2>1. PICK c \in Conns :
          /\ conn[c].state = "new" /\ caller[p].pc = "connecting"
          /\ conn' = [conn EXCEPT ![c] =
                        [state |-> "out", key |-> caller[p].key, since |-> now,
                         auth |-> caller[p].auth, sink |-> FALSE, reusable |-> TRUE]]
          /\ caller' = [caller EXCEPT ![p].pc = "using", ![p].conn = c]
          /\ auth' = auth
    BY <1>3, Zenon DEF Connect
  <2>2. SoleOwner'
    BY <2>1 DEF Scoped, TypeOK, ConnState, CallerState
  <2>3. ScopeRetained'
    BY <2>1 DEF Scoped, TypeOK, ConnState, CallerState
  <2>4. RightScope'
    BY <2>1 DEF Scoped, TypeOK, ConnState, CallerState
  <2> QED
    BY <1>t, <2>2, <2>3, <2>4, Zenon DEF Scoped
<1>4. ASSUME NEW p \in Callers, ConnectFail(p) \/ Poison(p) PROVE Scoped'
  <2>1. /\ UNCHANGED <<conn, auth>> /\ caller' \in [Callers -> CallerState]
        /\ \A q \in Callers : \/ caller'[q].pc = "ready"
                              \/ /\ caller'[q].pc = caller[q].pc
                                 /\ caller'[q].key = caller[q].key
                                 /\ caller'[q].auth = caller[q].auth
                                 /\ caller'[q].conn = caller[q].conn
    BY <1>4, <1>t DEF Scoped, ConnectFail, Poison, Ready, TypeOK, CallerState
  <2>2. SoleOwner' /\ ScopeRetained' /\ RightScope'
    BY <2>1 DEF Scoped
  <2> QED
    BY <1>t, <2>2, Zenon DEF Scoped
<1>5. ASSUME NEW p \in Callers, BreakExchange(p) \/ SetSink(p) PROVE Scoped'
  <2>1. /\ UNCHANGED <<caller, auth>>
        /\ \A c \in Conns : /\ conn'[c].state = conn[c].state
                            /\ conn'[c].key = conn[c].key
                            /\ conn'[c].auth = conn[c].auth
    BY <1>5 DEF Scoped, BreakExchange, SetSink, TypeOK, ConnState
  <2>2. SoleOwner' /\ ScopeRetained' /\ RightScope'
    BY <2>1 DEF Scoped
  <2> QED
    BY <1>t, <2>2, Zenon DEF Scoped
<1>6. ASSUME NEW p \in Callers, DropClient(p) PROVE Scoped'
  <2> DEFINE c == caller[p].conn
  <2>1. /\ caller[p].pc = "using"
        /\ \/ conn' = [conn EXCEPT ![c] = Returned(c)]
           \/ conn' = Close({c})
        /\ caller' = [caller EXCEPT ![p] = Ready]
        /\ auth' = auth
    BY <1>6, Zenon DEF DropClient
  <2>2. c \in Conns /\ \A q \in Callers : Using(q) /\ q # p => caller[q].conn # c
    BY <2>1, Zenon DEF Scoped
  <2>3. \A d \in Conns : d # c => conn'[d] = conn[d]
    BY <2>1, <2>2 DEF Close, Scoped, TypeOK
  <2>4. /\ conn'[c].state \in {"idle", "closed"}
        /\ conn'[c].key = conn[c].key /\ conn'[c].auth = conn[c].auth
    <3>1. CASE conn' = [conn EXCEPT ![c] = Returned(c)]
      BY <2>2, <3>1 DEF Returned, Scoped, TypeOK, ConnState
    <3>2. CASE conn' = Close({c})
      BY <2>2, <3>2 DEF Close, Scoped, TypeOK, ConnState
    <3> QED
      BY <2>1, <3>1, <3>2, Zenon
  <2>5. SoleOwner'
    BY <2>1, <2>2, <2>3 DEF Ready, Scoped, TypeOK, CallerState
  <2>6. ScopeRetained'
    BY <2>1, <2>2, <2>3, <2>4 DEF Ready, Scoped, TypeOK, CallerState
  <2>7. RightScope'
    BY <2>1, <2>2, <2>3 DEF Ready, Scoped, TypeOK, CallerState
  <2> QED
    BY <1>t, <2>5, <2>6, <2>7, Zenon DEF Scoped
<1>7. CASE Flush \/ Reap \/ DropPool
  <2>1. Stale \in SUBSET Idle
    BY DEF Stale
  <2> QED
    BY <1>7, <1>t, <2>1, CloseScoped, Zenon DEF Flush, Reap, DropPool, Scoped
<1>8. CASE Tick
  BY <1>8, <1>t, Zenon DEF Tick, Scoped
<1>9. ASSUME NEW k \in Keys, ReplaceAuth(k) PROVE Scoped'
  <2>1. SoleOwner' /\ RightScope'
    BY <1>9, Zenon DEF ReplaceAuth, Scoped
  <2>2. /\ auth' = [auth EXCEPT ![k] = @ + 1] /\ UNCHANGED <<conn, caller>>
        /\ \A c \in Conns : conn[c].state \in {"idle", "out"} => conn[c].key # k
        /\ \A p \in Callers : caller[p].pc = "connecting" => caller[p].key # k
    BY <1>9 DEF ReplaceAuth, Retained, Scoped
  <2>3. ScopeRetained'
    BY <2>2, Zenon DEF Scoped, TypeOK
  <2> QED
    BY <1>t, <2>1, <2>3, Zenon DEF Scoped
<1>10. CASE UNCHANGED vars
  BY <1>10, <1>t, Zenon DEF vars, Scoped
<1> QED
  BY <1>1, <1>2, <1>3, <1>4, <1>5, <1>6, <1>7, <1>8, <1>9, <1>10 DEF Next

(* The variables of the pool keep their types. *)
THEOREM PoolTypeCorrect == Spec => []TypeOK
BY TypeInit, TypeStep, PTL DEF Spec

(* A caller holds a connection made for its key and with its auth object,   *)
(* and no other caller holds it.                                            *)
THEOREM PoolScope == Spec => [](RightScope /\ SoleOwner)
<1>1. Scoped => RightScope /\ SoleOwner
  BY DEF Scoped
<1> QED
  BY <1>1, ScopedInit, ScopedStep, PTL DEF Spec

(* A connection is in the hands of at most one caller, and one that a       *)
(* caller holds is in no bucket.                                            *)
THEOREM PoolSoleOwner == Spec => []SoleOwner
BY PoolScope, PTL

-----------------------------------------------------------------------------
(* The books.  A step moves some connections from one state to another, and *)
(* the counters of stats follow.                                            *)

LEMMA InFinite ==
    ASSUME NEW s
    PROVE  IsFiniteSet(In(s)) /\ Cardinality(In(s)) \in Nat
BY PoolAssumption, FS_Subset, FS_CardinalityType, Zenon DEF In

LEMMA ConnectingFinite == IsFiniteSet(Connecting) /\ Cardinality(Connecting) \in Nat
BY PoolAssumption, FS_Subset, FS_CardinalityType, Zenon DEF Connecting

(* Cardinalities when a part of a set goes over to another one.             *)
LEMMA PartMoves ==
    ASSUME NEW S, NEW T, NEW M, IsFiniteSet(S), IsFiniteSet(T), M \subseteq S, S \cap T = {}
    PROVE  /\ Cardinality(S \ M) = Cardinality(S) - Cardinality(M)
           /\ Cardinality(T \cup M) = Cardinality(T) + Cardinality(M)
           /\ Cardinality(M) \in Nat
<1>1. IsFiniteSet(M) /\ IsFiniteSet(S \ M)
  BY FS_Subset
<1>2. /\ Cardinality(M) \in Nat /\ Cardinality(S \ M) \in Nat
      /\ Cardinality(S) \in Nat /\ Cardinality(T) \in Nat
  BY <1>1, FS_CardinalityType
<1>3. (S \ M) \cap M = {} /\ (S \ M) \cup M = S /\ T \cap M = {} /\ Cardinality({}) = 0
  BY FS_EmptySet
<1>4. Cardinality((S \ M) \cup M) = Cardinality(S \ M) + Cardinality(M) - Cardinality((S \ M) \cap M)
  BY <1>1, FS_Union
<1>5. Cardinality(T \cup M) = Cardinality(T) + Cardinality(M) - Cardinality(T \cap M)
  BY <1>1, FS_Union
<1>6. Cardinality(S) = Cardinality(S \ M) + Cardinality(M) - 0
  BY <1>3, <1>4, Zenon
<1>7. Cardinality(T \cup M) = Cardinality(T) + Cardinality(M) - 0
  BY <1>3, <1>5, Zenon
<1> QED
  BY <1>2, <1>6, <1>7

(* The connections M go from state s to state t, all others stay.           *)
LEMMA StatesMove ==
    ASSUME TypeOK, NEW s, NEW t, s # t, NEW M, M \subseteq In(s),
           \A c \in Conns : conn'[c].state = IF c \in M THEN t ELSE conn[c].state
    PROVE  /\ Cardinality(In(s)') = Cardinality(In(s)) - Cardinality(M)
           /\ Cardinality(In(t)') = Cardinality(In(t)) + Cardinality(M)
           /\ Cardinality(M) \in Nat
           /\ \A u : u # s /\ u # t => In(u)' = In(u)
<1>1. In(s)' = In(s) \ M /\ In(t)' = In(t) \cup M /\ In(s) \cap In(t) = {}
  BY Zenon DEF In
<1>2. \A u : u # s /\ u # t => In(u)' = In(u)
  BY DEF In
<1>3. /\ Cardinality(In(s) \ M) = Cardinality(In(s)) - Cardinality(M)
      /\ Cardinality(In(t) \cup M) = Cardinality(In(t)) + Cardinality(M)
      /\ Cardinality(M) \in Nat
  BY <1>1, InFinite, PartMoves, Zenon
<1> QED
  BY <1>1, <1>2, <1>3, Zenon

(* What the books need beside the types: who holds what.                    *)
Books == Scoped /\ PoolBooks

LEMMA BooksInit == Init => Books
<1> SUFFICES ASSUME Init PROVE Books
  OBVIOUS
<1>1. /\ In("out") = {} /\ In("idle") = {} /\ In("closed") = {} /\ Connecting = {} /\ Idle = {}
  BY Zenon DEF Init, In, Connecting, Idle, Ready
<1>2. Cardinality({}) = 0
  BY FS_EmptySet
<1>a. /\ Cardinality(In("out")) = 0 /\ Cardinality(In("idle")) = 0 /\ Cardinality(In("closed")) = 0
      /\ Cardinality(Connecting) = 0 /\ Cardinality(Idle) = 0
  BY <1>1, <1>2, Zenon
<1>3. CountersBalance
  BY <1>a DEF CountersBalance, Init
<1>4. IdleIsClean /\ WithinCapacity
  BY <1>1, <1>a, PoolAssumption DEF IdleIsClean, WithinCapacity
<1> QED
  BY <1>3, <1>4, ScopedInit DEF Books, PoolBooks

(* The callers that are connecting, when none begins or ends to.            *)
LEMMA SameConnecting ==
    ASSUME \A p \in Callers : caller'[p].pc = "connecting" <=> caller[p].pc = "connecting"
    PROVE  Cardinality(Connecting') = Cardinality(Connecting)
<1>1. Connecting' = Connecting
  BY DEF Connecting
<1> QED
  BY <1>1, Zenon

(* Closing idle connections keeps the rest of the pool as it is.            *)
LEMMA CloseBooks ==
    ASSUME Books, NEW S, S \subseteq Idle, conn' = Close(S)
    PROVE  /\ IdleIsClean' /\ WithinCapacity'
           /\ Cardinality(In("idle")') = Cardinality(In("idle")) - Cardinality(S)
           /\ Cardinality(In("closed")') = Cardinality(In("closed")) + Cardinality(S)
           /\ Cardinality(In("out")') = Cardinality(In("out"))
           /\ Cardinality(S) \in Nat
<1>1. TypeOK /\ S \subseteq In("idle") /\ In("idle") = Idle /\ In("idle")' = Idle'
  BY DEF Books, Scoped, Idle, In
<1>2. \A c \in Conns : conn'[c].state = IF c \in S THEN "closed" ELSE conn[c].state
  BY <1>1 DEF Close, TypeOK, ConnState
<1>3. /\ Cardinality(In("idle")') = Cardinality(In("idle")) - Cardinality(S)
      /\ Cardinality(In("closed")') = Cardinality(In("closed")) + Cardinality(S)
      /\ Cardinality(S) \in Nat
      /\ \A u : u # "idle" /\ u # "closed" => In(u)' = In(u)
  BY <1>1, <1>2, StatesMove, "idle" # "closed", Zenon
<1>a. Cardinality(In("out")') = Cardinality(In("out"))
  BY <1>3, "out" # "idle", "out" # "closed", Zenon
<1>4. IdleIsClean'
  BY <1>1, <1>2 DEF Books, PoolBooks, IdleIsClean, Idle, Close, TypeOK, ConnState
<1>5. WithinCapacity'
  <2>1. Cardinality(Idle') = Cardinality(Idle) - Cardinality(S) /\ Cardinality(Idle) \in Nat
    BY <1>1, <1>3, InFinite, Zenon
  <2> QED
    BY <1>3, <2>1, PoolAssumption DEF Books, PoolBooks, WithinCapacity
<1> QED
  BY <1>3, <1>a, <1>4, <1>5, Zenon

(* One connection goes from state s to state t.                             *)
LEMMA OneMoves ==
    ASSUME TypeOK, NEW s, NEW t, s # t, NEW c \in Conns, conn[c].state = s,
           conn'[c].state = t, \A d \in Conns : d # c => conn'[d].state = conn[d].state
    PROVE  /\ Cardinality(In(s)') = Cardinality(In(s)) - 1
           /\ Cardinality(In(t)') = Cardinality(In(t)) + 1
           /\ \A u : u # s /\ u # t => Cardinality(In(u)') = Cardinality(In(u))
<1>1. {c} \subseteq In(s) /\ \A d \in Conns : conn'[d].state = IF d \in {c} THEN t ELSE conn[d].state
  BY DEF In
<1>2. /\ Cardinality(In(s)') = Cardinality(In(s)) - Cardinality({c})
      /\ Cardinality(In(t)') = Cardinality(In(t)) + Cardinality({c})
  <2> DEFINE M == {c}
  <2>1. M \subseteq In(s) /\ \A d \in Conns : conn'[d].state = IF d \in M THEN t ELSE conn[d].state
    BY <1>1, Zenon
  <2> HIDE DEF M
  <2>2. /\ Cardinality(In(s)') = Cardinality(In(s)) - Cardinality(M)
        /\ Cardinality(In(t)') = Cardinality(In(t)) + Cardinality(M)
    BY <2>1, StatesMove
  <2> QED
    BY <2>2, Zenon DEF M
<1>3. Cardinality({c}) = 1
  BY FS_Singleton, Zenon
<1>4. \A u : u # s /\ u # t => In(u)' = In(u)
  BY DEF In
<1> QED
  BY <1>2, <1>3, <1>4, Zenon

(* A caller begins, or ends, to connect.                                    *)
LEMMA ConnectingMoves ==
    ASSUME NEW p \in Callers,
           \A q \in Callers : q # p => (caller'[q].pc = "connecting" <=> caller[q].pc = "connecting")
    PROVE  /\ caller[p].pc # "connecting" /\ caller'[p].pc = "connecting"
                => Cardinality(Connecting') = Cardinality(Connecting) + 1
           /\ caller[p].pc = "connecting" /\ caller'[p].pc # "connecting"
                => Cardinality(Connecting') = Cardinality(Connecting) - 1
<1>1. ASSUME caller[p].pc # "connecting", caller'[p].pc = "connecting"
      PROVE  Cardinality(Connecting') = Cardinality(Connecting) + 1
  <2>1. Connecting' = Connecting \cup {p} /\ p \notin Connecting
    BY <1>1 DEF Connecting
  <2>2. Cardinality(Connecting \cup {p}) = Cardinality(Connecting) + 1
    BY <2>1, ConnectingFinite, FS_AddElement
  <2> QED
    BY <2>1, <2>2, Zenon
<1>2. ASSUME caller[p].pc = "connecting", caller'[p].pc # "connecting"
      PROVE  Cardinality(Connecting') = Cardinality(Connecting) - 1
  <2>1. Connecting' = Connecting \ {p} /\ p \in Connecting
    BY <1>2, Zenon DEF Connecting
  <2>2. Cardinality(Connecting \ {p}) = Cardinality(Connecting) - 1
    BY <2>1, ConnectingFinite, FS_RemoveElement, Zenon
  <2> QED
    BY <2>1, <2>2, Zenon
<1> QED
  BY <1>1, <1>2, Zenon

(* Every action keeps the books.                                            *)
LEMMA BooksStep == Books /\ [Next]_vars => Books'
<1> SUFFICES ASSUME Books, [Next]_vars PROVE PoolBooks'
  BY ScopedStep DEF Books
<1>t. TypeOK /\ TypeOK' /\ SoleOwner /\ IdleIsClean /\ WithinCapacity /\ CountersBalance
  BY TypeStep DEF Books, Scoped, PoolBooks
<1>n. /\ Cardinality(In("out")) \in Nat /\ Cardinality(In("idle")) \in Nat
      /\ Cardinality(In("closed")) \in Nat /\ Cardinality(Connecting) \in Nat
  BY InFinite, ConnectingFinite
<1>i. Idle = In("idle") /\ Idle' = In("idle")'
  BY DEF Idle, In
<1>1. ASSUME NEW p \in Callers, NEW k \in Keys, AcquireHit(p, k) PROVE PoolBooks'
  <2>1. PICK c \in Conns :
          /\ conn[c].state = "idle" /\ conn' = [conn EXCEPT ![c].state = "out"]
          /\ caller' = [caller EXCEPT ![p] = [pc |-> "using", key |-> k, conn |-> c,
                                              auth |-> auth[k], poisoned |-> FALSE]]
    BY <1>1, Zenon DEF AcquireHit, Taken, Bucket, Idle
  <2>2. /\ Cardinality(In("idle")') = Cardinality(In("idle")) - 1
        /\ Cardinality(In("out")') = Cardinality(In("out")) + 1
        /\ Cardinality(In("closed")') = Cardinality(In("closed"))
    <3>1. conn'[c].state = "out" /\ \A d \in Conns : d # c => conn'[d].state = conn[d].state
      BY <1>t, <2>1 DEF TypeOK, ConnState
    <3> QED
      BY <1>t, <2>1, <3>1, OneMoves
  <2>3. Cardinality(Connecting') = Cardinality(Connecting)
    <3>1. \A q \in Callers : caller'[q].pc = "connecting" <=> caller[q].pc = "connecting"
      BY <1>1, <1>t, <2>1, Zenon DEF AcquireHit, MayAcquire, TypeOK, CallerState
    <3> QED
      BY <3>1, SameConnecting
  <2>4. CountersBalance'
    BY <1>1, <1>t, <1>n, <2>2, <2>3 DEF AcquireHit, CountersBalance, TypeOK, Stats
  <2>5. IdleIsClean'
    BY <1>t, <2>1 DEF IdleIsClean, Idle, TypeOK, ConnState
  <2>6. WithinCapacity'
    BY <1>t, <1>n, <1>i, <2>2, PoolAssumption DEF WithinCapacity
  <2> QED
    BY <2>4, <2>5, <2>6 DEF PoolBooks
<1>2. ASSUME NEW p \in Callers, NEW k \in Keys, AcquireMiss(p, k) PROVE PoolBooks'
  <2>1. Bucket(k) \subseteq Idle /\ conn' = Close(Bucket(k))
    BY <1>2, Zenon DEF AcquireMiss, Bucket
  <2>2. /\ IdleIsClean' /\ WithinCapacity' /\ Cardinality(Bucket(k)) \in Nat
        /\ Cardinality(In("idle")') = Cardinality(In("idle")) - Cardinality(Bucket(k))
        /\ Cardinality(In("closed")') = Cardinality(In("closed")) + Cardinality(Bucket(k))
        /\ Cardinality(In("out")') = Cardinality(In("out"))
    BY <2>1, CloseBooks, Zenon
  <2>3. Cardinality(Connecting') = Cardinality(Connecting) + 1
    <3>1. /\ \A q \in Callers : q # p => (caller'[q].pc = "connecting" <=> caller[q].pc = "connecting")
          /\ caller[p].pc # "connecting" /\ caller'[p].pc = "connecting"
      BY <1>2, <1>t, Zenon DEF AcquireMiss, MayAcquire, TypeOK, CallerState
    <3> QED
      BY <3>1, ConnectingMoves, Zenon
  <2>4. /\ stats'.misses = stats.misses + 1 /\ stats'.evicted_idle = stats.evicted_idle + Cardinality(Bucket(k))
        /\ stats'.failed = stats.failed /\ stats'.evicted_full = stats.evicted_full
        /\ stats'.discarded_poisoned = stats.discarded_poisoned /\ stats'.other = stats.other
    BY <1>2, <1>t, Zenon DEF AcquireMiss, TypeOK, Stats
  <2>5. CountersBalance'
    BY <1>t, <1>n, <2>2, <2>3, <2>4 DEF CountersBalance, TypeOK, Stats
  <2> QED
    BY <2>2, <2>5 DEF PoolBooks
<1>3. ASSUME NEW p \in Callers, Connect(p) PROVE PoolBooks'
  <2>1. PICK c \in Conns :
          /\ conn[c].state = "new" /\ caller[p].pc = "connecting"
          /\ conn' = [conn EXCEPT ![c] =
                        [state |-> "out", key |-> caller[p].key, since |-> now,
                         auth |-> caller[p].auth, sink |-> FALSE, reusable |-> TRUE]]
          /\ caller' = [caller EXCEPT ![p].pc = "using", ![p].conn = c]
          /\ stats' = stats
    BY <1>3, Zenon DEF Connect
  <2>2. /\ Cardinality(In("out")') = Cardinality(In("out")) + 1
        /\ Cardinality(In("idle")') = Cardinality(In("idle"))
        /\ Cardinality(In("closed")') = Cardinality(In("closed"))
    <3>1. conn'[c].state = "out" /\ \A d \in Conns : d # c => conn'[d].state = conn[d].state
      BY <1>t, <2>1, Zenon DEF TypeOK, ConnState
    <3> QED
      BY <1>t, <2>1, <3>1, OneMoves
  <2>3. Cardinality(Connecting') = Cardinality(Connecting) - 1
    <3>1. /\ \A q \in Callers : q # p => (caller'[q].pc = "connecting" <=> caller[q].pc = "connecting")
          /\ caller'[p].pc # "connecting"
      BY <1>t, <2>1 DEF TypeOK, CallerState
    <3> QED
      BY <2>1, <3>1, ConnectingMoves, Zenon
  <2>4. CountersBalance'
    BY <1>t, <1>n, <2>1, <2>2, <2>3 DEF CountersBalance, TypeOK, Stats
  <2>5. IdleIsClean'
    BY <1>t, <2>1, Zenon DEF IdleIsClean, Idle, TypeOK, ConnState
  <2>6. WithinCapacity'
    BY <1>t, <1>n, <1>i, <2>2, PoolAssumption, Zenon DEF WithinCapacity
  <2> QED
    BY <2>4, <2>5, <2>6 DEF PoolBooks
<1>4. ASSUME NEW p \in Callers, ConnectFail(p) PROVE PoolBooks'
  <2>1. Cardinality(Connecting') = Cardinality(Connecting) - 1
    <3>1. /\ \A q \in Callers : q # p => (caller'[q].pc = "connecting" <=> caller[q].pc = "connecting")
          /\ caller[p].pc = "connecting" /\ caller'[p].pc # "connecting"
      BY <1>4, <1>t, Zenon DEF ConnectFail, TypeOK, CallerState, Ready
    <3> QED
      BY <3>1, ConnectingMoves, Zenon
  <2>2. In("out")' = In("out") /\ In("idle")' = In("idle") /\ In("closed")' = In("closed") /\ conn' = conn
    BY <1>4 DEF ConnectFail, In
  <2>3. CountersBalance'
    BY <1>4, <1>t, <1>n, <2>1, <2>2 DEF ConnectFail, CountersBalance, TypeOK, Stats
  <2> QED
    BY <1>t, <2>2, <2>3, Zenon DEF PoolBooks, IdleIsClean, WithinCapacity, Idle
<1>5. ASSUME NEW p \in Callers, Poison(p) PROVE PoolBooks'
  <2>1. \A q \in Callers : caller'[q].pc = caller[q].pc
    BY <1>5, <1>t DEF Poison, TypeOK, CallerState
  <2>2. Cardinality(Connecting') = Cardinality(Connecting)
    BY <2>1, SameConnecting
  <2>3. conn' = conn /\ stats' = stats
    BY <1>5 DEF Poison
  <2> QED
    BY <1>t, <2>2, <2>3, Zenon DEF PoolBooks, IdleIsClean, WithinCapacity, Idle, CountersBalance, In
<1>6. ASSUME NEW p \in Callers, BreakExchange(p) \/ SetSink(p) PROVE PoolBooks'
  <2>1. caller[p].conn \in Conns /\ conn[caller[p].conn].state = "out"
    BY <1>6, <1>t, Zenon DEF BreakExchange, SetSink, SoleOwner, Using
  <2>2. /\ \A c \in Conns : conn'[c].state = conn[c].state
        /\ \A c \in Conns : c # caller[p].conn => conn'[c] = conn[c]
        /\ caller' = caller /\ stats' = stats
    BY <1>6, <1>t, <2>1 DEF BreakExchange, SetSink, TypeOK, ConnState
  <2>3. \A u : In(u)' = In(u)
    BY <2>2 DEF In
  <2>4. IdleIsClean' /\ Idle' = Idle
    BY <1>t, <2>1, <2>2 DEF IdleIsClean, Idle
  <2>5. CountersBalance'
    BY <1>t, <2>2, <2>3, Zenon DEF CountersBalance, Connecting
  <2> QED
    BY <1>t, <2>4, <2>5 DEF PoolBooks, WithinCapacity
<1>7. ASSUME NEW p \in Callers, DropClient(p) PROVE PoolBooks'
  <2> DEFINE c == caller[p].conn
  <2>1. c \in Conns /\ conn[c].state = "out"
    BY <1>7, <1>t, Zenon DEF DropClient, SoleOwner, Using
  <2>2. Cardinality(Connecting') = Cardinality(Connecting)
    <3>1. \A q \in Callers : caller'[q].pc = "connecting" <=> caller[q].pc = "connecting"
      BY <1>7, <1>t, Zenon DEF DropClient, TypeOK, CallerState, Ready
    <3> QED
      BY <3>1, SameConnecting
  <2>3. CASE ~Unusable(p) /\ PoolingEnabled /\ ~Full
    <3>1. conn' = [conn EXCEPT ![c] = Returned(c)] /\ stats' = stats
      BY <1>7, <2>3, Zenon DEF DropClient
    <3>2. conn'[c].state = "idle" /\ \A d \in Conns : d # c => conn'[d] = conn[d]
      BY <1>t, <2>1, <3>1 DEF TypeOK, ConnState, Returned
    <3>3. /\ Cardinality(In("out")') = Cardinality(In("out")) - 1
          /\ Cardinality(In("idle")') = Cardinality(In("idle")) + 1
          /\ Cardinality(In("closed")') = Cardinality(In("closed"))
      BY <1>t, <2>1, <3>2, OneMoves
    <3>4. CountersBalance'
      BY <1>t, <1>n, <2>2, <3>1, <3>3 DEF CountersBalance, TypeOK, Stats
    <3>5. IdleIsClean'
      <4>1. conn'[c].reusable /\ ~conn'[c].sink
        BY <1>t, <2>1, <2>3, <3>1 DEF TypeOK, ConnState, Returned, Unusable
      <4> QED
        BY <1>t, <3>2, <4>1, Zenon DEF IdleIsClean, Idle
    <3>6. WithinCapacity'
      BY <1>n, <1>i, <2>3, <3>3, PoolAssumption DEF WithinCapacity, Full
    <3> QED
      BY <3>4, <3>5, <3>6 DEF PoolBooks
  <2>4. CASE ~(~Unusable(p) /\ PoolingEnabled /\ ~Full)
    <3>1. conn' = Close({c})
      BY <1>7, <2>4, Zenon DEF DropClient
    <3>2. conn'[c].state = "closed" /\ \A d \in Conns : d # c => conn'[d] = conn[d]
      BY <1>t, <2>1, <3>1 DEF TypeOK, ConnState, Close
    <3>3. /\ Cardinality(In("out")') = Cardinality(In("out")) - 1
          /\ Cardinality(In("closed")') = Cardinality(In("closed")) + 1
          /\ Cardinality(In("idle")') = Cardinality(In("idle"))
      BY <1>t, <2>1, <3>2, OneMoves
    <3>4. /\ stats'.misses = stats.misses /\ stats'.failed = stats.failed
          /\ stats'.evicted_idle + stats'.evicted_full + stats'.discarded_poisoned + stats'.other
               = stats.evicted_idle + stats.evicted_full + stats.discarded_poisoned + stats.other + 1
      <4>1. \/ stats' = [stats EXCEPT !.discarded_poisoned = @ + 1]
            \/ stats' = [stats EXCEPT !.evicted_full = @ + 1]
            \/ stats' = [stats EXCEPT !.other = @ + 1]
        BY <1>7, <2>4, Zenon DEF DropClient
      <4> QED
        BY <1>t, <4>1 DEF TypeOK, Stats
    <3>5. CountersBalance'
      BY <1>t, <1>n, <2>2, <3>3, <3>4 DEF CountersBalance, TypeOK, Stats
    <3>6. IdleIsClean' /\ WithinCapacity'
      <4>1. IdleIsClean'
        BY <1>t, <3>2, Zenon DEF IdleIsClean, Idle
      <4>2. WithinCapacity'
        BY <1>t, <1>i, <3>3 DEF WithinCapacity
      <4> QED
        BY <4>1, <4>2
    <3> QED
      BY <3>5, <3>6 DEF PoolBooks
  <2> QED
    BY <2>3, <2>4
<1>8. ASSUME NEW S, S \subseteq Idle, conn' = Close(S), caller' = caller,
             \/ stats' = [stats EXCEPT !.other = @ + Cardinality(S)]
             \/ stats' = [stats EXCEPT !.evicted_idle = @ + Cardinality(S)]
      PROVE  PoolBooks'
  <2>1. /\ IdleIsClean' /\ WithinCapacity' /\ Cardinality(S) \in Nat
        /\ Cardinality(In("idle")') = Cardinality(In("idle")) - Cardinality(S)
        /\ Cardinality(In("closed")') = Cardinality(In("closed")) + Cardinality(S)
        /\ Cardinality(In("out")') = Cardinality(In("out"))
    BY <1>8, CloseBooks
  <2>2. Cardinality(Connecting') = Cardinality(Connecting)
    BY <1>8, SameConnecting
  <2>3. CountersBalance'
    BY <1>8, <1>t, <1>n, <2>1, <2>2 DEF CountersBalance, TypeOK, Stats
  <2> QED
    BY <2>1, <2>3 DEF PoolBooks
<1>9. CASE Flush \/ DropPool
  BY <1>8, <1>9 DEF Flush, DropPool
<1>10. CASE Reap
  <2>1. Stale \subseteq Idle
    BY DEF Stale
  <2> QED
    BY <1>8, <1>10, <2>1, Zenon DEF Reap
<1>11. CASE Tick \/ (\E k \in Keys : ReplaceAuth(k)) \/ UNCHANGED vars
  <2>1. conn' = conn /\ caller' = caller /\ stats' = stats
    BY <1>11, Zenon DEF Tick, ReplaceAuth, vars
  <2> QED
    BY <1>t, <2>1, Zenon DEF PoolBooks, IdleIsClean, WithinCapacity, Idle, CountersBalance, In, Connecting
<1> QED
  BY <1>1, <1>2, <1>3, <1>4, <1>5, <1>6, <1>7, <1>9, <1>10, <1>11 DEF Next

(* What waits in the pool is fit for the next borrower and within max_idle, *)
(* and the counters account for every connection ever opened (release,      *)
(* reap, flush, PoolStats), for every number of callers and connections.    *)
THEOREM PoolBooksKept == Spec => []PoolBooks
<1>1. Books => PoolBooks
  BY DEF Books
<1> QED
  BY <1>1, BooksInit, BooksStep, PTL DEF Spec
=============================================================================
