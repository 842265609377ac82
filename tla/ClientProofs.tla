---------------------------- MODULE ClientProofs ----------------------------
(***************************************************************************)
(* CalmLaunch for any number of starters and workers, any length of the    *)
(* accept queue and any number of repeated probes, and the two safety      *)
(* properties of HttpCall for any number of threads, calls and tokens and  *)
(* any retry policy.                                                       *)
(*                                                                         *)
(* That two workers are never alive together rests on who holds the lock   *)
(* and on what the holder has found out: once the second probe has failed  *)
(* no worker is alive, and until the discovery line is read the only one   *)
(* is the holder's own child.  A worker that is not the child of a waiting *)
(* starter serves on the socket path, so that a probe under the lock finds *)
(* it.                                                                     *)
(*                                                                         *)
(* That a method ran at most once needs to be known together with where    *)
(* the call is once it has run: at the decision that ends it.  That one    *)
(* thread talks to the provider needs the phase under the mutex to tell    *)
(* whether some thread does, and that the refresh token is good needs what *)
(* the leader has in hand at each step of its exchange.                    *)
(***************************************************************************)
EXTENDS Launcher, HttpCall, TLAPS

-----------------------------------------------------------------------------
(* Launcher.                                                               *)

WkFields == {"pc", "clients", "probes", "conns", "said", "reader", "joining"}

StFields == {"pc", "tries", "worker"}

LaunchShape ==
    /\ DOMAIN st = Starters /\ DOMAIN wk = Workers
    /\ \A s \in Starters : DOMAIN st[s] = StFields
    /\ \A w \in Workers : DOMAIN wk[w] = WkFields
    /\ path \in Workers \cup {None}

(* The lock protects everything from the second probe to the discovery.    *)
Locked ==
    \A s \in Starters : st[s].pc \in {"probe", "unlink", "spawn", "wait"} => flock = s

(* A worker serves on the path, or is coming up as a waiting starter's     *)
(* child; it says so only when it serves.                                  *)
Placed ==
    \A w \in Workers :
        /\ wk[w].pc \in {"gone", "starting", "unlinked", "bound", "serving"}
        /\ wk[w].pc \in {"bound", "serving"} => path = w
        /\ wk[w].pc \in {"starting", "unlinked", "bound"}
               => \E s \in Starters : st[s].pc = "wait" /\ st[s].worker = w
        /\ wk[w].said => wk[w].pc \in {"serving", "gone"}

(* What the holder of the lock knows of the workers.                       *)
Alone ==
    \A s \in Starters :
        /\ st[s].pc \in {"unlink", "spawn"} => \A w \in Workers : wk[w].pc = "gone"
        /\ st[s].pc = "wait" => /\ st[s].worker \in Workers
                                /\ \A w \in Workers : wk[w].pc # "gone" => w = st[s].worker
        /\ st[s].pc = "connected" => st[s].worker \in Workers

LaunchInv == env = "calm" => LaunchShape /\ Locked /\ Placed /\ Alone
Calm == env = "calm" /\ LaunchShape /\ Locked /\ Placed /\ Alone

Holding == {"probe", "unlink", "spawn", "wait"}

-----------------------------------------------------------------------------
(* What the building blocks of the actions do.                             *)

(* The starter s moves, and no other.                                      *)
Moves(s, pc, worker) ==
    /\ DOMAIN st' = Starters /\ DOMAIN st'[s] = StFields
    /\ st'[s].pc = pc /\ st'[s].worker = worker
    /\ \A r \in Starters : r # s => st'[r] = st[r]

LEMMA GoMoves ==
    ASSUME LaunchShape, NEW s \in Starters
    PROVE  \A pc : Go(s, pc) => Moves(s, pc, None)
BY DEF LaunchShape, Go, Idle, Moves, StFields

(* The workers stay what they are, whatever is in their queues.            *)
Stay ==
    /\ DOMAIN wk' = Workers
    /\ \A w \in Workers : /\ DOMAIN wk'[w] = WkFields
                          /\ wk'[w].pc = wk[w].pc /\ wk'[w].said = wk[w].said

(* The worker w changes, and no other.                                     *)
Becomes(w, pc, said) ==
    /\ DOMAIN wk' = Workers /\ DOMAIN wk'[w] = WkFields
    /\ wk'[w].pc = pc /\ wk'[w].said = said
    /\ \A v \in Workers : v # w => wk'[v] = wk[v]

(* One connect of a probe is taken for alive, or repeated, or taken for    *)
(* dead, and dead only when nobody listens at the path.                    *)
LEMMA ProbeMoves ==
    ASSUME Calm, NEW s \in Starters, NEW ACTION alive, NEW ACTION dead,
           Probe(s, alive, dead)
    PROVE  /\ Stay
           /\ \/ alive
              \/ /\ Moves(s, st[s].pc, st[s].worker)
                 /\ UNCHANGED <<cache, flock>>
              \/ dead /\ \A w \in Workers : wk[w].pc \in {"bound", "serving"} => path # w
<1> USE DEF Calm
<1>1. Stay
  <2>1. CASE Answer = "connected"
    <3>1. path \in Workers
      BY <2>1 DEF Answer, LaunchShape
    <3> QED
      BY <2>1, <3>1 DEF Probe, Stay, LaunchShape, WkFields
  <2>2. CASE Answer # "connected"
    BY <2>2 DEF Probe, Stay, LaunchShape
  <2> QED
    BY <2>1, <2>2
<1>2. CASE Answer \in {"connected", "busy"}
  BY <1>1, <1>2, Zenon DEF Probe
<1>3. CASE Answer = "refused" /\ st[s].tries < ReProbes
  <2>1. st' = [st EXCEPT ![s].tries = st[s].tries + 1] /\ UNCHANGED <<cache, flock>>
    BY <1>3 DEF Probe
  <2>2. Moves(s, st[s].pc, st[s].worker)
    BY <2>1 DEF Moves, LaunchShape, StFields
  <2> QED
    BY <1>1, <2>1, <2>2
<1>4. CASE Answer \notin {"connected", "busy"} /\ ~(Answer = "refused" /\ st[s].tries < ReProbes)
  <2>1. dead
    BY <1>4 DEF Probe
  <2>2. \A w \in Workers : wk[w].pc \in {"bound", "serving"} => path # w
    BY <1>4, LauncherAssumption, Zenon DEF Answer, Listening
  <2> QED
    BY <1>1, <2>1, <2>2
<1> QED
  BY <1>2, <1>3, <1>4, Zenon

-----------------------------------------------------------------------------
(* Steps that leave the lock, the path and the workers alone.              *)

LEMMA QuietStep ==
    ASSUME Calm, NEW s \in Starters, NEW pc, NEW worker, Moves(s, pc, worker), Stay,
           UNCHANGED <<flock, path, env>>,
           \/ pc = st[s].pc /\ worker = st[s].worker
           \/ /\ st[s].pc \notin Holding /\ pc \notin Holding
              /\ pc = "connected" => worker \in Workers
    PROVE  Calm'
<1> USE DEF Calm
<1>1. LaunchShape'
  BY Zenon DEF LaunchShape, Moves, Stay
<1>2. Locked'
  BY Zenon DEF Locked, Moves, Holding
<1>3. \A r \in Starters :
        /\ st'[r].pc \in {"unlink", "spawn", "wait"} \/ st[r].pc \in {"unlink", "spawn", "wait"}
               => st'[r].pc = st[r].pc /\ st'[r].worker = st[r].worker
        /\ st'[r].pc = "connected" => st'[r].worker \in Workers
  BY DEF Moves, Alone, Holding
<1>4. Placed'
  BY <1>3 DEF Placed, Stay
<1>5. Alone'
  BY <1>3 DEF Alone, Stay
<1> QED
  BY <1>1, <1>2, <1>4, <1>5, Zenon
-----------------------------------------------------------------------------
(* The steps of the starters.                                              *)

LEMMA EnsureStep ==
    ASSUME Calm, NEW s \in Starters, Ensure(s) PROVE Calm'
<1>1. PICK pc \in {"cached", "lock"} : Go(s, pc)
  BY DEF Ensure
<1>2. Stay
  BY DEF Ensure, Stay, Calm, LaunchShape
<1> QED
  BY <1>1, <1>2, GoMoves, QuietStep, Zenon DEF Ensure, Calm, Holding

LEMMA ProbeCachedStep ==
    ASSUME Calm, NEW s \in Starters, ProbeCached(s) PROVE Calm'
<1>1. /\ Stay
      /\ \/ Go(s, "resolved") /\ UNCHANGED <<cache, flock>>
         \/ Moves(s, st[s].pc, st[s].worker) /\ UNCHANGED <<cache, flock>>
         \/ Go(s, "lock") /\ UNCHANGED flock
  BY ProbeMoves, ZenonT(30) DEF ProbeCached
<1>2. \/ Moves(s, "resolved", None) \/ Moves(s, "lock", None)
      \/ Moves(s, st[s].pc, st[s].worker)
  BY <1>1, GoMoves, Zenon DEF Calm
<1>3. UNCHANGED <<flock, path, env>>
  BY <1>1 DEF ProbeCached
<1> QED
  BY <1>1, <1>2, <1>3, QuietStep, Zenon DEF ProbeCached, Holding

LEMMA LockStep ==
    ASSUME Calm, NEW s \in Starters, Lock(s) PROVE Calm'
<1> USE DEF Calm
<1>1. Moves(s, "probe", None)
  BY GoMoves DEF Lock
<1>2. \A r \in Starters : st[r].pc \notin Holding
  BY LauncherAssumption DEF Lock, Locked, Holding
<1>3. LaunchShape'
  BY <1>1, Zenon DEF LaunchShape, Moves, Lock
<1>4. Locked'
  BY <1>1, <1>2, Zenon DEF Locked, Moves, Holding, Lock
<1>5. Placed'
  BY <1>1, <1>2 DEF Placed, Moves, Holding, Lock
<1>6. Alone'
  BY <1>1, <1>2 DEF Alone, Moves, Holding, Lock
<1> QED
  BY <1>3, <1>4, <1>5, <1>6, Zenon DEF Lock

(* The holder s of the lock lets go of it: no other starter was relying on *)
(* it, and what is alive serves.                                           *)
LEMMA ReleaseStep ==
    ASSUME Calm, NEW s \in Starters, st[s].pc \in Holding,
           DOMAIN st' = Starters, \A r \in Starters : DOMAIN st'[r] = StFields,
           st'[s].pc \in {"idle", "resolved"},
           \A r \in Starters : r # s => st'[r] = st[r] \/ st'[r].pc = "idle",
           path' = path, env' = env, flock' = None,
           DOMAIN wk' = Workers, \A w \in Workers : DOMAIN wk'[w] = WkFields,
           \A w \in Workers : \/ /\ wk'[w].pc = wk[w].pc /\ wk'[w].said = wk[w].said
                                 /\ wk[w].pc \in {"gone", "serving"}
                              \/ wk'[w].pc = "gone"
    PROVE  Calm'
<1> USE DEF Calm
<1>1. \A r \in Starters : st'[r].pc \notin Holding
  BY DEF Locked, Holding
<1>2. LaunchShape'
  BY Zenon DEF LaunchShape
<1>3. Locked' /\ Placed'
  BY <1>1 DEF Locked, Placed, Holding
<1>4. Alone'
  BY <1>1 DEF Alone, Holding
<1> QED
  BY <1>2, <1>3, <1>4, Zenon

(* Under the lock, and unless the holder waits for one, every worker alive *)
(* serves.                                                                 *)
LEMMA NoneComesUp ==
    ASSUME Calm, NEW s \in Starters, st[s].pc \in Holding, st[s].pc # "wait",
           NEW w \in Workers
    PROVE  wk[w].pc \in {"gone", "serving"}
BY DEF Calm, Locked, Placed, Holding

LEMMA ProbeLockedStep ==
    ASSUME Calm, NEW s \in Starters, ProbeLocked(s) PROVE Calm'
<1> USE DEF Calm
<1>0. st[s].pc = "probe" /\ UNCHANGED <<path, env>>
  BY DEF ProbeLocked
<1>1. /\ Stay
      /\ \/ Go(s, "resolved") /\ flock' = None
         \/ Moves(s, st[s].pc, st[s].worker) /\ UNCHANGED <<cache, flock>>
         \/ /\ Go(s, "unlink") /\ UNCHANGED flock
            /\ \A w \in Workers : wk[w].pc \in {"bound", "serving"} => path # w
  BY ProbeMoves, ZenonT(30) DEF ProbeLocked
<1>2. CASE Go(s, "resolved") /\ flock' = None
  <2>1. Moves(s, "resolved", None)
    BY <1>2, GoMoves
  <2>2. \A w \in Workers : wk[w].pc \in {"gone", "serving"}
    BY <1>0, NoneComesUp, Zenon DEF Holding
  <2> QED
    BY <1>0, <1>1, <1>2, <2>1, <2>2, ReleaseStep DEF Moves, Stay, LaunchShape, Holding
<1>3. CASE Moves(s, st[s].pc, st[s].worker) /\ UNCHANGED <<cache, flock>>
  BY <1>0, <1>1, <1>3, QuietStep, Zenon
<1>4. CASE /\ Go(s, "unlink") /\ UNCHANGED flock
           /\ \A w \in Workers : wk[w].pc \in {"bound", "serving"} => path # w
  <2>1. Moves(s, "unlink", None)
    BY <1>4, GoMoves
  <2>2. \A w \in Workers : wk[w].pc = "gone"
    BY <1>0, <1>4, NoneComesUp DEF Holding, Placed
  <2>3. LaunchShape' /\ Locked'
    BY <1>0, <1>1, <1>4, <2>1, Zenon DEF LaunchShape, Locked, Moves, Stay
  <2>4. Placed'
    BY <1>1, <2>2 DEF Placed, Stay
  <2>5. Alone'
    BY <1>1, <2>1, <2>2 DEF Alone, Moves, Stay
  <2> QED
    BY <1>0, <2>3, <2>4, <2>5
<1> QED
  BY <1>1, <1>2, <1>3, <1>4, Zenon
LEMMA UnlinkStep ==
    ASSUME Calm, NEW s \in Starters, Unlink(s) PROVE Calm'
<1> USE DEF Calm
<1>1. Moves(s, "spawn", None)
  BY GoMoves DEF Unlink
<1>2. \A w \in Workers : wk[w].pc = "gone"
  BY Zenon DEF Unlink, Alone
<1>3. LaunchShape' /\ Locked'
  BY <1>1 DEF LaunchShape, Locked, Moves, Unlink
<1>4. Placed'
  BY <1>2, Zenon DEF Placed, Unlink
<1>5. Alone'
  BY <1>1, <1>2 DEF Alone, Moves, Unlink
<1> QED
  BY <1>3, <1>4, <1>5, Zenon DEF Unlink

LEMMA SpawnStep ==
    ASSUME Calm, NEW s \in Starters, NEW w \in Workers, Spawn(s, w) PROVE Calm'
<1> USE DEF Calm
<1>1. Moves(s, "wait", w)
  BY DEF Spawn, LaunchShape, Idle, Moves, StFields
<1>2. Becomes(w, "starting", FALSE)
  BY DEF Spawn, LaunchShape, Gone, Becomes, WkFields
<1>3. \A v \in Workers : wk[v].pc = "gone"
  BY Zenon DEF Spawn, Alone
<1>4. \A r \in Starters : r # s => st[r].pc \notin Holding
  BY DEF Spawn, Locked, Holding
<1>5. LaunchShape' /\ Locked'
  BY <1>1, <1>2 DEF LaunchShape, Locked, Moves, Becomes, Spawn
<1>6. Placed'
  BY <1>1, <1>2, <1>3 DEF Placed, Moves, Becomes, Spawn
<1>7. Alone'
  BY <1>1, <1>2, <1>3, <1>4 DEF Alone, Moves, Becomes, Holding
<1> QED
  BY <1>5, <1>6, <1>7, Zenon DEF Spawn

LEMMA SpawnFailStep ==
    ASSUME Calm, NEW s \in Starters, SpawnFail(s) PROVE Calm'
<1>1. Moves(s, "idle", None)
  BY GoMoves DEF SpawnFail, Calm
<1>2. \A w \in Workers : wk[w].pc = "gone"
  BY Zenon DEF SpawnFail, Alone, Calm
<1> QED
  BY <1>1, <1>2, ReleaseStep, Zenon DEF SpawnFail, Moves, Holding, Calm, LaunchShape

(* The discovery line is read: the child serves, or has gone.              *)
LEMMA DiscoverStep ==
    ASSUME Calm, NEW s \in Starters, ReadDiscoveryLine(s) PROVE Calm'
<1>1. Moves(s, "resolved", None)
  BY GoMoves, Zenon DEF ReadDiscoveryLine, Calm
<1>2. \A w \in Workers : wk[w].pc \in {"gone", "serving"}
  BY DEF ReadDiscoveryLine, Alone, Placed, Calm
<1> QED
  BY <1>1, <1>2, ReleaseStep DEF ReadDiscoveryLine, Moves, Holding, Calm, LaunchShape

LEMMA UndiscoveredStep ==
    ASSUME Calm, NEW s \in Starters, Undiscovered(s) PROVE Calm'
<1> USE DEF Calm
<1>1. PICK w \in Workers :
        /\ w = st[s].worker
        /\ wk' = [wk EXCEPT ![w] = Gone]
        /\ st' = [Broken(Attached(w)) EXCEPT ![s] = Idle]
  BY ZenonT(30) DEF Undiscovered, Alone, Killed
<1>2. Becomes(w, "gone", FALSE)
  BY <1>1, Zenon DEF LaunchShape, Gone, Becomes, WkFields
<1>3. \A v \in Workers : v # w => wk[v].pc = "gone"
  BY <1>1, Zenon DEF Undiscovered, Alone
<1>4. /\ DOMAIN st' = Starters /\ \A r \in Starters : DOMAIN st'[r] = StFields
      /\ st'[s].pc = "idle"
      /\ \A r \in Starters : r # s => st'[r] = st[r] \/ st'[r].pc = "idle"
  BY <1>1, Zenon DEF Broken, Idle, LaunchShape, StFields
<1>5. st[s].pc \in Holding /\ UNCHANGED <<path, env>> /\ flock' = None
  BY Zenon DEF Undiscovered, Holding
<1> QED
  BY <1>2, <1>3, <1>4, <1>5, ReleaseStep, SMTT(30) DEF Becomes, LaunchShape

LEMMA ConnectStep ==
    ASSUME Calm, NEW s \in Starters, Connect(s) PROVE Calm'
<1> USE DEF Calm
<1>1. st[s].pc = "resolved" /\ UNCHANGED <<flock, path, env>>
  BY DEF Connect
<1>2. CASE Answer = "connected"
  <2>1. path \in Workers
    BY <1>2 DEF Answer, LaunchShape
  <2>2. Moves(s, "connected", path)
    <3>1. st' = [st EXCEPT ![s] = [Idle EXCEPT !.pc = "connected", !.worker = path]]
      BY <1>2 DEF Connect
    <3> QED
      BY <3>1 DEF Moves, LaunchShape, Idle, StFields
  <2>3. Stay
    BY <1>2, <2>1 DEF Connect, Stay, LaunchShape, WkFields
  <2> QED
    BY <1>1, <2>1, <2>2, <2>3, QuietStep, Zenon DEF Holding
<1>3. CASE Answer # "connected"
  <2>1. Moves(s, "idle", None)
    BY <1>3, GoMoves DEF Connect
  <2>2. Stay
    BY <1>3 DEF Connect, Stay, LaunchShape
  <2> QED
    BY <1>1, <2>1, <2>2, QuietStep, Zenon DEF Holding
<1> QED
  BY <1>2, <1>3

LEMMA DisconnectStep ==
    ASSUME Calm, NEW s \in Starters, Disconnect(s) PROVE Calm'
<1>1. Moves(s, "idle", None)
  BY GoMoves DEF Disconnect, Calm
<1>2. st[s].worker \in Workers
  BY Zenon DEF Disconnect, Calm, Alone
<1>3. Stay
  BY <1>2, Zenon DEF Disconnect, Closed, Stay, Calm, LaunchShape, WkFields
<1> QED
  BY <1>1, <1>3, QuietStep, Zenon DEF Disconnect, Holding
-----------------------------------------------------------------------------
(* The steps of the workers.                                               *)

(* A worker that is coming up is the only one.                             *)
LEMMA OnlyChild ==
    ASSUME Calm, NEW w \in Workers, wk[w].pc \in {"starting", "unlinked", "bound"}
    PROVE  \A v \in Workers : v # w => wk[v].pc = "gone"
BY DEF Calm, Placed, Alone

(* The only worker alive takes a step that does not concern the starters.  *)
LEMMA OnlyWorkerStep ==
    ASSUME Calm, NEW w \in Workers, NEW pc, NEW said, Becomes(w, pc, said),
           wk[w].pc # "gone", \A v \in Workers : v # w => wk[v].pc = "gone",
           pc \in {"gone", "unlinked", "bound", "serving"},
           pc \in {"unlinked", "bound"} => wk[w].pc \in {"starting", "unlinked", "bound"},
           said => pc \in {"serving", "gone"},
           pc \in {"bound", "serving"} => path' = w, path' \in Workers \cup {None},
           DOMAIN st' = Starters,
           \A r \in Starters : \/ st'[r] = st[r]
                               \/ st[r].pc = "connected" /\ st'[r] = Idle,
           UNCHANGED <<flock, env>>
    PROVE  Calm'
<1> USE DEF Calm
<1>1. \A r \in Starters : /\ st'[r].pc \in Holding \/ st[r].pc \in Holding => st'[r] = st[r]
                          /\ st'[r].pc = "connected" => st'[r] = st[r]
                          /\ DOMAIN st'[r] = StFields
  BY DEF Idle, Holding, LaunchShape, StFields
<1>2. LaunchShape'
  BY <1>1 DEF LaunchShape, Becomes
<1>3. Locked'
  BY <1>1, Zenon DEF Locked, Holding
<1>4. Placed'
  BY <1>1 DEF Placed, Becomes, Holding
<1>5. Alone'
  BY <1>1 DEF Alone, Becomes, Holding
<1> QED
  BY <1>2, <1>3, <1>4, <1>5, Zenon

LEMMA RemoveStaleStep ==
    ASSUME Calm, NEW w \in Workers, RemoveStale(w) PROVE Calm'
<1>1. Becomes(w, "unlinked", wk[w].said) /\ ~wk[w].said
  BY DEF RemoveStale, Be, Becomes, Calm, LaunchShape, WkFields, Placed
<1> QED
  BY <1>1, OnlyChild, OnlyWorkerStep DEF RemoveStale, Calm, LaunchShape

LEMMA BindStep ==
    ASSUME Calm, NEW w \in Workers, Bind(w) PROVE Calm'
<1>1. CASE path = None
  <2>1. Becomes(w, "bound", wk[w].said) /\ ~wk[w].said
    BY <1>1 DEF Bind, Be, Becomes, Calm, LaunchShape, WkFields, Placed
  <2> QED
    BY <1>1, <2>1, OnlyChild, OnlyWorkerStep DEF Bind, Calm, LaunchShape
<1>2. CASE path # None
  <2>1. Becomes(w, "gone", FALSE)
    BY <1>2 DEF Bind, Gone, Becomes, Calm, LaunchShape, WkFields
  <2> QED
    BY <1>2, <2>1, OnlyChild, OnlyWorkerStep, ZenonT(30) DEF Bind, Calm, LaunchShape
<1> QED
  BY <1>1, <1>2

(* Those a worker leaves behind were connected to it.                      *)
LEMMA BrokenStarters ==
    ASSUME Calm, NEW w \in Workers, st' = Broken(Attached(w))
    PROVE  /\ DOMAIN st' = Starters
           /\ \A r \in Starters : \/ st'[r] = st[r]
                                  \/ st[r].pc = "connected" /\ st'[r] = Idle
BY Zenon DEF Broken, Attached, Calm, LaunchShape

LEMMA AnnounceStep ==
    ASSUME Calm, NEW w \in Workers, Announce(w) PROVE Calm'
<1>1. path' = w /\ wk[w].pc = "bound" /\ UNCHANGED <<flock, path, env>>
  BY Zenon DEF Announce, Calm, Placed
<1>2. CASE wk[w].reader
  <2>1. Becomes(w, "serving", TRUE) /\ UNCHANGED st
    <3>1. wk' = [wk EXCEPT ![w] = [@ EXCEPT !.pc = "serving", !.said = TRUE]] /\ UNCHANGED st
      BY <1>2, Zenon DEF Announce
    <3> QED
      BY <3>1 DEF Becomes, Calm, LaunchShape, WkFields
  <2> QED
    BY <1>1, <2>1, OnlyChild, OnlyWorkerStep, ZenonT(30) DEF Calm, LaunchShape
<1>3. CASE ~wk[w].reader
  <2>1. Becomes(w, "gone", FALSE) /\ st' = Broken(Attached(w))
    BY <1>3 DEF Announce, Gone, Becomes, Calm, LaunchShape, WkFields
  <2> QED
    BY <1>1, <2>1, OnlyChild, OnlyWorkerStep, BrokenStarters, ZenonT(30)
<1> QED
  BY <1>2, <1>3

LEMMA AcceptStep ==
    ASSUME Calm, NEW w \in Workers, Accept(w) PROVE Calm'
<1> USE DEF Calm
<1>1. Stay
  <2>1. CASE wk' = [wk EXCEPT ![w].probes = @ - 1]
    BY <2>1 DEF Stay, LaunchShape, WkFields
  <2>2. CASE \E s \in wk[w].clients : wk' = [wk EXCEPT ![w] = Accepted(w, s)]
    BY <2>2 DEF Stay, LaunchShape, WkFields, Accepted
  <2> QED
    BY <2>1, <2>2, Zenon DEF Accept
<1>2. UNCHANGED <<st, flock, path, env>>
  BY DEF Accept
<1>3. LaunchShape' /\ Locked' /\ Placed' /\ Alone'
  BY <1>1, <1>2 DEF LaunchShape, Locked, Placed, Alone, Stay
<1> QED
  BY <1>2, <1>3

LEMMA DieStep ==
    ASSUME Calm, NEW w \in Workers, Die(w) PROVE Calm'
<1>1. Becomes(w, "gone", wk[w].said) /\ st' = Broken(Attached(w))
  BY Zenon DEF Die, End, Gone, Becomes, Calm, LaunchShape, WkFields
<1>2. \A v \in Workers : v # w => wk[v].pc = "gone"
  BY LauncherAssumption DEF Die, Calm, Placed, Alone
<1> QED
  BY <1>1, <1>2, OnlyWorkerStep, BrokenStarters, Zenon DEF Die, End, Calm, LaunchShape

-----------------------------------------------------------------------------

LEMMA LaunchInit ==
    ASSUME Init PROVE LaunchInv
<1>1. LaunchShape
  BY Zenon DEF Init, LaunchShape, Idle, Gone, WkFields, StFields
<1>2. /\ \A s \in Starters : st[s].pc = "idle"
      /\ \A w \in Workers : wk[w].pc = "gone" /\ wk[w].said = FALSE
  BY Zenon DEF Init, Idle, Gone
<1> QED
  BY <1>1, <1>2, Zenon DEF LaunchInv, Locked, Placed, Alone

LEMMA LaunchInductive == Spec => []LaunchInv
<1>1. ASSUME LaunchInv, [Next]_vars PROVE LaunchInv'
  <2>1. env' = env
    BY <1>1, ZenonT(30) DEF Next, vars, StarterStep, Ensure, ProbeCached, Lock, ProbeLocked, Unlink, Spawn,
       SpawnFail, ReadDiscoveryLine, Undiscovered, OtherPath, Connect, Disconnect, Crash, RemoveStale, Bind, Announce,
       Accept, IdleTimeout, Stop, DropListener, RemovePath, JoinNext, Exit, Die, End
  <2>2. SUFFICES ASSUME Calm PROVE Calm'
    BY <1>1, <2>1 DEF LaunchInv, Calm
  <2>3. ASSUME NEW s \in Starters, Ensure(s) \/ StarterStep(s) \/ Disconnect(s)
        PROVE  Calm'
    <3>1. ~OtherPath(s)
      BY <2>2 DEF OtherPath, Calm
    <3> QED
      BY Zenon, <2>2, <2>3, <3>1, EnsureStep, ProbeCachedStep, LockStep, ProbeLockedStep, UnlinkStep, SpawnStep,
         SpawnFailStep, DiscoverStep, UndiscoveredStep, ConnectStep, DisconnectStep, SMTT(30) DEF StarterStep
  <2>4. ASSUME NEW w \in Workers, RemoveStale(w) \/ Bind(w) \/ Announce(w) \/ Accept(w) \/ Die(w)
        PROVE  Calm'
    BY <2>2, <2>4, RemoveStaleStep, BindStep, AnnounceStep, AcceptStep, DieStep, SMTT(30)
  <2>5. ASSUME NEW s \in Starters PROVE ~Crash(s)
    BY <2>2 DEF Crash, Calm
  <2>6. ASSUME NEW w \in Workers
        PROVE  /\ ~IdleTimeout(w) /\ ~Stop(w)
               /\ ~DropListener(w) /\ ~RemovePath(w) /\ ~JoinNext(w) /\ ~Exit(w)
    BY <2>2, Zenon DEF Calm, Placed, IdleTimeout, Stop, DropListener, RemovePath, JoinNext, Exit, Joined
  <2>7. CASE UNCHANGED vars
    BY <2>2, <2>7 DEF vars, Calm, LaunchShape, Locked, Placed, Alone
  <2> QED
    BY <1>1, <2>3, <2>4, <2>5, <2>6, <2>7, SMTT(30) DEF Next
<1> QED
  BY <1>1, LaunchInit, PTL DEF Spec

(* While no worker stops of itself and no starter is killed, any number of *)
(* processes that ask for the worker at once, whose probes and spawns time *)
(* out or are answered in any order, share one worker, and nobody unlinks  *)
(* the socket it serves on (ensure_worker, serve_unix).                    *)
THEOREM LauncherCalm == Spec => []CalmLaunch
<1>1. LaunchInv => CalmLaunch
  <2>1. ASSUME Calm, NEW v \in Workers, NEW w \in Workers, wk[v].pc # "gone", wk[w].pc # "gone"
        PROVE  v = w
    BY <2>1 DEF Calm, Placed, Alone
  <2>2. ASSUME Calm PROVE SocketKept
    BY <2>2, Zenon DEF Calm, Placed, SocketKept
  <2> QED
    BY <2>1, <2>2, Zenon DEF LaunchInv, Calm, CalmLaunch, OneWorker, CalmSocketKept
<1> QED
  BY <1>1, LaunchInductive, PTL

-----------------------------------------------------------------------------
(* HttpCall.                                                               *)

(* What has the fields of a thread, and of the state under the mutex.      *)
ThreadFields == {"pc", "calls", "method", "attempt", "spent", "second", "bearer", "out", "applied",
           "chal", "rt", "got", "slept", "slower", "fails"}

AuthFields == {"phase", "tokens", "refresh", "endpoints", "woken"}

CallShape ==
    /\ DOMAIN th = Threads
    /\ \A t \in Threads : DOMAIN th[t] = ThreadFields
    /\ DOMAIN auth = AuthFields
    /\ issued \in Nat

(* A call of a method that is not repeated has run once at most, and when  *)
(* it has, what is left to do is to return.                                *)
RanOnce ==
    \A t \in Threads :
        ~MethodIsRetryable(th[t].method)
            => /\ th[t].applied \in 0..1
               /\ th[t].applied = 1 => th[t].pc = "decide"

Leading == {"acquire", "discover", "refresh", "poll", "publish", "failed"}

Steady == fault \in {Nil, "revoked"}

(* The phase says that an exchange is under way, and no two are.           *)
NotCleared == fault # "cleared"

Single ==
    NotCleared => /\ \A t, u \in Threads : th[t].pc \in Leading /\ th[u].pc \in Leading => t = u
                  /\ \A t \in Threads : th[t].pc \in Leading => auth.phase = "in_progress"

StoredGood == issued > 0 /\ auth.refresh # Nil => auth.refresh = grant

(* What the leader holds: the stored token until it is exchanged, the one  *)
(* that came with the new tokens after that; in the device-code flow there *)
(* is none that could be used again.                                       *)
Held(t) ==
    CASE th[t].pc \in {"acquire", "failed"} -> StoredGood
      [] th[t].pc = "discover" -> StoredGood /\ th[t].rt = auth.refresh
      [] th[t].pc = "refresh" -> StoredGood /\ th[t].rt = auth.refresh /\ th[t].rt # Nil
      [] th[t].pc = "poll" -> auth.refresh = Nil
      [] th[t].pc = "publish" -> IF th[t].rt # Nil THEN th[t].rt = grant ELSE auth.refresh = Nil
      [] OTHER -> TRUE

Good ==
    Steady => /\ \A t \in Threads : Held(t)
              /\ (\A t \in Threads : th[t].pc \notin Leading) => StoredGood

CallInv == CallShape /\ RanOnce /\ Single /\ Good

LEMMA CallInit ==
    ASSUME HttpInit PROVE CallInv
<1>1. CallShape
  BY Zenon DEF HttpInit, CallShape, IdleThread, ThreadFields, AuthFields
<1>2. \A t \in Threads : th[t].pc = "idle" /\ th[t].applied = 0
  BY Zenon DEF HttpInit, IdleThread
<1>3. issued = 0
  BY DEF HttpInit
<1> QED
  BY <1>1, <1>2, <1>3 DEF CallInv, RanOnce, Single, Good, Held, StoredGood, Leading

(* What the building blocks of the actions do to the thread that takes one.*)
Kept(t) ==
    /\ DOMAIN th' = Threads /\ DOMAIN th'[t] = ThreadFields
    /\ \A u \in Threads : u # t => th'[u] = th[u]
    /\ th'[t].method = th[t].method /\ th'[t].applied = th[t].applied

LEMMA GoToMoves ==
    ASSUME CallShape, NEW t \in Threads
    PROVE  \A pc : GoTo(t, pc) => Kept(t) /\ th'[t].pc = pc /\ th'[t].rt = th[t].rt
BY DEF CallShape, GoTo, Kept, ThreadFields

LEMMA FailMoves ==
    ASSUME CallShape, NEW t \in Threads, Fail(t)
    PROVE  Kept(t) /\ th'[t].pc = "decide"
BY DEF CallShape, Fail, Forget, Kept, ThreadFields

LEMMA RecoveredMoves ==
    ASSUME CallShape, NEW t \in Threads, Recovered(t)
    PROVE  Kept(t) /\ th'[t].pc = "ensure"
BY DEF CallShape, Recovered, Forget, Kept, ThreadFields

LEMMA IssueMoves ==
    ASSUME CallShape, NEW t \in Threads
    PROVE  \A rotate, old : Issue(t, rotate, old) =>
              /\ Kept(t) /\ th'[t].pc = "publish"
              /\ th'[t].rt = IF rotate THEN issued + 1 ELSE old
              /\ grant' = IF rotate THEN issued + 1 ELSE grant
              /\ issued' = issued + 1
<1> SUFFICES ASSUME NEW rotate, NEW old, Issue(t, rotate, old)
             PROVE  Kept(t) /\ th'[t].pc = "publish" /\ th'[t].rt = IF rotate THEN issued + 1 ELSE old
  BY Zenon DEF Issue
<1> QED
  BY DEF CallShape, Issue, Kept, ThreadFields

(* A turn of the polling loop ends it, brings tokens, or is followed by    *)
(* another.                                                                *)
LEMMA PollMoves ==
    ASSUME CallShape, NEW t \in Threads, Poll(t)
    PROVE  /\ UNCHANGED <<auth, fault>>
           /\ Kept(t)
           /\ \/ th'[t].pc = "failed" /\ UNCHANGED <<issued, grant>>
              \/ th'[t].pc = "poll" /\ UNCHANGED <<issued, grant>>
              \/ \E rotate \in BOOLEAN : Issue(t, rotate, Nil)
<1>1. CASE GoTo(t, "failed") /\ UNCHANGED <<issued, valid, grant>>
  BY <1>1, GoToMoves, Zenon DEF Poll
<1>2. CASE \E rotate \in BOOLEAN : Issue(t, rotate, Nil)
  BY <1>2, IssueMoves, Zenon DEF Poll
<1>3. ASSUME NEW fails, NEW slower, Continue(t, fails, slower)
      PROVE  Kept(t) /\ th'[t].pc = th[t].pc
  BY <1>3, SMTT(20) DEF Continue, Kept, CallShape, ThreadFields
<1> QED
  BY <1>1, <1>2, <1>3, Zenon DEF Poll

LEMMA ShapeStep ==
    ASSUME CallShape, [HttpNext]_httpVars
    PROVE  CallShape'
<1> USE DEF CallShape
<1>1. ASSUME NEW t \in Threads, NEW m, Call(t, m)
      PROVE  CallShape'
  BY <1>1, Zenon DEF Call, Others, IdleThread, ThreadFields
<1>2. ASSUME NEW t \in Threads, EnsureClient(t) \/ Acquire(t)
      PROVE  CallShape'
  BY <1>2, ZenonT(30) DEF EnsureClient, Acquire, Others
<1>3. ASSUME NEW t \in Threads, Serve(t)
      PROVE  CallShape'
  BY <1>3 DEF Serve, Others
<1>4. ASSUME NEW t \in Threads, AfterAttempt(t)
      PROVE  CallShape'
  BY <1>4 DEF AfterAttempt, Others, Return, IdleThread, ThreadFields
<1>5. ASSUME NEW t \in Threads, HandleUnauthorized(t) \/ Discover(t)
      PROVE  CallShape'
  BY <1>5, GoToMoves, RecoveredMoves DEF HandleUnauthorized, Discover, Others, Kept
<1>6. ASSUME NEW t \in Threads, Wake(t) \/ PublishFailure(t)
      PROVE  CallShape'
  <2>1. Kept(t) /\ UNCHANGED Others
    BY <1>6, GoToMoves, FailMoves, Zenon DEF Wake, PublishFailure
  <2>2. DOMAIN auth' = DOMAIN auth
    BY <1>6, Zenon DEF Wake, PublishFailure
  <2> QED
    BY <2>1, <2>2, Zenon DEF Kept, Others
<1>7. ASSUME NEW t \in Threads, Refresh(t)
      PROVE  CallShape'
  BY <1>7, GoToMoves, IssueMoves DEF Refresh, Others, Kept
<1>8. ASSUME NEW t \in Threads, Poll(t)
      PROVE  CallShape'
  BY <1>8, PollMoves, IssueMoves DEF Kept
<1>9. ASSUME NEW t \in Threads, Publish(t)
      PROVE  CallShape'
  <2>1. Kept(t) /\ UNCHANGED Others
    BY <1>9, RecoveredMoves, Zenon DEF Publish
  <2>2. DOMAIN auth' = DOMAIN auth
    BY <1>9, Zenon DEF Publish
  <2> QED
    BY <2>1, <2>2, Zenon DEF Kept, Others
<1>10. ASSUME Clear \/ Age \/ Revoke
       PROVE  CallShape'
  BY <1>10, ZenonT(30) DEF Clear, Age, Revoke
<1>11. CASE UNCHANGED httpVars
  BY <1>11 DEF httpVars
<1> QED
  BY <1>1, <1>2, <1>3, <1>4, <1>5, <1>6, <1>7, <1>8, <1>9, <1>10, <1>11, ZenonT(30) DEF HttpNext, Step, OwnStep, Answered

(* A step of t leaves the others where they are.                           *)
LEMMA OthersStay ==
    ASSUME CallShape, NEW t \in Threads, Step(t) \/ \E m \in MethodsOf[t] : Call(t, m)
    PROVE  \A u \in Threads : u # t => th'[u] = th[u]
BY ZenonT(30) DEF CallShape, Step, OwnStep, Answered, Call, EnsureClient, Serve, AfterAttempt, HandleUnauthorized, Wake, Acquire,
       Discover, Refresh, Poll, Publish, PublishFailure, GoTo, Fail, Recovered, Issue, Continue

-----------------------------------------------------------------------------
(* AtMostOnce.                                                             *)

LEMMA MinTwo ==
    ASSUME NEW n \in {1, 2}
    PROVE  Min({n, 2}) = n
<1>1. n \in {n, 2} /\ \A y \in {n, 2} : n <= y
  OBVIOUS
<1>2. \A x \in {n, 2} : (\A y \in {n, 2} : x <= y) => x = n
  OBVIOUS
<1> QED
  BY <1>1, <1>2 DEF Min

(* The step of a thread whose call must not be repeated.                   *)
LEMMA RanOnceStep ==
    ASSUME CallShape, RanOnce, [HttpNext]_httpVars
    PROVE  RanOnce'
<1>1. ASSUME NEW t \in Threads, Step(t) \/ (\E m \in MethodsOf[t] : Call(t, m)),
             ~MethodIsRetryable(th'[t].method)
      PROVE  th'[t].applied \in 0..1 /\ (th'[t].applied = 1 => th'[t].pc = "decide")
  <2>1. CASE \E m \in MethodsOf[t] : Call(t, m)
    BY <2>1 DEF CallShape, Call, IdleThread
  <2>2. CASE Serve(t)
    <3>1. /\ th[t].pc = "sent" /\ th[t].applied = 0
      BY <1>1, <2>2 DEF CallShape, RanOnce, Serve, ThreadFields
    <3>2. PICK out \in {"ok", "error", "502", "429", "unavailable", "401"} :
            \E ran \in IF out = "502" THEN BOOLEAN ELSE {(out \in {"ok", "error", "502"})},
               chal \in FetchChallenge(WithRetry(out, th[t].second)) :
              th' = [th EXCEPT ![t] =
                       [@ EXCEPT !.pc = WithRetry(out, th[t].second), !.chal = chal,
                                 !.out = Class(out), !.bearer = Nil,
                                 !.applied = IF ran THEN Min({th[t].applied + 1, 2})
                                             ELSE th[t].applied]]
      BY <2>2, Zenon DEF Serve
    <3>3. PICK ran \in IF out = "502" THEN BOOLEAN ELSE {(out \in {"ok", "error", "502"})},
               chal \in FetchChallenge(WithRetry(out, th[t].second)) :
              th' = [th EXCEPT ![t] =
                       [@ EXCEPT !.pc = WithRetry(out, th[t].second), !.chal = chal,
                                 !.out = Class(out), !.bearer = Nil,
                                 !.applied = IF ran THEN Min({th[t].applied + 1, 2})
                                             ELSE th[t].applied]]
      BY <3>2, Zenon
    <3>4. /\ th'[t].pc = WithRetry(out, th[t].second)
          /\ th'[t].applied \in {th[t].applied, Min({th[t].applied + 1, 2})}
      BY <3>3 DEF CallShape, ThreadFields
    <3>5. CASE out \in {"ok", "error", "502"}
      BY <3>1, <3>4, <3>5, MinTwo DEF WithRetry
    <3>6. CASE out \notin {"ok", "error", "502"}
      <4>1. ~ran
        BY <3>3, <3>6, Zenon
      <4>2. th'[t].applied = th[t].applied
        BY <3>3, <4>1 DEF CallShape, ThreadFields
      <4> QED
        BY <3>1, <4>2
    <3> QED
      BY <3>5, <3>6, Zenon
  <2>3. CASE AfterAttempt(t)
    <3>1. CASE ~MethodIsRetryable(th[t].method)
      <4>1. th' = [th EXCEPT ![t] = Return(t)]
        BY <2>3, <3>1 DEF AfterAttempt
      <4> QED
        BY <4>1 DEF CallShape, Return, IdleThread
    <3>2. CASE MethodIsRetryable(th[t].method)
      BY <1>1, <2>3, <3>2 DEF CallShape, AfterAttempt, ThreadFields, Return, IdleThread
    <3> QED
      BY <3>1, <3>2, Zenon
  <2>4. CASE EnsureClient(t) \/ Acquire(t)
    <3>1. th[t].pc # "decide"
      BY <2>4 DEF EnsureClient, Acquire
    <3>2. EnsureClient(t) => Kept(t)
      BY DEF CallShape, ThreadFields, EnsureClient, Kept
    <3>3. Acquire(t) => Kept(t)
      BY DEF CallShape, ThreadFields, Acquire, Kept
    <3> QED
      BY <1>1, <2>4, <3>1, <3>2, <3>3, Zenon DEF RanOnce, Kept
  <2>5. CASE HandleUnauthorized(t) \/ Wake(t) \/ Discover(t)
    <3>1. th[t].pc # "decide" /\ Kept(t)
      BY <2>5, GoToMoves, FailMoves, RecoveredMoves, Zenon DEF HandleUnauthorized, Wake, Discover
    <3> QED
      BY <1>1, <3>1, Zenon DEF RanOnce, Kept
  <2>6. CASE Refresh(t) \/ Poll(t)
    <3>1. th[t].pc # "decide" /\ Kept(t)
      BY <2>6, GoToMoves, IssueMoves, PollMoves, Zenon DEF Refresh, Poll
    <3> QED
      BY <1>1, <3>1, Zenon DEF RanOnce, Kept
  <2>7. CASE Publish(t) \/ PublishFailure(t)
    <3>1. th[t].pc # "decide" /\ Kept(t)
      BY <2>7, FailMoves, RecoveredMoves, Zenon DEF Publish, PublishFailure
    <3> QED
      BY <1>1, <3>1, Zenon DEF RanOnce, Kept
  <2> QED
    BY <1>1, <2>1, <2>2, <2>3, <2>4, <2>5, <2>6, <2>7 DEF Step, OwnStep, Answered
<1>2. ASSUME NEW t \in Threads, Step(t) \/ \E m \in MethodsOf[t] : Call(t, m)
      PROVE  RanOnce'
  <2> SUFFICES ASSUME NEW u \in Threads, u # t, th'[u] = th[u], ~MethodIsRetryable(th'[u].method)
               PROVE  /\ th'[u].applied \in 0..1
                      /\ th'[u].applied = 1 => th'[u].pc = "decide"
    BY <1>1, <1>2, OthersStay, Zenon DEF RanOnce
  <2> QED
    BY Zenon DEF RanOnce
<1>3. CASE Clear \/ Age \/ Revoke \/ UNCHANGED httpVars
  BY <1>3, Zenon DEF RanOnce, Clear, Age, Revoke, httpVars
<1> QED
  BY <1>2, <1>3, SMTT(20) DEF HttpNext

-----------------------------------------------------------------------------
(* OneExchange.                                                            *)

(* A step that starts no exchange and moves no token.                      *)
Aside(t) ==
    /\ th[t].pc \notin Leading /\ th'[t].pc \notin Leading
    /\ auth'.phase = auth.phase /\ auth'.refresh = auth.refresh
    /\ UNCHANGED Others

LEMMA AsideStep ==
    ASSUME CallShape, Single, Good, NEW t \in Threads, Aside(t),
           \A u \in Threads : u # t => th'[u] = th[u]
    PROVE  Single' /\ Good'
<1>1. \A u \in Threads : /\ th'[u].pc \in Leading <=> th[u].pc \in Leading
                         /\ th'[u].pc \in Leading => th'[u] = th[u]
  BY DEF Aside
<1>2. fault' = fault /\ issued' = issued /\ grant' = grant
  BY DEF Aside, Others
<1>3. Single'
  BY <1>1, <1>2, Zenon DEF Single, NotCleared, Aside
<1>4. StoredGood' <=> StoredGood
  BY <1>2 DEF StoredGood, Aside
<1>5. ASSUME Steady, NEW u \in Threads PROVE Held(u)'
  BY <1>1, <1>2, <1>4, <1>5 DEF Good, Steady, Held, Leading, Aside
<1> QED
  BY <1>1, <1>2, <1>3, <1>4, <1>5, Zenon DEF Good, Steady

(* The step of a thread t that leads an exchange before it or after it.    *)
LEMMA ExchangeStep ==
    ASSUME NEW t \in Threads,
           \A u \in Threads : u # t => th'[u] = th[u] /\ th[u].pc \notin Leading,
           th'[t].pc \in Leading => auth'.phase = "in_progress"
    PROVE  /\ Single'
           /\ (Steady' => Held(t)' /\ (th'[t].pc \notin Leading => StoredGood')) => Good'
<1>1. \A u \in Threads : u # t => th'[u].pc \notin Leading
  OBVIOUS
<1>2. Single'
  BY <1>1, Zenon DEF Single
<1>3. ASSUME NEW u \in Threads, u # t PROVE Held(u)'
  BY <1>1, <1>3, Zenon DEF Held, Leading
<1> QED
  BY <1>1, <1>2, <1>3, Zenon DEF Good

(* The steps of a leader.                                                  *)
Lead(t) == Acquire(t) \/ Discover(t) \/ Refresh(t) \/ Poll(t) \/ Publish(t) \/ PublishFailure(t)

LEMMA LeadStep ==
    ASSUME HttpConstants, CallShape, NEW t \in Threads, Lead(t)
    PROVE  /\ th[t].pc \in Leading
           /\ NotCleared' => NotCleared
           /\ Steady' => Steady
           /\ th'[t].pc \in Leading => auth'.phase = auth.phase
<1>1. th[t].pc \in Leading
  BY Zenon DEF Lead, Leading, Acquire, Discover, Refresh, Poll, Publish, PublishFailure
<1>2. NotCleared' => NotCleared
  BY Zenon DEF Lead, HttpConstants, Faults, NotCleared, Acquire, Discover, Refresh, Poll, Publish, PublishFailure, Others
<1>3. Steady' => Steady
  BY Zenon DEF Lead, HttpConstants, Faults, Steady, Acquire, Discover, Refresh, Poll, Publish, PublishFailure, Others
<1>4. ASSUME Acquire(t) \/ Discover(t) \/ Refresh(t) \/ Poll(t)
      PROVE  auth'.phase = auth.phase
  BY <1>4, Zenon DEF CallShape, AuthFields, Acquire, Discover, Refresh, Poll
<1>5. ASSUME Publish(t) \/ PublishFailure(t) PROVE th'[t].pc \notin Leading
  <2>1. th'[t].pc \in {"ensure", "decide"}
    BY <1>5, RecoveredMoves, FailMoves, Zenon DEF Publish, PublishFailure
  <2> QED
    BY <2>1 DEF Leading
<1> QED
  BY <1>1, <1>2, <1>3, <1>4, <1>5, Zenon DEF Lead

LEMMA GoodStep ==
    ASSUME HttpConstants, CallInv, [HttpNext]_httpVars
    PROVE  Single' /\ Good'
<1> USE DEF CallInv
<1>1. ASSUME NEW t \in Threads, \E m \in MethodsOf[t] : Call(t, m)
      PROVE  Aside(t)
  BY <1>1 DEF Aside, Call, CallShape, ThreadFields, IdleThread, Leading
<1>2. ASSUME NEW t \in Threads, EnsureClient(t)
      PROVE  Aside(t)
  BY <1>2 DEF Aside, EnsureClient, CallShape, ThreadFields, Leading
<1>3. ASSUME NEW t \in Threads, Serve(t)
      PROVE  Aside(t)
  BY <1>3 DEF Aside, Serve, WithRetry, CallShape, ThreadFields, Leading
<1>4. ASSUME NEW t \in Threads, AfterAttempt(t)
      PROVE  Aside(t)
  BY <1>4 DEF Aside, AfterAttempt, Return, IdleThread, CallShape, ThreadFields, Leading
<1>5. ASSUME NEW t \in Threads, Wake(t)
      PROVE  Aside(t)
  <2>1. th[t].pc \notin Leading /\ th'[t].pc \notin Leading
    BY <1>5, GoToMoves, FailMoves DEF Wake, Leading
  <2> QED
    BY <1>5, <2>1 DEF Aside, Wake, CallShape, AuthFields
<1>6. ASSUME NEW t \in Threads, HandleUnauthorized(t)
      PROVE  Single' /\ Good'
  <2>1. CASE Aside(t)
    BY <1>6, <2>1, AsideStep, OthersStay, Zenon DEF Step, OwnStep, Answered
  <2>2. CASE auth.phase # "in_progress" /\ auth' = [auth EXCEPT !.phase = "in_progress"] /\ GoTo(t, "acquire")
    <3>1. \A u \in Threads : u # t => th'[u] = th[u]
      BY <1>6, OthersStay, Zenon DEF Step, OwnStep, Answered
    <3>2. CASE NotCleared
      <4>1. \A u \in Threads : th[u].pc \notin Leading
        BY <2>2, <3>2 DEF Single
      <4>2. Steady => StoredGood
        BY <4>1 DEF Good
      <4>3. auth'.refresh = auth.refresh /\ auth'.phase = "in_progress" /\ th'[t].pc = "acquire"
        BY <2>2 DEF GoTo, CallShape, ThreadFields, AuthFields
      <4>4. UNCHANGED Others
        BY <1>6 DEF HandleUnauthorized
      <4>5. Steady' => Held(t)'
        BY <4>2, <4>3, <4>4 DEF Held, StoredGood, Others, Steady
      <4> QED
        BY <3>1, <4>1, <4>3, <4>5, ExchangeStep, Zenon DEF Leading
    <3>3. CASE ~NotCleared
      BY <1>6, <3>3, Zenon DEF HandleUnauthorized, Others, Steady, NotCleared, Single, Good, HttpConstants, Faults
    <3> QED
      BY <3>2, <3>3
  <2> QED
    <3>1. th[t].pc \notin Leading
      BY <1>6 DEF HandleUnauthorized, Leading
    <3>2. CASE auth' = auth /\ (GoTo(t, "waiting") \/ Recovered(t))
      <4>1. th'[t].pc \in {"waiting", "ensure"}
        BY <3>2, GoToMoves, RecoveredMoves, Zenon
      <4>2. th'[t].pc \notin Leading
        BY <4>1, SMTT(20) DEF Leading
      <4> QED
        BY <1>6, <2>1, <3>1, <3>2, <4>2 DEF HandleUnauthorized, Aside
    <3> QED
      BY <1>6, <2>2, <3>2, Zenon DEF HandleUnauthorized
<1>7. ASSUME NEW t \in Threads, Lead(t)
      PROVE  Single' /\ Good'
  <2>1. \A u \in Threads : u # t => th'[u] = th[u]
    BY <1>7, OthersStay, Zenon DEF Lead, Step, OwnStep, Answered
  <2>2. CASE ~NotCleared'
    BY <2>2, Zenon DEF Single, Good, NotCleared, Steady, HttpConstants, Faults
  <2>3. CASE NotCleared'
    <3>1. /\ auth.phase = "in_progress"
          /\ \A u \in Threads : u # t => th'[u] = th[u] /\ th[u].pc \notin Leading
          /\ th'[t].pc \in Leading => auth'.phase = "in_progress"
      BY <1>7, <2>1, <2>3, LeadStep, Zenon DEF Single
    <3>2. SUFFICES ASSUME Steady'
                   PROVE  Held(t)' /\ (th'[t].pc \notin Leading => StoredGood')
      BY <3>1, ExchangeStep, Zenon
    <3>3. Steady /\ Held(t)
      BY <1>7, <3>2, LeadStep, Zenon DEF Good
    <3>4. CASE Acquire(t)
      BY <3>3, <3>4 DEF Acquire, Exchange, Others, Held, StoredGood, CallShape, ThreadFields, Leading
    <3>5. CASE Discover(t)
      BY <3>3, <3>5 DEF Discover, Exchange, GoTo, Others, Held, StoredGood, CallShape, ThreadFields, AuthFields, Leading
    <3>6. CASE Refresh(t)
      <4>1. StoredGood /\ th[t].rt = auth.refresh /\ th[t].rt # Nil
        BY <3>3, <3>6, Zenon DEF Refresh, Held
      <4>2. CASE th[t].rt = grant /\ auth' = auth /\ \E rotate \in BOOLEAN : Issue(t, rotate, th[t].rt)
        <5>1. th'[t].pc = "publish" /\ th'[t].rt = grant'
          BY <4>2, IssueMoves
        <5> QED
          BY <4>1, <4>2, <5>1, IssueMoves DEF Held, HttpConstants, CallShape, Leading
      <4>3. CASE th[t].rt # grant /\ GoTo(t, "poll") /\ auth' = [auth EXCEPT !.refresh = Nil]
        <5>1. th'[t].pc = "poll" /\ auth'.refresh = Nil
          BY <4>3, GoToMoves DEF CallShape, AuthFields
        <5> QED
          BY <5>1, Zenon DEF Held, Leading
      <4>4. CASE GoTo(t, "failed") /\ UNCHANGED <<auth, Others>>
        <5>1. th'[t].pc = "failed"
          BY <4>4, GoToMoves
        <5> QED
          BY <4>1, <4>4, <5>1, Zenon DEF Held, StoredGood, Others, Leading
      <4>5. CASE fault' = "lost"
        BY <3>2, <4>5 DEF Steady, HttpConstants, Faults
      <4> QED
        BY <3>6, <4>2, <4>3, <4>4, <4>5, Zenon DEF Refresh
    <3>7. CASE Poll(t)
      <4>1. auth.refresh = Nil
        BY <3>3, <3>7, Zenon DEF Poll, Held
      <4>2. CASE th'[t].pc \in {"failed", "poll"} /\ UNCHANGED <<issued, grant>>
        BY <3>7, <4>1, <4>2, PollMoves, Zenon DEF Held, StoredGood, Leading
      <4>3. CASE \E rotate \in BOOLEAN : Issue(t, rotate, Nil)
        <5>1. /\ th'[t].pc = "publish"
              /\ th'[t].rt = grant' \/ th'[t].rt = Nil
          BY <4>3, IssueMoves
        <5> QED
          BY <3>7, <4>1, <5>1, PollMoves, Zenon DEF Held, Leading
      <4> QED
        BY <3>7, <4>2, <4>3, PollMoves, Zenon
    <3>8. CASE Publish(t)
      BY <3>3, <3>8 DEF Publish, Recovered, Forget, Others, Held, StoredGood, CallShape, ThreadFields, AuthFields, Leading
    <3>9. CASE PublishFailure(t)
      BY <3>3, <3>9 DEF PublishFailure, Fail, Forget, Others, Held, StoredGood, CallShape, ThreadFields, AuthFields, Leading
    <3> QED
      BY <1>7, <3>4, <3>5, <3>6, <3>7, <3>8, <3>9, Zenon DEF Lead
  <2> QED
    BY <2>2, <2>3
<1>8. CASE Clear
  BY <1>8, Zenon DEF Clear, Single, Good, Steady, NotCleared, HttpConstants, Faults
<1>9. CASE Age \/ Revoke \/ UNCHANGED httpVars
  <2>1. th' = th /\ auth'.phase = auth.phase /\ auth'.refresh = auth.refresh /\ issued' = issued /\ grant' = grant
    BY <1>9, Zenon DEF Age, Revoke, httpVars, CallShape, AuthFields
  <2>2. (Steady' => Steady) /\ (NotCleared' => NotCleared)
    BY <1>9, Zenon DEF Age, Revoke, httpVars, Steady, NotCleared, HttpConstants, Faults
  <2> QED
    BY <2>1, <2>2 DEF Single, Good, Held, StoredGood
<1> QED
  <2>1. ASSUME NEW t \in Threads, Aside(t), Step(t) \/ \E m \in MethodsOf[t] : Call(t, m)
        PROVE  Single' /\ Good'
    BY <2>1, AsideStep, OthersStay, Zenon
  <2> QED
    BY <1>1, <1>2, <1>3, <1>4, <1>5, <1>6, <1>7, <1>8, <1>9, <2>1, ZenonT(30) DEF HttpNext, Step, OwnStep, Answered, Lead

-----------------------------------------------------------------------------

LEMMA CallInductive ==
    ASSUME HttpConstants PROVE HttpSpec => []CallInv
<1>1. CallInv /\ [HttpNext]_httpVars => CallInv'
  BY ShapeStep, RanOnceStep, GoodStep DEF CallInv
<1> QED
  BY <1>1, CallInit, PTL DEF HttpSpec

(* A method that is not on the allowlist, so every one that moves session  *)
(* state or folds input, runs at most once per call, for any number of     *)
(* threads, attempts and tokens: only a first refusal of the credential,   *)
(* before anything ran, repeats it (method_is_retryable, with_retry).      *)
THEOREM HttpAtMostOnce ==
    ASSUME HttpConstants PROVE HttpSpec => []AtMostOnce
<1>1. ASSUME NEW m \in Absent PROVE ~MethodIsRetryable(m)
  BY DEF Absent, MethodIsRetryable, SchemaReads, SchemaChanges, TableReads, TableChanges
<1>2. CallInv => AtMostOnce
  BY <1>1 DEF CallInv, RanOnce, AtMostOnce
<1> QED
  BY <1>2, CallInductive, PTL

(* Among any number of threads that meet a refused token, one talks to the *)
(* provider until somebody logs out, whatever fails and whatever answer is *)
(* lost; and until an answer of the provider is lost, a refresh token that *)
(* has been replaced is neither kept nor presented (handle_unauthorized,   *)
(* acquire).                                                               *)
THEOREM HttpOneExchange ==
    ASSUME HttpConstants PROVE HttpSpec => []OneExchange
<1>1. ASSUME CallInv, NotCleared PROVE \A t, u \in Leaders : t = u
  BY <1>1, Zenon DEF CallInv, Single, Leaders, Leading
<1>2. CallInv => OneExchange
  BY <1>1, Zenon DEF CallInv, Good, Held, StoredGood, Steady, NotCleared, Leaders, Leading, OneExchange
<1> QED
  BY <1>2, CallInductive, PTL
=============================================================================
