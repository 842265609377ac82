------------------------------ MODULE Launcher ------------------------------
(***************************************************************************)
(* vgi-client/src/launcher.rs with vgi/src/transport.rs (serve_unix): the  *)
(* worker that every process of a machine shares.                          *)
(*                                                                         *)
(* All starters name the same worker tuple, so they share one lock file    *)
(* and one socket path.  `path` is the worker whose socket the path names  *)
(* (or named: the file outlives its listener).  A connection waits in the  *)
(* listener's accept queue until the worker accepts it; the probe's        *)
(* connection takes a slot of the queue like any other.                    *)
(*                                                                         *)
(* Time is left out: a probe pauses between two connects for any time, and *)
(* the idle timeout fires at any moment the accept queue is empty.  The    *)
(* connect call is that of Linux, which reports a full queue as EAGAIN.    *)
(* A worker that is gone comes back as a new one once its socket file is.  *)
(***************************************************************************)
EXTENDS Integers, FiniteSets, Sequences, Functions

CONSTANTS Starters, Workers,
          None,
          Backlog,       \* length of the listener's accept queue
          ReProbes       \* length of PROBE_REFUSED_BACKOFF

ASSUME LauncherAssumption ==
    /\ None \notin Starters \cup Workers
    /\ Backlog \in Nat \ {0}
    /\ ReProbes \in Nat

VARIABLES st,     \* the starters
          cache,  \* the starters whose RESOLVED map holds the path
          flock,  \* the holder of the lock on {hash}.lock
          path,   \* the worker the socket file belongs to
          wk,     \* the workers
          env     \* what else befalls the processes; it never changes

vars == <<st, cache, flock, path, wk, env>>

\* In "stops" workers stop of themselves, on a signal or idle (a timeout that
\* is not 0); in "kills" starters are killed as well, and a worker's output may
\* name another path than the one it was given (serve_unix itself never does).
Environments == {"calm", "stops", "kills"}

StarterState == [pc : {"idle", "cached", "lock", "probe", "unlink", "spawn", "wait",
                       "resolved", "connected"},
                 tries : Nat, worker : Workers \cup {None}]

\* clients and probes wait in the accept queue; conns are the connections
\* accepted and not yet closed, in order.  `said` holds once the discovery
\* line is in the pipe, `reader` while its other end is open; `joining` is the
\* client whose thread a stopping worker waits for.
WorkerState == [pc : {"gone", "starting", "unlinked", "bound", "serving", "closing",
                      "unbound", "draining"},
                clients : SUBSET Starters, probes : Nat, conns : Seq(Starters),
                said : BOOLEAN, reader : BOOLEAN, joining : Starters \cup {None}]

Idle == [pc |-> "idle", tries |-> 0, worker |-> None]

Gone == [pc |-> "gone", clients |-> {}, probes |-> 0, conns |-> <<>>,
         said |-> FALSE, reader |-> TRUE, joining |-> None]

TypeOK ==
    /\ st \in [Starters -> StarterState]
    /\ cache \subseteq Starters
    /\ flock \in Starters \cup {None}
    /\ path \in Workers \cup {None}
    /\ wk \in [Workers -> WorkerState]
    /\ env \in Environments

Init ==
    /\ st = [s \in Starters |-> Idle]
    /\ cache = {}
    /\ flock = None
    /\ path = None
    /\ wk = [w \in Workers |-> Gone]
    /\ env \in Environments

-----------------------------------------------------------------------------
(* connect(2) on the socket path.                                          *)

Listening(w) == wk[w].pc \in {"bound", "serving", "closing"}

Queued(w) == Cardinality(wk[w].clients) + wk[w].probes

Mut_Answer ==
    IF path = None THEN "missing"
    ELSE IF ~Listening(path) THEN "refused"
    ELSE IF Queued(path) < Backlog THEN "connected" ELSE "refused"

\* What start_connect reports.
Answer ==
    IF path = None THEN "missing"
    ELSE IF ~Listening(path) THEN "refused"
    ELSE IF Queued(path) < Backlog THEN "connected" ELSE "busy"

\* The starters whose connection to w breaks when w goes away.
Attached(w) == {s \in Starters : st[s].pc = "connected" /\ st[s].worker = w}

Broken(S) == [s \in Starters |-> IF s \in S THEN Idle ELSE st[s]]

Go(s, pc) == st' = [st EXCEPT ![s] = [Idle EXCEPT !.pc = pc]]

-----------------------------------------------------------------------------
(* ensure_worker.                                                          *)

Ensure(s) ==
    /\ st[s].pc = "idle"
    /\ Go(s, IF s \in cache THEN "cached" ELSE "lock")
    /\ UNCHANGED <<cache, flock, path, wk, env>>

\* One connect of `probe`: a refusal is believed after ReProbes more.
Probe(s, alive, dead) ==
    LET a == Answer
    IN  /\ wk' = IF a = "connected" THEN [wk EXCEPT ![path].probes = @ + 1] ELSE wk
        /\ CASE a \in {"connected", "busy"} -> alive
             [] a = "refused" /\ st[s].tries < ReProbes ->
                  /\ st' = [st EXCEPT ![s].tries = @ + 1]
                  /\ UNCHANGED <<cache, flock>>
             [] OTHER -> dead

ProbeCached(s) ==
    /\ st[s].pc = "cached"
    /\ Probe(s,
             Go(s, "resolved") /\ UNCHANGED <<cache, flock>>,
             Go(s, "lock") /\ cache' = cache \ {s} /\ UNCHANGED flock)
    /\ UNCHANGED <<path, env>>

Lock(s) ==
    /\ st[s].pc = "lock"
    /\ flock = None
    /\ flock' = s
    /\ Go(s, "probe")
    /\ UNCHANGED <<cache, path, wk, env>>

Mut_ProbeLocked(s) ==
    /\ st[s].pc = "probe"
    /\ Answer # "busy"
    /\ Probe(s,
             Go(s, "resolved") /\ cache' = cache \cup {s} /\ flock' = None,
             Go(s, "unlink") /\ UNCHANGED <<cache, flock>>)
    /\ UNCHANGED <<path, env>>

\* The second probe, under the lock.
ProbeLocked(s) ==
    /\ st[s].pc = "probe"
    /\ Probe(s,
             Go(s, "resolved") /\ cache' = cache \cup {s} /\ flock' = None,
             Go(s, "unlink") /\ UNCHANGED <<cache, flock>>)
    /\ UNCHANGED <<path, env>>

Unlink(s) ==
    /\ st[s].pc = "unlink"
    /\ path' = None
    /\ Go(s, "spawn")
    /\ UNCHANGED <<cache, flock, wk, env>>

Spawn(s, w) ==
    /\ st[s].pc = "spawn"
    /\ wk[w].pc = "gone" /\ path # w
    /\ wk' = [wk EXCEPT ![w] = [Gone EXCEPT !.pc = "starting"]]
    /\ st' = [st EXCEPT ![s] = [Idle EXCEPT !.pc = "wait", !.worker = w]]
    /\ UNCHANGED <<cache, flock, path, env>>

\* The command cannot be started.
SpawnFail(s) ==
    /\ st[s].pc = "spawn"
    /\ flock' = None
    /\ Go(s, "idle")
    /\ UNCHANGED <<cache, path, wk, env>>

\* The discovery line is read, even of a worker that has gone since.
ReadDiscoveryLine(s) ==
    /\ st[s].pc = "wait"
    /\ wk[st[s].worker].said
    /\ cache' = cache \cup {s}
    /\ flock' = None
    /\ Go(s, "resolved")
    /\ UNCHANGED <<path, wk, env>>

Mut_Killed(w) == wk[w]

\* child.kill() and child.wait()
Killed(w) == Gone

\* The spawn timeout, or the end of the worker's stdout: the child is killed.
Undiscovered(s) ==
    /\ st[s].pc = "wait"
    /\ LET w == st[s].worker
       IN  /\ wk' = [wk EXCEPT ![w] = Killed(w)]
           /\ st' = [Broken(Attached(w)) EXCEPT ![s] = Idle]
    /\ flock' = None
    /\ UNCHANGED <<cache, path, env>>

\* The line names another path: an error, and the child is left running with
\* nobody to read what it prints.
OtherPath(s) ==
    /\ env = "kills"
    /\ st[s].pc = "wait"
    /\ wk' = [wk EXCEPT ![st[s].worker].reader = FALSE]
    /\ flock' = None
    /\ Go(s, "idle")
    /\ UNCHANGED <<cache, path, env>>

-----------------------------------------------------------------------------
(* connect_io, and the end of a connection.                                *)

\* A full queue is waited out until the deadline, which gives "idle".
Connect(s) ==
    /\ st[s].pc = "resolved"
    /\ IF Answer = "connected"
       THEN /\ wk' = [wk EXCEPT ![path].clients = @ \cup {s}]
            /\ st' = [st EXCEPT ![s] = [Idle EXCEPT !.pc = "connected", !.worker = path]]
       ELSE /\ Go(s, "idle")
            /\ UNCHANGED wk
    /\ UNCHANGED <<cache, flock, path, env>>

Closed(w, s) == [wk[w] EXCEPT !.clients = @ \ {s}, !.conns = SelectSeq(@, LAMBDA c : c # s)]

Disconnect(s) ==
    /\ st[s].pc = "connected"
    /\ Go(s, "idle")
    /\ wk' = [wk EXCEPT ![st[s].worker] = Closed(st[s].worker, s)]
    /\ UNCHANGED <<cache, flock, path, env>>

-----------------------------------------------------------------------------
(* serve_unix.                                                             *)

Be(w, pc) == wk' = [wk EXCEPT ![w].pc = pc]

\* The worker removes what is at its path before it binds.
RemoveStale(w) ==
    /\ wk[w].pc = "starting"
    /\ path' = None
    /\ Be(w, "unlinked")
    /\ UNCHANGED <<st, cache, flock, env>>

\* bind fails, and the worker panics, when something is at the path.
Bind(w) ==
    /\ wk[w].pc = "unlinked"
    /\ IF path = None
       THEN path' = w /\ Be(w, "bound")
       ELSE wk' = [wk EXCEPT ![w] = Gone] /\ UNCHANGED path
    /\ UNCHANGED <<st, cache, flock, env>>

\* println of the discovery line; without a reader it panics.
Announce(w) ==
    /\ wk[w].pc = "bound"
    /\ IF wk[w].reader
       THEN /\ wk' = [wk EXCEPT ![w] = [@ EXCEPT !.pc = "serving", !.said = TRUE]]
            /\ UNCHANGED st
       ELSE /\ wk' = [wk EXCEPT ![w] = Gone]
            /\ st' = Broken(Attached(w))
    /\ UNCHANGED <<cache, flock, path, env>>

HasProbe(w) == wk[w].probes > 0

Accepted(w, s) == [wk[w] EXCEPT !.clients = @ \ {s}, !.conns = Append(@, s)]

Accept(w) ==
    /\ wk[w].pc = "serving"
    /\ \/ /\ HasProbe(w)
          /\ wk' = [wk EXCEPT ![w].probes = @ - 1]
       \/ \E s \in wk[w].clients :
            wk' = [wk EXCEPT ![w] = Accepted(w, s)]
    /\ UNCHANGED <<st, cache, flock, path, env>>

\* The loop finds the queue empty and last_activity too long ago.  Only an
\* accept counts as activity.
IdleTimeout(w) ==
    /\ env # "calm"
    /\ wk[w].pc = "serving"
    /\ Queued(w) = 0
    /\ Be(w, "closing")
    /\ UNCHANGED <<st, cache, flock, path, env>>

\* The signal handler's flag, or an error of accept, ends the loop.
Stop(w) ==
    /\ env # "calm"
    /\ wk[w].pc = "serving"
    /\ Be(w, "closing")
    /\ UNCHANGED <<st, cache, flock, path, env>>

\* drop(listener): what is queued is reset.
DropListener(w) ==
    /\ wk[w].pc = "closing"
    /\ wk' = [wk EXCEPT ![w] = [@ EXCEPT !.pc = "unbound", !.clients = {}, !.probes = 0]]
    /\ st' = Broken(wk[w].clients)
    /\ UNCHANGED <<cache, flock, path, env>>

First(conns) == IF conns = <<>> THEN None ELSE Head(conns)

\* remove_file(path), whoever's socket it is by now
RemovePath(w) ==
    /\ wk[w].pc = "unbound"
    /\ path' = None
    /\ wk' = [wk EXCEPT ![w] = [@ EXCEPT !.pc = "draining", !.joining = First(wk[w].conns)]]
    /\ UNCHANGED <<st, cache, flock, env>>

\* Threads are joined in the order of their connections; a join ends with its
\* client.  After two seconds the worker joins no more and exits.
Joined(w) == wk[w].pc = "draining" /\ wk[w].joining \notin Range(wk[w].conns)

JoinNext(w) ==
    /\ Joined(w)
    /\ wk[w].conns # <<>>
    /\ wk' = [wk EXCEPT ![w].joining = First(wk[w].conns)]
    /\ UNCHANGED <<st, cache, flock, path, env>>

End(w) ==
    /\ wk' = [wk EXCEPT ![w] = [Gone EXCEPT !.said = wk[w].said]]
    /\ st' = Broken(Attached(w))
    /\ UNCHANGED <<cache, flock, path, env>>

Exit(w) == Joined(w) /\ End(w)

Die(w) == wk[w].pc # "gone" /\ End(w)

-----------------------------------------------------------------------------

\* The kernel closes what a killed starter held: lock, pipe and connection.
Crash(s) ==
    /\ env = "kills"
    /\ st[s].pc # "idle"
    /\ Go(s, "idle")
    /\ cache' = cache \ {s}
    /\ flock' = IF flock = s THEN None ELSE flock
    /\ wk' = [w \in Workers |->
               IF w # st[s].worker THEN wk[w]
               ELSE IF st[s].pc = "wait" THEN [wk[w] EXCEPT !.reader = FALSE]
               ELSE Closed(w, s)]
    /\ UNCHANGED <<path, env>>

StarterStep(s) ==
    \/ ProbeCached(s) \/ Lock(s) \/ ProbeLocked(s) \/ Unlink(s)
    \/ (\E w \in Workers : Spawn(s, w)) \/ SpawnFail(s)
    \/ ReadDiscoveryLine(s) \/ Undiscovered(s) \/ OtherPath(s) \/ Connect(s)

Next ==
    \/ \E s \in Starters : Ensure(s) \/ StarterStep(s) \/ Disconnect(s) \/ Crash(s)
    \/ \E w \in Workers :
         \/ RemoveStale(w) \/ Bind(w) \/ Announce(w) \/ Accept(w) \/ IdleTimeout(w)
         \/ Stop(w) \/ DropListener(w) \/ RemovePath(w) \/ JoinNext(w) \/ Exit(w) \/ Die(w)

Spec == Init /\ [][Next]_vars

\* A starter that has called ensure_worker runs on, and flock(2) wakes its
\* waiters in turn; nothing is assumed of the workers.
FairSpec ==
    /\ Spec
    /\ \A s \in Starters : WF_vars(StarterStep(s)) /\ SF_vars(Lock(s))

-----------------------------------------------------------------------------
(* What the launcher promises.                                             *)

\* Concurrent starters share one worker: while no worker stops of itself and
\* no starter is killed, two are never alive at the same time.
OneWorker ==
    env = "calm" => \A v, w \in Workers : wk[v].pc # "gone" /\ wk[w].pc # "gone" => v = w

SocketKept == \A w \in Workers : wk[w].pc = "serving" => path = w

\* The socket of a worker that serves is never unlinked, by a launcher nor by
\* another worker, so new clients reach it: in a calm environment.
CalmSocketKept == env = "calm" => SocketKept

\* "Its socket must never be unlinked" (launcher.rs): also where workers stop.
LiveSocketKept == env # "kills" => SocketKept

\* Every call of ensure_worker returns, whatever the worker does: a wedged
\* worker with a full queue does not hold a starter, nor the lock.
EnsureReturns ==
    \A s \in Starters : st[s].pc \notin {"idle", "resolved", "connected"}
                            ~> st[s].pc \in {"idle", "resolved", "connected"}

\* Where no worker stops and no process is killed, all starters end up with one
\* worker, whose socket stays (ensure_worker, serve_unix).
CalmLaunch == OneWorker /\ CalmSocketKept
=============================================================================
