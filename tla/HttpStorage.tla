---------------------------- MODULE HttpStorage ----------------------------
(***************************************************************************)
(* vgi/src/storage/http.rs and vgi-storage-server: workers that share one  *)
(* store over HTTP.  A client sends an operation, gives up on an attempt   *)
(* whose answer does not come, and sends the same bytes again, at most     *)
(* MaxAttempts times; the server keeps the reply of every operation that   *)
(* carries an idempotency key, in memory, and replays it.  The store       *)
(* behind the server is one mutex around SQLite: an operation applied is   *)
(* one step.                                                               *)
(*                                                                         *)
(* One key, one log and one queue of one scope.  A value is the call that  *)
(* wrote it.  A token the server refuses ends a call at its first attempt, *)
(* with nothing applied, and is left out.                                  *)
(* kv_get stands for every read and kv_put for every keyless write: scan   *)
(* and kv_del, clear differ from them only in what they return or store.   *)
(***************************************************************************)
EXTENDS Integers, Sequences, FiniteSets, FiniteSetsExt

CONSTANTS
    Clients,
    MaxCalls,      \* bound: calls of one client
    MaxTotal,      \* bound: calls of all clients
    MaxAttempts,   \* MAX_ATTEMPTS
    IdemCap,       \* IDEM_CAP
    MaxLate,       \* bound: attempts given up on that are still with the server
    Nil

VARIABLES
    calls,         \* the call each client is in: its number, operation, attempt
    requests,      \* attempts between the client's send and the end of their answer
    idem,          \* idempotency_key -> reply, a set of pairs
    kv, log, queue,\* the store
    applied,       \* history: for each keyed call, the results of its applications
    net            \* what goes wrong; never changes

storeVars == <<calls, requests, idem, kv, log, queue, applied, net>>

\* lossy: requests and answers are lost.  late: also, an attempt that was given up
\* on may still be with the server.  restarts: also, the server restarts.
\* crowded: also, the calls of other workers leave room for one more reply.
\* A behaviour uses one of the three parts of the store, which share nothing.
Networks == [faults : {"lossy", "late", "restarts", "crowded"}, part : {"kv", "log", "queue"}]

Cap == IF net.faults = "crowded" THEN 1 ELSE IdemCap

OpsOf(part) == CASE part = "kv"    -> {"kv_get", "kv_put"}
                 [] part = "log"   -> {"append"}
                 [] part = "queue" -> {"queue_push", "queue_pop"}

Ops == {"kv_get", "kv_put", "append", "queue_push", "queue_pop"}

CallIds == [client : Clients, n : 1..MaxCalls]

\* What is assumed to replay every reply that a retry asks for: all the calls
\* there are fit into the reply cache.
StoreConstants ==
    /\ MaxCalls \in Nat /\ IdemCap \in Nat
    /\ IsFiniteSet(CallIds) /\ Cardinality(CallIds) <= IdemCap

IdleCall(n) == [pc |-> "idle", n |-> n, op |-> Nil, attempt |-> 0, reply |-> Nil]

StoreInit ==
    /\ calls = [c \in Clients |-> IdleCall(0)]
    /\ requests = {}
    /\ idem = {}
    /\ kv = Nil
    /\ log = << >>
    /\ queue = << >>
    /\ applied = [k \in CallIds |-> << >>]
    /\ net \in Networks

\* The state has its type, and the server's cache never outgrows IDEM_CAP.
StoreTypeOK ==
    /\ \A c \in Clients : /\ calls[c].pc \in {"idle", "sending", "waiting", "returned", "panicked"}
                          /\ calls[c].n \in 0..MaxCalls
                          /\ calls[c].op \in Ops \cup {Nil}
                          /\ calls[c].attempt \in 0..MaxAttempts
    /\ \A r \in requests : /\ r.call \in CallIds /\ r.op \in Ops
                           /\ r.pc \in {"sent", "unseen", "applied", "answered"}
    /\ {e.key : e \in idem} \subseteq CallIds
    /\ Cardinality(idem) <= Cap
    /\ kv \in CallIds \cup {Nil}
    /\ net \in Networks
    /\ log \in Seq(CallIds) /\ queue \in Seq(CallIds)

-----------------------------------------------------------------------------
(* The client.                                                             *)

Mut_IdemKey(k) == [k EXCEPT !.n = 1]

\* idem_key: the process, its counter and the clock tell every two calls apart.
IdemKey(k) == k

ThisCall(c) == [client |-> c, n |-> calls[c].n]

\* The call is not idempotent: it carries idem_key().
Keyed(op) == op \in {"append", "queue_push", "queue_pop"}

Total == MapThenSumSet(LAMBDA d : calls[d].n, Clients)

Begin(c, op) ==
    /\ calls[c].pc \in {"idle", "returned", "panicked"}
    /\ calls[c].n < MaxCalls
    /\ Total < MaxTotal
    /\ calls' = [calls EXCEPT ![c] = [IdleCall(calls[c].n + 1) EXCEPT !.pc = "sending", !.op = op]]
    /\ UNCHANGED <<requests, idem, kv, log, queue, applied, net>>

\* A write that is not waited for.
Mut_Send(c) ==
    /\ calls[c].pc = "sending"
    /\ calls' = [calls EXCEPT ![c].pc = IF calls[c].op = "kv_put" THEN "returned" ELSE "waiting"]
    /\ requests' = requests \cup {[call |-> ThisCall(c), attempt |-> calls[c].attempt,
                                   op |-> calls[c].op, pc |-> "sent", reply |-> Nil]}
    /\ UNCHANGED <<idem, kv, log, queue, applied, net>>

\* http.send(&body[..]): the same bytes at every attempt
Send(c) ==
    /\ calls[c].pc = "sending"
    /\ calls' = [calls EXCEPT ![c].pc = "waiting"]
    /\ requests' = requests \cup {[call |-> ThisCall(c), attempt |-> calls[c].attempt,
                                   op |-> calls[c].op, pc |-> "sent", reply |-> Nil]}
    /\ UNCHANGED <<idem, kv, log, queue, applied, net>>

Mine(c) == {r \in requests : r.call = ThisCall(c) /\ r.attempt = calls[c].attempt}

Receive(c) ==
    /\ calls[c].pc = "waiting"
    /\ \E r \in Mine(c) :
         /\ r.pc = "answered"
         /\ calls' = [calls EXCEPT ![c] = [@ EXCEPT !.pc = "returned", !.reply = r.reply]]
         /\ requests' = requests \ {r}
    /\ UNCHANGED <<idem, kv, log, queue, applied, net>>

\* A transport error, the timeout among them, or a reply that cannot be read: the
\* next attempt, or a panic after the last.
NextAttempt(s) ==
    IF s.attempt + 1 < MaxAttempts THEN [s EXCEPT !.pc = "sending", !.attempt = @ + 1]
    ELSE [s EXCEPT !.pc = "panicked"]

\* The request never reached the server, or the answer did not come back.
Lost(c) ==
    /\ calls[c].pc = "waiting"
    /\ \A r \in Mine(c) : r.pc \in {"sent", "answered"}
    /\ requests' = requests \ Mine(c)
    /\ calls' = [calls EXCEPT ![c] = NextAttempt(@)]
    /\ UNCHANGED <<idem, kv, log, queue, applied, net>>

\* timeout_global while the request is on its way or in the server's hands
TimedOut(c) ==
    /\ net.faults = "late"
    /\ Cardinality({r \in requests : r \notin Mine(r.call.client)}) < MaxLate
    /\ calls[c].pc = "waiting"
    /\ \E r \in Mine(c) : r.pc # "answered"
    /\ calls' = [calls EXCEPT ![c] = NextAttempt(@)]
    /\ UNCHANGED <<requests, idem, kv, log, queue, applied, net>>

-----------------------------------------------------------------------------
(* The server: rpc, any number of requests at a time.                      *)

Becomes(r, pc, reply) == requests' = (requests \ {r}) \cup {[r EXCEPT !.pc = pc, !.reply = reply]}

\* Nobody hears the answer to an attempt that was given up on.
Answer(r, reply) ==
    IF r \in Mine(r.call.client) THEN Becomes(r, "answered", reply) ELSE requests' = requests \ {r}

\* An operation that was applied is answered with its reply.
Lookup(r) ==
    /\ r.pc = "sent"
    /\ LET cached == {e \in idem : Keyed(r.op) /\ e.key = IdemKey(r.call)}
       IN  IF cached = {} THEN Becomes(r, "unseen", Nil)
           ELSE \E e \in cached : Answer(r, e.reply)
    /\ UNCHANGED <<calls, idem, kv, log, queue, applied, net>>

\* apply_op, and the StorageReply of the operation: Nil is Unit
Apply(r) ==
    LET reply == CASE r.op = "kv_get"    -> [bytes |-> kv]
                   [] r.op = "append"    -> [id |-> Len(log)]
                   [] r.op = "queue_pop" -> [bytes |-> IF queue = << >> THEN Nil ELSE Head(queue)]
                   [] OTHER              -> Nil
    IN  /\ r.pc = "unseen"
        /\ kv'    = IF r.op = "kv_put" THEN r.call ELSE kv
        /\ log'   = IF r.op = "append" THEN Append(log, r.call) ELSE log
        /\ queue' = CASE r.op = "queue_push" -> Append(queue, r.call)
                      [] r.op = "queue_pop" /\ queue # << >> -> Tail(queue)
                      [] OTHER -> queue
        /\ applied' = IF r.op \in {"append", "queue_push", "queue_pop"}
                       THEN [applied EXCEPT ![r.call] = Append(@, reply)] ELSE applied
        /\ Becomes(r, "applied", reply)
        /\ UNCHANGED <<calls, idem, net>>

Mut_Remember(r) == idem

\* The cache is cleared wholesale when it is full.
Remember(r) ==
    LET kept == IF Cardinality(idem) >= Cap THEN {} ELSE idem
    IN  {e \in kept : e.key # IdemKey(r.call)} \cup {[key |-> IdemKey(r.call), reply |-> r.reply]}

Record(r) ==
    /\ r.pc = "applied"
    /\ idem' = IF Keyed(r.op) THEN Remember(r) ELSE idem
    /\ Answer(r, r.reply)
    /\ UNCHANGED <<calls, kv, log, queue, applied, net>>

\* What is in memory is gone; the SQLite file is not.
Restart ==
    /\ net.faults = "restarts"
    /\ idem' = {}
    /\ requests' = {}
    /\ UNCHANGED <<calls, kv, log, queue, applied, net>>

StoreNext ==
    \/ \E c \in Clients :
         \/ \E op \in OpsOf(net.part) : Begin(c, op)
         \/ Send(c) \/ Receive(c) \/ Lost(c) \/ TimedOut(c)
    \/ \E r \in requests : Lookup(r) \/ Apply(r) \/ Record(r)
    \/ Restart

StoreSpec == StoreInit /\ [][StoreNext]_storeVars

-----------------------------------------------------------------------------
(* Correctness.                                                            *)

NotIdempotent(c) == calls[c].op \in {"append", "queue_push", "queue_pop"}

\* "a retried request can't double-apply" (http.rs): however many attempts a call
\* of append, queue_push or queue_pop took, it changed the store at most once.
AppliedOnce == \A k \in CallIds : Len(applied[k]) <= 1

\* The replay works when a request or its answer is lost: the retry of what the
\* server has applied applies nothing.
LossAppliesOnce == net.faults = "lossy" => AppliedOnce

\* "the server replays the original result" (http.rs): whatever goes wrong, what a
\* call returns is the result of an application of that call, and not of another
\* call or of none.
ReturnsOwnResult ==
    \A c \in Clients : calls[c].pc = "returned" /\ NotIdempotent(c)
                       => \E i \in DOMAIN applied[ThisCall(c)] : applied[ThisCall(c)][i] = calls[c].reply

\* A retry repeats the write it retries and no older one: unless an attempt that
\* was given up on arrives late, a value is not put back after the same client
\* has overwritten it.
NoOldValue ==
    [][net.faults # "late" => \A c \in Clients : kv # Nil /\ kv' # Nil /\ kv.client = c /\ kv'.client = c
                                           => kv.n <= kv'.n]_storeVars

\* The server's replay of a retried append, queue_push or queue_pop: nothing is
\* applied twice where messages are lost, and a call returns its own result.
ReplayExact == LossAppliesOnce /\ ReturnsOwnResult
=============================================================================
