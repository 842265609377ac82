------------------------- MODULE HttpStorageProofs -------------------------
(***************************************************************************)
(* The replay of HttpStorage, for any number of clients, calls and         *)
(* attempts.                                                               *)
(*                                                                         *)
(* That a reply is that of its own call holds whatever goes wrong, and     *)
(* rests on every cached and every travelling reply being the result of an *)
(* application of the call it is for.  That a call is applied once where   *)
(* messages are lost rests on there being one request of a call at a time, *)
(* and on an application being known to the cache or to the request that   *)
(* is about to tell it.                                                    *)
(***************************************************************************)
EXTENDS HttpStorage, TLAPS, FiniteSetTheorems

Replies == {Nil} \cup [id : Nat] \cup [bytes : CallIds \cup {Nil}]

Requests == [call : CallIds, attempt : Nat, op : Ops,
             pc : {"sent", "unseen", "applied", "answered"}, reply : Replies]

CallFields == {"pc", "n", "op", "attempt", "reply"}

Shape ==
    /\ DOMAIN calls = Clients
    /\ \A c \in Clients :
         /\ DOMAIN calls[c] = CallFields
         /\ calls[c].n \in 0..MaxCalls /\ calls[c].attempt \in Nat
         /\ calls[c].pc # "idle" => calls[c].op \in Ops /\ calls[c].n # 0
    /\ requests \subseteq Requests
    /\ idem \subseteq [key : CallIds, reply : Replies]
    /\ kv \in CallIds \cup {Nil}
    /\ log \in Seq(CallIds) /\ queue \in Seq(CallIds)
    /\ applied \in [CallIds -> Seq(Replies)]
    /\ net \in Networks

(* The reply is the result of an application of the call k.                *)
ResultOf(k, reply) == \E i \in DOMAIN applied[k] : applied[k][i] = reply

(* Every reply, cached, on its way or returned, is one of its call.        *)
Own ==
    /\ \A e \in idem : ResultOf(e.key, e.reply)
    /\ \A r \in requests :
         /\ Keyed(r.op) /\ r.pc \in {"applied", "answered"} => ResultOf(r.call, r.reply)
         /\ r.call.n <= calls[r.call.client].n
         /\ r.call = ThisCall(r.call.client) => r.op = calls[r.call.client].op
    /\ ReturnsOwnResult

(* Unless attempts are late, a request is the one its client waits for.    *)
Prompt ==
    net.faults # "late" =>
        /\ \A r \in requests : /\ r.call = ThisCall(r.call.client)
                               /\ r.attempt = calls[r.call.client].attempt
                               /\ calls[r.call.client].pc = "waiting"
        /\ \A r, q \in requests : r.call = q.call => r = q

(* Where messages are only lost, what was applied is cached, or about to   *)
(* be, and what is about to be applied was not.                            *)
Once ==
    net.faults = "lossy" =>
        /\ AppliedOnce
        /\ \A k \in CallIds : applied[k] # << >> =>
              \/ \E e \in idem : e.key = k
              \/ \E r \in requests : r.call = k /\ r.pc = "applied" /\ Keyed(r.op)
        /\ \A r \in requests : Keyed(r.op) /\ r.pc = "unseen" => applied[r.call] = << >>
        /\ \A e, f \in idem : e.key = f.key => e = f
        /\ \A r \in requests : Keyed(r.op) /\ r.pc = "applied" => \A e \in idem : e.key # r.call

(* The stored value is of a call that was made.                            *)
Written == kv # Nil => kv.n <= calls[kv.client].n

(* What holds however many replies the server keeps, and what needs them   *)
(* all.                                                                    *)
Exact == Shape /\ Own /\ Prompt /\ Written

IInv == Exact /\ Once
-----------------------------------------------------------------------------
(* Types.                                                                  *)

LEMMA InitInv ==
    ASSUME MaxCalls \in Nat, StoreInit PROVE IInv
<1>1. Shape
  BY DEF StoreInit, Shape, IdleCall, CallFields
<1>2. /\ requests = {} /\ idem = {} /\ kv = Nil
      /\ \A k \in CallIds : applied[k] = << >>
      /\ \A c \in Clients : calls[c].pc = "idle"
  BY DEF StoreInit, IdleCall
<1> QED
  BY <1>1, <1>2 DEF IInv, Exact, Own, Prompt, Once, Written, ReturnsOwnResult, AppliedOnce

LEMMA ThisCallType ==
    ASSUME Shape, NEW c \in Clients, calls[c].pc # "idle"
    PROVE  ThisCall(c) \in CallIds
BY DEF Shape, ThisCall, CallIds

LEMMA NextAttemptMoves ==
    ASSUME Shape, NEW c \in Clients
    PROVE  /\ DOMAIN NextAttempt(calls[c]) = CallFields
           /\ NextAttempt(calls[c]).n = calls[c].n /\ NextAttempt(calls[c]).op = calls[c].op
           /\ NextAttempt(calls[c]).attempt \in Nat
           /\ NextAttempt(calls[c]).pc \in {"sending", "panicked"}
BY DEF Shape, NextAttempt, CallFields

(* What a request turns into is a request.                                 *)
LEMMA BecomesType ==
    ASSUME Shape, NEW r \in requests, NEW pc \in {"sent", "unseen", "applied", "answered"},
           NEW reply \in Replies, Becomes(r, pc, reply)
    PROVE  requests' \subseteq Requests
BY ZenonT(30) DEF Shape, Becomes, Requests

LEMMA AnswerType ==
    ASSUME Shape, NEW r \in requests, NEW reply \in Replies, Answer(r, reply)
    PROVE  requests' \subseteq Requests
BY BecomesType, Zenon DEF Answer, Shape

(* The reply of an operation.                                              *)
ReplyOf(r) == CASE r.op = "kv_get"    -> [bytes |-> kv]
                [] r.op = "append"    -> [id |-> Len(log)]
                [] r.op = "queue_pop" -> [bytes |-> IF queue = << >> THEN Nil ELSE Head(queue)]
                [] OTHER              -> Nil

LEMMA ReplyType ==
    ASSUME Shape, NEW r \in requests
    PROVE  ReplyOf(r) \in Replies
<1>1. queue # << >> => Head(queue) \in CallIds
  BY DEF Shape
<1>2. Len(log) \in Nat
  BY DEF Shape
<1>3. kv \in CallIds \cup {Nil}
  BY DEF Shape
<1> QED
  BY <1>1, <1>2, <1>3 DEF ReplyOf, Replies

LEMMA ApplyMoves ==
    ASSUME Shape, NEW r \in requests, Apply(r)
    PROVE  /\ r.pc = "unseen"
           /\ kv' = (IF r.op = "kv_put" THEN r.call ELSE kv)
           /\ applied' = (IF Keyed(r.op) THEN [applied EXCEPT ![r.call] = Append(@, ReplyOf(r))]
                          ELSE applied)
           /\ Becomes(r, "applied", ReplyOf(r))
           /\ UNCHANGED <<calls, idem, net>>
BY Zenon DEF Apply, ReplyOf, Keyed

LEMMA ShapeStep ==
    ASSUME MaxCalls \in Nat, Shape, [StoreNext]_storeVars
    PROVE  Shape'
<1>1. ASSUME NEW c \in Clients, NEW op \in OpsOf(net.part), Begin(c, op)
      PROVE  Shape'
  <2>1. op \in Ops
    BY DEF OpsOf, Ops, Shape, Networks
  <2>2. /\ DOMAIN calls' = Clients
        /\ \A d \in Clients : d # c => calls'[d] = calls[d]
        /\ DOMAIN calls'[c] = CallFields
        /\ calls'[c].n = calls[c].n + 1 /\ calls'[c].attempt = 0 /\ calls'[c].op = op
    BY <1>1, Zenon DEF Begin, Shape, IdleCall, CallFields
  <2>3. calls'[c].n \in 1..MaxCalls
    BY <1>1, <2>2 DEF Begin, Shape
  <2> QED
    BY <1>1, <2>1, <2>2, <2>3 DEF Begin, Shape
<1>2. ASSUME NEW c \in Clients, Send(c)
      PROVE  Shape'
  <2>1. [call |-> ThisCall(c), attempt |-> calls[c].attempt, op |-> calls[c].op, pc |-> "sent",
         reply |-> Nil] \in Requests
    BY <1>2, ThisCallType, Zenon DEF Send, Shape, Requests, Replies
  <2>2. requests' \subseteq Requests
    BY <1>2, <2>1, Zenon DEF Send, Shape
  <2> QED
    BY <1>2, <2>2 DEF Send, Shape, CallFields
<1>3. ASSUME NEW c \in Clients, Receive(c)
      PROVE  Shape'
  <2>1. requests' \subseteq requests
    BY <1>3 DEF Receive
  <2> QED
    BY <1>3, <2>1 DEF Receive, Shape, CallFields
<1>4. ASSUME NEW c \in Clients, Lost(c) \/ TimedOut(c)
      PROVE  Shape'
  <2>1. calls' = [calls EXCEPT ![c] = NextAttempt(calls[c])] /\ calls[c].pc = "waiting"
    BY <1>4, Zenon DEF Lost, TimedOut
  <2>2. /\ requests' \subseteq requests
        /\ UNCHANGED <<idem, kv, log, queue, applied, net>>
    BY <1>4, Zenon DEF Lost, TimedOut
  <2> QED
    BY <2>1, <2>2, NextAttemptMoves, Zenon DEF Shape
<1>5. ASSUME NEW r \in requests, Lookup(r)
      PROVE  Shape'
  <2>1. \A e \in idem : e.reply \in Replies
    BY DEF Shape
  <2>2. Nil \in Replies
    BY DEF Replies
  <2>3. requests' \subseteq Requests
    BY <1>5, <2>1, <2>2, BecomesType, AnswerType DEF Lookup
  <2> QED
    BY <1>5, <2>3, Zenon DEF Lookup, Shape
<1>6. ASSUME NEW r \in requests, Apply(r)
      PROVE  Shape'
  <2>1. requests' \subseteq Requests
    BY <1>6, ApplyMoves, ReplyType, BecomesType, Zenon
  <2>2. r.call \in CallIds
    BY DEF Shape, Requests
  <2>3. applied' \in [CallIds -> Seq(Replies)]
    <3>1. /\ applied' = IF Keyed(r.op) THEN [applied EXCEPT ![r.call] = Append(@, ReplyOf(r))]
                        ELSE applied
          /\ ReplyOf(r) \in Replies
      BY <1>6, ApplyMoves, ReplyType, Zenon
    <3>2. applied \in [CallIds -> Seq(Replies)]
      BY DEF Shape
    <3>3. Append(applied[r.call], ReplyOf(r)) \in Seq(Replies)
      BY <2>2, <3>1, <3>2
    <3> QED
      BY <3>1, <3>2, <3>3, ZenonT(30)
  <2>4. log' \in Seq(CallIds)
    BY <1>6, <2>2 DEF Apply, Shape
  <2>5. queue' \in Seq(CallIds)
    BY <1>6, <2>2 DEF Apply, Shape
  <2>6. kv' \in CallIds \cup {Nil}
    BY <1>6, <2>2, ApplyMoves, ZenonT(30) DEF Shape
  <2>7. UNCHANGED <<calls, idem, net>>
    BY <1>6, ApplyMoves, Zenon
  <2> QED
    BY <2>1, <2>3, <2>4, <2>5, <2>6, <2>7, Zenon DEF Shape
<1>7. ASSUME NEW r \in requests, Record(r)
      PROVE  Shape'
  <2>1. r.reply \in Replies /\ r.call \in CallIds
    BY Zenon DEF Shape, Requests
  <2>2. requests' \subseteq Requests
    BY <1>7, <2>1, AnswerType DEF Record
  <2>3. idem' \subseteq [key : CallIds, reply : Replies]
    BY <1>7, <2>1 DEF Record, Remember, IdemKey, Shape
  <2> QED
    BY <1>7, <2>2, <2>3, Zenon DEF Record, Shape
<1>8. CASE Restart
  BY <1>8, Zenon DEF Restart, Shape
<1>9. CASE UNCHANGED storeVars
  BY <1>9, Zenon DEF storeVars, Shape
<1> QED
  BY <1>1, <1>2, <1>3, <1>4, <1>5, <1>6, <1>7, <1>8, <1>9 DEF StoreNext
-----------------------------------------------------------------------------
(* Every reply is one of its call.                                         *)

Turned(r, q, pc, reply) ==
    /\ q.call = r.call /\ q.attempt = r.attempt /\ q.op = r.op
    /\ q.pc = pc /\ q.reply = reply
    /\ requests' = (requests \ {r}) \cup {q}

LEMMA BecomesMoves ==
    ASSUME Shape, NEW r \in requests
    PROVE  \A pc, reply : Becomes(r, pc, reply) => \E q : Turned(r, q, pc, reply)
<1> SUFFICES ASSUME NEW pc, NEW reply, Becomes(r, pc, reply)
             PROVE  Turned(r, [r EXCEPT !.pc = pc, !.reply = reply], pc, reply)
  BY ZenonT(30)
<1>1. r \in Requests
  BY DEF Shape
<1> QED
  BY <1>1, SMTT(30) DEF Becomes, Turned, Requests

LEMMA AnswerMoves ==
    ASSUME Shape, NEW r \in requests
    PROVE  \A reply : Answer(r, reply) => \/ requests' = requests \ {r}
                                          \/ \E q : Turned(r, q, "answered", reply)
BY BecomesMoves DEF Answer

(* An application adds its result to those of its call.                    *)
LEMMA ApplyResults ==
    ASSUME Shape, NEW r \in requests, Apply(r)
    PROVE  /\ \A k \in CallIds : \A reply : ResultOf(k, reply) => ResultOf(k, reply)'
           /\ Keyed(r.op) => \E i \in DOMAIN applied'[r.call] : applied'[r.call][i] = ReplyOf(r)
<1>1. r.call \in CallIds /\ applied \in [CallIds -> Seq(Replies)]
  BY Zenon DEF Shape, Requests
<1>2. CASE ~Keyed(r.op)
  BY <1>2, ApplyMoves, Zenon DEF ResultOf
<1>3. CASE Keyed(r.op)
  <2>1. applied' = [applied EXCEPT ![r.call] = Append(@, ReplyOf(r))]
    BY <1>3, ApplyMoves, Zenon
  <2>2. applied'[r.call] = Append(applied[r.call], ReplyOf(r))
    BY <1>1, <2>1, Zenon
  <2>3. \A k \in CallIds : k # r.call => applied'[k] = applied[k]
    BY <1>1, <2>1, Zenon
  <2>4. applied[r.call] \in Seq(Replies) /\ ReplyOf(r) \in Replies
    BY <1>1, ReplyType
  <2>5. /\ Len(applied'[r.call]) = Len(applied[r.call]) + 1
        /\ applied'[r.call][Len(applied[r.call]) + 1] = ReplyOf(r)
        /\ \A i \in 1..Len(applied[r.call]) : applied'[r.call][i] = applied[r.call][i]
        /\ DOMAIN applied'[r.call] = 1..(Len(applied[r.call]) + 1)
        /\ DOMAIN applied[r.call] = 1..Len(applied[r.call])
        /\ Len(applied[r.call]) \in Nat
    BY <2>2, <2>4
  <2>6. \E i \in DOMAIN applied'[r.call] : applied'[r.call][i] = ReplyOf(r)
    BY <2>5
  <2>7. ASSUME NEW k \in CallIds, NEW reply, ResultOf(k, reply)
        PROVE  ResultOf(k, reply)'
    <3>1. PICK i \in DOMAIN applied[k] : applied[k][i] = reply
      BY <2>7 DEF ResultOf
    <3>2. i \in DOMAIN applied'[k] /\ applied'[k][i] = reply
      BY <2>3, <2>5, <3>1
    <3> QED
      BY <3>2 DEF ResultOf
  <2> QED
    BY <2>6, <2>7, Zenon
<1> QED
  BY <1>2, <1>3, Zenon

(* A step of the server that handles r, for every request there is after.  *)
LEMMA OwnServer ==
    ASSUME Shape, Own, NEW r \in requests, calls' = calls,
           \A k \in CallIds : \A reply : ResultOf(k, reply) => ResultOf(k, reply)',
           \A q \in requests' :
               \/ q \in requests
               \/ /\ q.call = r.call /\ q.op = r.op
                  /\ Keyed(r.op) /\ q.pc \in {"applied", "answered"} => ResultOf(r.call, q.reply)',
           \A e \in idem' : ResultOf(e.key, e.reply)'
    PROVE  Own'
<1>1. \A q \in requests : q.call \in CallIds
  BY Zenon DEF Shape, Requests
<1>2. ASSUME NEW q \in requests'
      PROVE  /\ Keyed(q.op) /\ q.pc \in {"applied", "answered"} => ResultOf(q.call, q.reply)'
             /\ q.call.n <= calls[q.call.client].n
             /\ q.call = ThisCall(q.call.client) => q.op = calls[q.call.client].op
  BY <1>1 DEF Own
<1>3. \A c : ThisCall(c)' = ThisCall(c)
  BY DEF ThisCall
<1>4. ReturnsOwnResult'
  <2> SUFFICES ASSUME NEW c \in Clients, calls[c].pc = "returned", NotIdempotent(c)
               PROVE  ResultOf(ThisCall(c), calls[c].reply)'
    BY <1>3, Zenon DEF ReturnsOwnResult, NotIdempotent, ResultOf
  <2>1. ResultOf(ThisCall(c), calls[c].reply)
    BY Zenon DEF Own, ReturnsOwnResult, ResultOf
  <2> QED
    BY <1>3, <2>1, ThisCallType, Zenon
<1> QED
  BY <1>2, <1>3, <1>4, Zenon DEF Own

(* A step of the client c: it goes on to another call, or attempt, and     *)
(* drops requests.                                                         *)
LEMMA OwnClient ==
    ASSUME Shape, Own, NEW c \in Clients,
           \A d \in Clients : d # c => calls'[d] = calls[d],
           UNCHANGED <<idem, applied>>, requests' \subseteq requests,
           \/ calls'[c].n = calls[c].n + 1
           \/ calls'[c].n = calls[c].n /\ calls'[c].op = calls[c].op,
           calls'[c].pc = "returned" /\ Keyed(calls'[c].op)
               => ResultOf(ThisCall(c)', calls'[c].reply)
    PROVE  Own'
<1>1. \A k, reply : ResultOf(k, reply)' <=> ResultOf(k, reply)
  BY Zenon DEF ResultOf
<1>2. \A d \in Clients : d # c => ThisCall(d)' = ThisCall(d)
  BY Zenon DEF ThisCall
<1>3. ReturnsOwnResult'
  BY <1>1, <1>2 DEF Own, ReturnsOwnResult, NotIdempotent, Keyed, ResultOf
<1>4. ASSUME NEW q \in requests
      PROVE  /\ q.call.n <= calls'[q.call.client].n
             /\ q.call = ThisCall(q.call.client)' => q.op = calls'[q.call.client].op
  <2>1. q.call.n \in Nat /\ q.call.n <= calls[q.call.client].n /\ q.call.client \in Clients
    BY DEF Shape, Requests, CallIds, Own
  <2>2. calls[c].n \in Nat
    BY DEF Shape
  <2>3. CASE q.call.client # c
    BY <1>2, <2>1, <2>3, Zenon DEF Own
  <2>4. CASE q.call.client = c /\ calls'[c].n = calls[c].n
    BY <2>1, <2>2, <2>4 DEF Own, ThisCall
  <2>5. CASE q.call.client = c /\ calls'[c].n = calls[c].n + 1
    BY <2>1, <2>2, <2>5 DEF ThisCall
  <2> QED
    BY <2>3, <2>4, <2>5, Zenon
<1> QED
  BY <1>1, <1>3, <1>4, Zenon DEF Own
LEMMA OwnStep ==
    ASSUME Shape, Own, [StoreNext]_storeVars
    PROVE  Own'
<1>1. ASSUME NEW c \in Clients, NEW op, Begin(c, op)
      PROVE  Own'
  <2>1. /\ \A d \in Clients : d # c => calls'[d] = calls[d]
        /\ calls'[c].n = calls[c].n + 1 /\ calls'[c].pc = "sending"
    BY <1>1, Zenon DEF Begin, Shape, IdleCall
  <2> QED
    BY <1>1, <2>1, OwnClient, Zenon DEF Begin
<1>2. ASSUME NEW c \in Clients, Send(c)
      PROVE  Own'
  <2>1. /\ \A d \in Clients : d # c => calls'[d] = calls[d]
        /\ calls'[c].n = calls[c].n /\ calls'[c].op = calls[c].op /\ calls'[c].pc = "waiting"
    BY <1>2, Zenon DEF Send, Shape, CallFields
  <2>2. \A d \in Clients : ThisCall(d)' = ThisCall(d)
    BY <2>1, Zenon DEF ThisCall
  <2>3. PICK q : /\ q.call = ThisCall(c) /\ q.op = calls[c].op /\ q.pc = "sent"
                 /\ requests' = requests \cup {q}
    BY <1>2, ZenonT(30) DEF Send
  <2>4. ReturnsOwnResult'
    BY <1>2, <2>1, <2>2 DEF Send, Own, ReturnsOwnResult, NotIdempotent
  <2>5. \A k, reply : ResultOf(k, reply)' <=> ResultOf(k, reply)
    BY <1>2 DEF Send, ResultOf
  <2>6. /\ q.call.n <= calls'[q.call.client].n
        /\ q.op = calls'[q.call.client].op
    BY <2>1, <2>3 DEF ThisCall, Shape
  <2>7. \A r \in requests : r.call.client \in Clients
    BY Zenon DEF Shape, Requests, CallIds
  <2>8. ASSUME NEW r \in requests
        PROVE  /\ r.call.n <= calls'[r.call.client].n
               /\ r.call = ThisCall(r.call.client)' => r.op = calls'[r.call.client].op
    BY <2>1, <2>2, <2>7 DEF Own
  <2> QED
    BY <1>2, <2>3, <2>4, <2>5, <2>6, <2>8 DEF Own, Send
<1>3. ASSUME NEW c \in Clients, Receive(c)
      PROVE  Own'
  <2>1. PICK r \in Mine(c) :
          /\ r.pc = "answered"
          /\ calls' = [calls EXCEPT ![c] = [@ EXCEPT !.pc = "returned", !.reply = r.reply]]
          /\ requests' = requests \ {r}
    BY <1>3, ZenonT(30) DEF Receive
  <2>2. /\ \A d \in Clients : d # c => calls'[d] = calls[d]
        /\ calls'[c].n = calls[c].n /\ calls'[c].op = calls[c].op /\ calls'[c].reply = r.reply
    BY <2>1 DEF Shape, CallFields
  <2>3. r \in requests /\ r.call = ThisCall(c) /\ ThisCall(c)' = ThisCall(c)
    BY <2>2, Zenon DEF Mine, ThisCall
  <2>4. r.op = calls[c].op
    BY <2>3 DEF Own, ThisCall
  <2>5. Keyed(calls'[c].op) => ResultOf(ThisCall(c)', calls'[c].reply)
    BY <2>1, <2>2, <2>3, <2>4 DEF Own
  <2>6. UNCHANGED <<idem, applied>> /\ requests' \subseteq requests
    BY <1>3, <2>1 DEF Receive
  <2> QED
    BY <2>2, <2>5, <2>6, OwnClient, Zenon
<1>4. ASSUME NEW c \in Clients, Lost(c) \/ TimedOut(c)
      PROVE  Own'
  <2>1. calls' = [calls EXCEPT ![c] = NextAttempt(calls[c])]
    BY <1>4, Zenon DEF Lost, TimedOut
  <2>2. requests' \subseteq requests /\ UNCHANGED <<idem, applied>>
    BY <1>4, Zenon DEF Lost, TimedOut
  <2>3. /\ \A d \in Clients : d # c => calls'[d] = calls[d]
        /\ calls'[c] = NextAttempt(calls[c])
    BY <2>1, Zenon DEF Shape
  <2> QED
    BY <2>2, <2>3, NextAttemptMoves, OwnClient, Zenon
<1>5. ASSUME NEW r \in requests, Lookup(r)
      PROVE  Own'
  <2>1. UNCHANGED <<calls, idem, applied>>
    BY <1>5 DEF Lookup
  <2>2. \A k, reply : ResultOf(k, reply)' <=> ResultOf(k, reply)
    BY <2>1 DEF ResultOf
  <2>3. CASE Becomes(r, "unseen", Nil)
    <3>1. PICK q : Turned(r, q, "unseen", Nil)
      BY <2>3, BecomesMoves
    <3>2. \A p \in requests' : p \in requests \/ p = q
      BY <3>1 DEF Turned
    <3> QED
      BY <2>1, <2>2, <3>1, <3>2, OwnServer, Zenon DEF Turned, Own
  <2>4. ASSUME NEW e \in idem, Keyed(r.op), e.key = IdemKey(r.call), Answer(r, e.reply)
        PROVE  Own'
    <3>1. ResultOf(r.call, e.reply)
      BY <2>4, Zenon DEF Own, IdemKey
    <3>2. \A p \in requests' : \/ p \in requests
                               \/ p.call = r.call /\ p.op = r.op /\ p.reply = e.reply
      BY <2>4, AnswerMoves DEF Turned
    <3> QED
      BY <2>1, <2>2, <3>1, <3>2, OwnServer, Zenon DEF Own
  <2> QED
    BY <1>5, <2>3, <2>4 DEF Lookup
<1>6. ASSUME NEW r \in requests, Apply(r)
      PROVE  Own'
  <2>1. r.call \in CallIds
    BY Zenon DEF Shape, Requests
  <2>2. PICK q : Turned(r, q, "applied", ReplyOf(r))
    BY <1>6, ApplyMoves, BecomesMoves, Zenon
  <2>3. UNCHANGED <<calls, idem>>
    BY <1>6, ApplyMoves, Zenon
  <2>4. /\ \A k \in CallIds : \A reply : ResultOf(k, reply) => ResultOf(k, reply)'
        /\ Keyed(r.op) => \E i \in DOMAIN applied'[r.call] : applied'[r.call][i] = ReplyOf(r)
    BY <1>6, <2>1, ApplyMoves, ApplyResults, Zenon
  <2>5. \A p \in requests' : \/ p \in requests
                             \/ /\ p.call = r.call /\ p.op = r.op
                                /\ Keyed(r.op) => ResultOf(r.call, p.reply)'
    BY <2>2, <2>4, Zenon DEF Turned, ResultOf
  <2>6. \A e \in idem' : ResultOf(e.key, e.reply)'
    BY <2>3, <2>4, Zenon DEF Own, Shape
  <2> QED
    BY <2>3, <2>4, <2>5, <2>6, OwnServer, Zenon
<1>7. ASSUME NEW r \in requests, Record(r)
      PROVE  Own'
  <2>1. UNCHANGED <<calls, applied>> /\ r.pc = "applied"
    BY <1>7 DEF Record
  <2>2. \A k, reply : ResultOf(k, reply)' <=> ResultOf(k, reply)
    BY <2>1 DEF ResultOf
  <2>3. Keyed(r.op) => ResultOf(r.call, r.reply)
    BY <2>1, Zenon DEF Own
  <2>4. \A p \in requests' : \/ p \in requests
                             \/ p.call = r.call /\ p.op = r.op /\ p.reply = r.reply
    BY <1>7, AnswerMoves DEF Record, Turned
  <2>5. \A e \in idem' : e \in idem \/ (Keyed(r.op) /\ e.key = r.call /\ e.reply = r.reply)
    BY <1>7 DEF Record, Remember, IdemKey
  <2>6. \A e \in idem' : ResultOf(e.key, e.reply)'
    BY <2>2, <2>3, <2>5, Zenon DEF Own
  <2> QED
    BY <2>1, <2>2, <2>3, <2>4, <2>6, OwnServer
<1>8. CASE Restart \/ UNCHANGED storeVars
  BY <1>8 DEF Restart, storeVars, Own, ReturnsOwnResult, ResultOf, ThisCall, NotIdempotent
<1> QED
  BY <1>1, <1>2, <1>3, <1>4, <1>5, <1>6, <1>7, <1>8 DEF StoreNext
-----------------------------------------------------------------------------
(* A request is the one its client waits for.                              *)

LEMMA PromptStep ==
    ASSUME Shape, Prompt, [StoreNext]_storeVars
    PROVE  Prompt'
<1>0. net' = net
  BY ZenonT(30) DEF StoreNext, storeVars, Begin, Send, Receive, Lost, TimedOut, Lookup, Apply, Record, Restart
<1> SUFFICES ASSUME net.faults # "late" PROVE Prompt'
  BY <1>0, Zenon DEF Prompt
<1>1. \A r \in requests : /\ r.call = ThisCall(r.call.client)
                          /\ r.attempt = calls[r.call.client].attempt
                          /\ calls[r.call.client].pc = "waiting"
                          /\ r.call.client \in Clients
  BY Zenon DEF Prompt, Shape, Requests, CallIds
<1>2. \A r, q \in requests : r.call = q.call => r = q
  BY Zenon DEF Prompt
<1>3. ASSUME NEW c \in Clients, \A d \in Clients : d # c => calls'[d] = calls[d],
             requests' \subseteq requests, \A r \in requests' : r.call.client # c
      PROVE  Prompt'
  <2>1. \A d \in Clients : d # c => ThisCall(d)' = ThisCall(d)
    BY <1>3, Zenon DEF ThisCall
  <2> QED
    BY <1>1, <1>2, <1>3, <2>1 DEF Prompt
<1>4. ASSUME NEW c \in Clients, NEW op, Begin(c, op)
      PROVE  Prompt'
  <2>1. \A r \in requests : r.call.client # c
    BY <1>1, <1>4, Zenon DEF Begin
  <2>2. \A d \in Clients : d # c => calls'[d] = calls[d]
    BY <1>4, Zenon DEF Begin, Shape
  <2> QED
    BY <1>3, <1>4, <2>1, <2>2 DEF Begin
<1>5. ASSUME NEW c \in Clients, Send(c)
      PROVE  Prompt'
  <2>1. \A r \in requests : r.call.client # c
    BY <1>1, <1>5, Zenon DEF Send
  <2>2. /\ \A d \in Clients : d # c => calls'[d] = calls[d]
        /\ calls'[c].n = calls[c].n /\ calls'[c].attempt = calls[c].attempt
        /\ calls'[c].pc = "waiting"
    BY <1>5 DEF Send, Shape, CallFields
  <2>3. \A d \in Clients : ThisCall(d)' = ThisCall(d)
    BY <2>2, Zenon DEF ThisCall
  <2>4. PICK q : /\ q.call = ThisCall(c) /\ q.attempt = calls[c].attempt
                 /\ requests' = requests \cup {q}
    BY <1>5, ZenonT(30) DEF Send
  <2>5. q.call.client = c
    BY <2>4 DEF ThisCall
  <2>6. \A r \in requests' : /\ r.call = ThisCall(r.call.client)'
                             /\ r.attempt = calls'[r.call.client].attempt
                             /\ calls'[r.call.client].pc = "waiting"
    BY <1>1, <2>1, <2>2, <2>3, <2>4, <2>5
  <2>7. \A r, p \in requests' : r.call = p.call => r = p
    BY <1>2, <2>1, <2>4, <2>5
  <2> QED
    BY <2>6, <2>7, Zenon DEF Prompt
<1>6. ASSUME NEW c \in Clients, Receive(c) \/ Lost(c)
      PROVE  Prompt'
  <2>1. \A d \in Clients : d # c => calls'[d] = calls[d]
    BY <1>6, ZenonT(30) DEF Receive, Lost, Shape
  <2>2. Mine(c) = {r \in requests : r.call.client = c}
    BY <1>1 DEF Mine, ThisCall
  <2>3. \A r, q \in Mine(c) : r = q
    BY <1>1, <1>2, <2>2, SMTT(30)
  <2>4. requests' = requests \ Mine(c)
    BY <1>6, <2>3, ZenonT(30) DEF Receive, Lost, Mine
  <2> QED
    BY <1>3, <2>1, <2>2, <2>4
<1>7. ASSUME NEW r \in requests, Lookup(r) \/ Apply(r) \/ Record(r)
      PROVE  Prompt'
  <2>1. calls' = calls
    BY <1>7, Zenon DEF Lookup, Apply, Record
  <2>2. \A d : ThisCall(d)' = ThisCall(d)
    BY <2>1 DEF ThisCall
  <2>3. CASE requests' = requests \ {r}
    BY <1>1, <1>2, <2>1, <2>2, <2>3, Zenon DEF Prompt
  <2>4. CASE \E q, pc, reply : Turned(r, q, pc, reply)
    <3>1. PICK q : /\ q.call = r.call /\ q.attempt = r.attempt
                   /\ requests' = (requests \ {r}) \cup {q}
      BY <2>4 DEF Turned
    <3>2. \A p \in requests' : /\ p.call = ThisCall(p.call.client)
                               /\ p.attempt = calls[p.call.client].attempt
                               /\ calls[p.call.client].pc = "waiting"
      BY <1>1, <3>1
    <3>3. \A p, o \in requests' : p.call = o.call => p = o
      BY <1>2, <3>1
    <3> QED
      BY <2>1, <2>2, <3>2, <3>3, Zenon DEF Prompt
  <2>5. Lookup(r) \/ Record(r) => \/ requests' = requests \ {r}
                                  \/ \E q, pc, reply : Turned(r, q, pc, reply)
    BY BecomesMoves, AnswerMoves, Zenon DEF Lookup, Record
  <2>6. Apply(r) => \E q, pc, reply : Turned(r, q, pc, reply)
    BY ApplyMoves, BecomesMoves, Zenon
  <2> QED
    BY <1>7, <2>3, <2>4, <2>5, <2>6
<1>8. CASE Restart
  BY <1>8, Zenon DEF Restart, Prompt
<1>9. CASE UNCHANGED storeVars
  BY <1>9, Zenon DEF storeVars, Prompt, ThisCall
<1>10. ASSUME NEW c \in Clients PROVE ~TimedOut(c)
  BY DEF TimedOut
<1> QED
  BY <1>4, <1>5, <1>6, <1>7, <1>8, <1>9, <1>10, SMTT(30) DEF StoreNext
-----------------------------------------------------------------------------
(* A call is applied once where messages are lost.                         *)

(* The reply cache has room for the reply of a call that is not in it.     *)
LEMMA Room ==
    ASSUME StoreConstants, Shape, NEW k \in CallIds,
           \A e, f \in idem : e.key = f.key => e = f,
           \A e \in idem : e.key # k
    PROVE  Cardinality(idem) \in Nat /\ Cardinality(idem) < IdemCap
<1> DEFINE T == CallIds \ {k}
           g == [e \in idem |-> e.key]
<1>1. IsFiniteSet(T) /\ Cardinality(T) = Cardinality(CallIds) - 1
  BY FS_RemoveElement DEF StoreConstants
<1>2. g \in Injection(idem, T)
  <2>1. g \in [idem -> T]
    BY Zenon DEF Shape
  <2>2. IsInjective(g)
    BY DEF IsInjective
  <2> QED
    BY <2>1, <2>2 DEF Injection
<1>3. IsFiniteSet(idem) /\ Cardinality(idem) <= Cardinality(T)
  <2> HIDE DEF T, g
  <2> QED
    BY <1>1, <1>2, FS_Injection
<1>4. Cardinality(CallIds) \in Nat /\ Cardinality(idem) \in Nat
  BY <1>3, FS_CardinalityType DEF StoreConstants
<1> HIDE DEF T
<1> QED
  BY <1>1, <1>3, <1>4 DEF StoreConstants

(* A step that applies nothing and forgets no request that applied.        *)
LEMMA OnceKept ==
    ASSUME Once, UNCHANGED <<idem, applied, net>>,
           \A r \in requests : r.pc = "applied" => r \in requests',
           \A r \in requests' : r \in requests \/ r.pc \in {"sent", "answered"}
    PROVE  Once'
BY Zenon DEF Once, AppliedOnce

LEMMA OnceStep ==
    ASSUME StoreConstants, Shape, Own, Prompt, Once, [StoreNext]_storeVars
    PROVE  Once'
<1>0. net' = net
  BY ZenonT(30) DEF StoreNext, storeVars, Begin, Send, Receive, Lost, TimedOut, Lookup, Apply, Record, Restart
<1> SUFFICES ASSUME net.faults = "lossy" PROVE Once'
  BY <1>0, Zenon DEF Once
<1>1. \A r, q \in requests : r.call = q.call => r = q
  BY Zenon DEF Prompt
<1>2. \A r \in requests : r.call \in CallIds
  BY Zenon DEF Shape, Requests
<1>3. ASSUME NEW c \in Clients, NEW op, Begin(c, op)
      PROVE  Once'
  BY <1>3, OnceKept DEF Begin
<1>4. ASSUME NEW c \in Clients, Send(c)
      PROVE  Once'
  <2>1. PICK q : q.pc = "sent" /\ requests' = requests \cup {q}
    BY <1>4, ZenonT(30) DEF Send
  <2> QED
    BY <1>4, <2>1, OnceKept, Zenon DEF Send
<1>5. ASSUME NEW c \in Clients, Receive(c) \/ Lost(c)
      PROVE  Once'
  <2>1. /\ UNCHANGED <<idem, applied, net>> /\ requests' \subseteq requests
        /\ \A r \in requests : r.pc = "applied" => r \in requests'
    BY <1>5, ZenonT(30) DEF Receive, Lost
  <2> QED
    BY <2>1, OnceKept
<1>6. ASSUME NEW r \in requests, Lookup(r)
      PROVE  Once'
  <2>1. UNCHANGED <<idem, applied, net>> /\ r.pc = "sent"
    BY <1>6 DEF Lookup
  <2>2. ASSUME NEW e \in idem, Answer(r, e.reply)
        PROVE  Once'
    <3>1. CASE requests' = requests \ {r}
      BY <2>1, <3>1, OnceKept
    <3>2. CASE \E q : Turned(r, q, "answered", e.reply)
      <4>1. PICK q : q.pc = "answered" /\ requests' = (requests \ {r}) \cup {q}
        BY <3>2 DEF Turned
      <4> QED
        BY <2>1, <4>1, OnceKept
    <3> QED
      BY <2>2, <3>1, <3>2, AnswerMoves
  <2>3. ASSUME {e \in idem : Keyed(r.op) /\ e.key = IdemKey(r.call)} = {},
               Becomes(r, "unseen", Nil)
        PROVE  Once'
    <3>1. PICK q : /\ q.call = r.call /\ q.op = r.op /\ q.pc = "unseen"
                   /\ requests' = (requests \ {r}) \cup {q}
      BY <2>3, BecomesMoves DEF Turned
    <3>2. Keyed(r.op) => \A e \in idem : e.key # r.call
      BY <2>3 DEF IdemKey
    <3>3. Keyed(r.op) => applied[r.call] = << >>
      BY <1>1, <1>2, <2>1, <3>2 DEF Once
    <3>4. \A p \in requests' : Keyed(p.op) /\ p.pc = "unseen" => applied[p.call] = << >>
      BY <3>1, <3>3 DEF Once
    <3>5. \A p \in requests' : Keyed(p.op) /\ p.pc = "applied" => \A e \in idem : e.key # p.call
      BY <3>1, Zenon DEF Once
    <3>6. \A p \in requests : p.pc = "applied" => p \in requests'
      BY <2>1, <3>1
    <3> QED
      BY <2>1, <3>4, <3>5, <3>6 DEF Once, AppliedOnce
  <2> QED
    BY <1>6, <2>2, <2>3 DEF Lookup
<1>7. ASSUME NEW r \in requests, Apply(r)
      PROVE  Once'
  <2>1. UNCHANGED <<idem, net>> /\ r.pc = "unseen"
    BY <1>7, ApplyMoves, Zenon
  <2>2. PICK q : /\ q.call = r.call /\ q.op = r.op /\ q.pc = "applied"
                 /\ requests' = (requests \ {r}) \cup {q}
    BY <1>7, ApplyMoves, BecomesMoves DEF Turned
  <2>3. CASE ~Keyed(r.op)
    <3>1. applied' = applied
      BY <1>7, <2>3, ApplyMoves, Zenon
    <3>2. \A p \in requests' : p \in requests \/ ~Keyed(p.op)
      BY <2>2, <2>3
    <3>3. \A p \in requests : p.pc = "applied" => p \in requests'
      BY <2>1, <2>2
    <3> QED
      BY <2>1, <3>1, <3>2, <3>3 DEF Once, AppliedOnce
  <2>4. CASE Keyed(r.op)
    <3>1. applied[r.call] = << >>
      BY <2>1, <2>4 DEF Once
    <3>2. applied' = [applied EXCEPT ![r.call] = Append(applied[r.call], ReplyOf(r))]
      BY <1>7, <2>4, ApplyMoves, Zenon
    <3>3. /\ applied'[r.call] = Append(<< >>, ReplyOf(r))
          /\ \A k \in CallIds : k # r.call => applied'[k] = applied[k]
      BY <1>2, <3>1, <3>2, Zenon DEF Shape
    <3>4. Len(applied'[r.call]) = 1
      <4>1. ReplyOf(r) \in Replies /\ << >> \in Seq(Replies)
        BY ReplyType
      <4> QED
        BY <3>3, <4>1
    <3>5. AppliedOnce'
      <4>1. \A k \in CallIds : k # r.call => Len(applied'[k]) <= 1
        BY <3>3, Zenon DEF Once, AppliedOnce
      <4>2. Len(applied'[r.call]) <= 1
        BY <3>4
      <4>3. \A k \in CallIds : Len(applied'[k]) <= 1
        BY <4>1, <4>2
      <4> QED
        BY <4>3 DEF AppliedOnce
    <3>6. \A e \in idem : e.key # r.call
      BY <3>1 DEF Own, ResultOf
    <3>7. \A p \in requests' : p.call = r.call => p = q
      BY <1>1, <2>2
    <3>8. \A k \in CallIds : applied'[k] # << >> =>
              \/ \E e \in idem : e.key = k
              \/ \E p \in requests' : p.call = k /\ p.pc = "applied" /\ Keyed(p.op)
      <4> SUFFICES ASSUME NEW k \in CallIds, k # r.call, applied[k] # << >>,
                          \A e \in idem : e.key # k
                   PROVE  \E p \in requests' : p.call = k /\ p.pc = "applied" /\ Keyed(p.op)
        BY <2>2, <2>4, <3>3
      <4> QED
        BY <2>2 DEF Once
    <3>9. \A p \in requests' : Keyed(p.op) /\ p.pc = "unseen" => applied'[p.call] = << >>
      BY <1>2, <2>2, <3>3, <3>7 DEF Once
    <3>10. \A p \in requests' : Keyed(p.op) /\ p.pc = "applied" => \A e \in idem : e.key # p.call
      BY <2>2, <3>6 DEF Once
    <3> QED
      BY <2>1, <3>5, <3>8, <3>9, <3>10 DEF Once
  <2> QED
    BY <2>3, <2>4
<1>8. ASSUME NEW r \in requests, Record(r)
      PROVE  Once'
  <2>1. UNCHANGED <<applied, net>> /\ r.pc = "applied"
    BY <1>8 DEF Record
  <2>2. /\ \A p \in requests' : (p \in requests /\ p # r) \/ p.pc = "answered"
        /\ \A p \in requests : p # r => p \in requests'
    <3>1. CASE requests' = requests \ {r}
      BY <3>1
    <3>2. CASE \E q : Turned(r, q, "answered", r.reply)
      BY <3>2 DEF Turned
    <3> QED
      BY <1>8, <3>1, <3>2, AnswerMoves, Zenon DEF Record
  <2>3. CASE ~Keyed(r.op)
    <3>1. idem' = idem
      BY <1>8, <2>3 DEF Record
    <3> QED
      BY <2>1, <2>2, <2>3, <3>1 DEF Once, AppliedOnce
  <2>4. CASE Keyed(r.op)
    <3>1. \A e \in idem : e.key # r.call
      BY <2>1, <2>4 DEF Once
    <3>2. Cardinality(idem) \in Nat /\ Cardinality(idem) < IdemCap /\ Cap = IdemCap
      BY <1>2, <3>1, Room DEF Once, Cap
    <3>3. ~(Cardinality(idem) >= Cap)
      BY <3>2 DEF StoreConstants
    <3>4. idem' = idem \cup {[key |-> r.call, reply |-> r.reply]}
      BY <1>8, <2>4, <3>1, <3>3 DEF Record, Remember, IdemKey
    <3>5. \A e, f \in idem' : e.key = f.key => e = f
      BY <3>1, <3>4 DEF Once
    <3>6. \A p \in requests' : Keyed(p.op) /\ p.pc = "applied" => \A e \in idem' : e.key # p.call
      BY <1>1, <2>2, <3>4 DEF Once
    <3>7. \A k \in CallIds : applied[k] # << >> =>
              \/ \E e \in idem' : e.key = k
              \/ \E p \in requests' : p.call = k /\ p.pc = "applied" /\ Keyed(p.op)
      <4>1. \E e \in idem' : e.key = r.call
        <5>1. [key |-> r.call, reply |-> r.reply] \in idem'
          BY <3>4
        <5> QED
          BY <5>1
      <4> QED
        BY <2>2, <3>4, <4>1 DEF Once
    <3>8. \A p \in requests' : Keyed(p.op) /\ p.pc = "unseen" => applied[p.call] = << >>
      BY <2>2, Zenon DEF Once
    <3> QED
      BY <2>1, <3>5, <3>6, <3>7, <3>8 DEF Once, AppliedOnce
  <2> QED
    BY <2>3, <2>4
<1>9. CASE UNCHANGED storeVars
  BY <1>9, OnceKept DEF storeVars
<1>10. /\ ~Restart /\ \A c \in Clients : ~TimedOut(c)
  BY DEF Restart, TimedOut
<1> QED
  BY <1>3, <1>4, <1>5, <1>6, <1>7, <1>8, <1>9, <1>10, SMTT(30) DEF StoreNext
-----------------------------------------------------------------------------
(* The stored value.                                                       *)

LEMMA WrittenStep ==
    ASSUME Shape, Own, Written, [StoreNext]_storeVars
    PROVE  Written'
<1>1. kv # Nil => kv.client \in Clients /\ kv.n \in Nat
  BY DEF Shape, CallIds
<1>2. ASSUME kv' = kv, \A c \in Clients : calls[c].n <= calls'[c].n /\ calls'[c].n \in Nat
      PROVE  Written'
  <2>1. \A c \in Clients : calls[c].n \in Nat
    BY DEF Shape
  <2> QED
    BY <1>1, <1>2, <2>1 DEF Written
<1>3. \A c \in Clients : calls[c].n \in Nat
  BY DEF Shape
<1>4. ASSUME NEW c \in Clients, NEW op, Begin(c, op)
      PROVE  Written'
  <2>1. /\ kv' = kv /\ calls'[c].n = calls[c].n + 1
        /\ \A d \in Clients : d # c => calls'[d] = calls[d]
    BY <1>4, Zenon DEF Begin, Shape, IdleCall
  <2> QED
    BY <1>2, <1>3, <2>1
<1>5. ASSUME NEW c \in Clients, Send(c) \/ Receive(c) \/ Lost(c) \/ TimedOut(c)
      PROVE  Written'
  <2>1. /\ kv' = kv /\ calls'[c].n = calls[c].n
        /\ \A d \in Clients : d # c => calls'[d] = calls[d]
    <3>1. CASE Send(c) \/ Receive(c)
      BY <3>1, ZenonT(30) DEF Send, Receive, Shape, CallFields
    <3>2. CASE Lost(c) \/ TimedOut(c)
      <4>1. kv' = kv /\ calls' = [calls EXCEPT ![c] = NextAttempt(calls[c])]
        BY <3>2, Zenon DEF Lost, TimedOut
      <4> QED
        BY <4>1, NextAttemptMoves, Zenon DEF Shape
    <3> QED
      BY <1>5, <3>1, <3>2, SMTT(30)
  <2> QED
    BY <1>2, <1>3, <2>1
<1>6. ASSUME NEW r \in requests, Apply(r)
      PROVE  Written'
  <2>1. calls' = calls /\ kv' = (IF r.op = "kv_put" THEN r.call ELSE kv)
    BY <1>6, ApplyMoves, Zenon
  <2>2. r.call.n <= calls[r.call.client].n
    BY Zenon DEF Own
  <2> QED
    BY <2>1, <2>2, Zenon DEF Written
<1>7. ASSUME NEW r \in requests, Lookup(r) \/ Record(r)
      PROVE  Written'
  BY <1>7, Zenon DEF Lookup, Record, Written
<1>8. CASE Restart \/ UNCHANGED storeVars
  BY <1>8 DEF Restart, storeVars, Written
<1> QED
  BY <1>4, <1>5, <1>6, <1>7, <1>8 DEF StoreNext

(* What an application stores is not older than what it replaces.          *)
LEMMA NewerValue ==
    ASSUME Shape, Own, Prompt, Written, [StoreNext]_storeVars, net.faults # "late",
           NEW c \in Clients, kv # Nil, kv' # Nil, kv.client = c, kv'.client = c
    PROVE  kv.n <= kv'.n
<1>1. kv \in CallIds /\ kv.n \in Nat
  BY DEF Shape, CallIds
<1>2. CASE kv' = kv
  BY <1>1, <1>2
<1>3. CASE kv' # kv
  <2>1. PICK r \in requests : Apply(r)
    BY <1>3, ZenonT(30) DEF StoreNext, storeVars, Begin, Send, Receive, Lost, TimedOut, Lookup, Record, Restart
  <2>2. kv' = r.call
    BY <1>3, <2>1, ApplyMoves, Zenon
  <2>3. r.call = ThisCall(c)
    BY <2>2, Zenon DEF Prompt
  <2> QED
    BY <2>2, <2>3, SMTT(30) DEF Written, ThisCall
<1> QED
  BY <1>2, <1>3

-----------------------------------------------------------------------------
(* The theorems.                                                           *)

LEMMA ExactStep ==
    ASSUME MaxCalls \in Nat, Exact, [StoreNext]_storeVars
    PROVE  Exact'
BY ShapeStep, OwnStep, PromptStep, WrittenStep DEF Exact

LEMMA ExactAlways == ASSUME MaxCalls \in Nat PROVE StoreSpec => []Exact
<1>1. StoreInit => Exact
  BY InitInv DEF IInv
<1>2. Exact /\ [StoreNext]_storeVars => Exact'
  BY ExactStep
<1> QED
  BY <1>1, <1>2, PTL DEF StoreSpec

LEMMA Inductive ==
    ASSUME StoreConstants, IInv, [StoreNext]_storeVars
    PROVE  IInv'
BY ExactStep, OnceStep DEF IInv, Exact, StoreConstants

LEMMA Invariant == ASSUME StoreConstants PROVE StoreSpec => []IInv
<1>1. StoreInit => IInv
  BY InitInv DEF StoreConstants
<1>2. IInv /\ [StoreNext]_storeVars => IInv'
  BY Inductive
<1> QED
  BY <1>1, <1>2, PTL DEF StoreSpec

(* "the server replays the original result": whatever goes wrong (messages *)
(* lost, attempts late, the server restarted, its replies cleared because  *)
(* there are IDEM_CAP of them), what a call of append, queue_push or       *)
(* queue_pop returns is the result of an application of that very call.    *)
THEOREM HttpOwnResult == ASSUME MaxCalls \in Nat PROVE StoreSpec => []ReturnsOwnResult
<1>1. Exact => ReturnsOwnResult
  BY Zenon DEF Exact, Own
<1> QED
  BY <1>1, ExactAlways, PTL

(* The replay of HttpStorage::call and the reply cache, as long as the     *)
(* cache holds the replies of all the calls: where messages are lost, no   *)
(* call of append, queue_push or queue_pop is applied twice, and each      *)
(* returns its own result.                                                 *)
THEOREM HttpReplayExact == ASSUME StoreConstants PROVE StoreSpec => []ReplayExact
<1>1. IInv => ReplayExact
  BY Zenon DEF IInv, Exact, Own, Once, ReplayExact, LossAppliesOnce
<1> QED
  BY <1>1, Invariant, PTL

(* Unless an attempt that was given up on is still applied, kv_put never   *)
(* puts a value back over a later one of the same client.                  *)
THEOREM HttpNoOldValue == ASSUME MaxCalls \in Nat PROVE StoreSpec => NoOldValue
<1>1. Exact /\ [StoreNext]_storeVars =>
        [net.faults # "late" => \A c \in Clients : kv # Nil /\ kv' # Nil /\ kv.client = c /\ kv'.client = c
                                             => kv.n <= kv'.n]_storeVars
  BY NewerValue DEF Exact
<1> QED
  BY <1>1, ExactAlways, PTL DEF StoreSpec, NoOldValue
=============================================================================
