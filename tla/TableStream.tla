----------------------------- MODULE TableStream -----------------------------
(***************************************************************************)
(* The life of the streams one query opens on a worker (vgi/src/dispatch.rs *)
(* handle_init, TableProducerState, FinalizeFlushProducer,                 *)
(* TableInOutExchangeState, decode_init_exchange_state) and of the client  *)
(* that drives them (vgi-client/src/exchange.rs, scan.rs).                 *)
(*                                                                         *)
(* Over a byte stream the worker keeps the stream's state between turns.   *)
(* Over HTTP nothing survives a turn: the state is encoded into a          *)
(* continuation token, and whichever worker gets the next turn rebuilds it *)
(* from the token and the shared store.  A turn is one request and one     *)
(* reply; over HTTP the first turn is part of the init response.           *)
(*                                                                         *)
(* The worker functions are the ones the dispatcher tells apart:           *)
(*   cursor    a resumable scan over its own batches (DiagEcho, and a      *)
(*             buffering source reading its finalize state)                *)
(*   oneshot   a producer that serializes no position                      *)
(*   queue     a parallel scan over the execution's work queue             *)
(*   flush     the FINALIZE phase of a table-in-out function               *)
(*   exchange  the INPUT phase of a table-in-out function                  *)
(***************************************************************************)
EXTENDS FilterHistory

CONSTANTS
    Streams,      \* streams of the execution, one client thread each
    Primary,      \* the one whose init carries no execution id
    Batches,      \* batches a cursor scan or a flush has to give (upper bound)
    Chunks,       \* work items the primary init pushes
    ChunkLen,     \* batches in one work item
    Inputs,       \* input batches the client sends into an exchange
    Deltas,       \* the filter deltas a tick may carry
    MaxDeltas,    \* MaxDeltas[k]: deltas the client sends on a stream of kind k
    Kinds,        \* functions the instance explores
    Hints         \* TABLESAMPLE hints an init may carry

ASSUME StreamAssumption ==
    /\ Primary \in Streams
    /\ Batches \in Nat /\ Chunks \in Nat /\ ChunkLen \in Nat /\ Inputs \in Nat
    /\ Kinds \subseteq {"cursor", "oneshot", "queue", "flush", "exchange"}
    /\ MaxDeltas \in [Kinds -> Nat]

VARIABLES
    env,        \* [kind, http, shape, total, hint]: fixed for a behaviour
    pc,         \* pc[s]: what the client of s is doing
    state,      \* state[s]: the token over HTTP, the worker's own state otherwise
    queue,      \* the execution's work queue in the store
    partials,   \* partials[s]: what finish() of s would still drain
    log,        \* log[k]: the flush rows persisted under stream key k
    got,        \* got[s]: what the client of s received, in order
    client,     \* client[s]: [sent, pending, deltas, live], the exchange client
                \* and the filters the deltas it sent amount to
    owed        \* owed[s]: replies the worker still owes for the last input

vars == <<env, pc, state, queue, partials, log, got, client, owed>>

None == [none |-> TRUE]
NoHint == "none"
-----------------------------------------------------------------------------
(* The state of a stream: where the producer stands, the filters with the  *)
(* history a token carries, the exchange's continuation, and the hint.     *)

Fresh(cur) == [cur |-> cur, filters |-> Snapshot, history |-> EmptyHistory,
               more |-> FALSE, resume |-> 0, hint |-> env.hint]

(* Every function but the one-shot producer serializes a position.         *)
ResumeSupported == env.kind # "oneshot"

(* A flush is persisted, and so resumable, over HTTP with several batches; *)
(* otherwise its batches stay in the worker's memory with no rebuild blob. *)
DrainsInOneTurn(st) ==
    \/ ~ResumeSupported
    \/ env.kind = "flush" /\ ~st.cur.persisted

(* Mutant: a queue scan forgets the work item it is in the middle of.      *)
Mut_EncodeResume(st) ==
    IF env.kind = "queue" THEN None ELSE st.cur

(* What the token keeps of the position: a queue scan drops a chunk it has *)
(* finished, everything else is carried.                                   *)
EncodeResume(st) ==
    IF env.kind = "queue" /\ st.cur # None /\ st.cur.idx >= ChunkLen THEN None ELSE st.cur

(* encode_state: the rebuild blob with the current position, the compacted *)
(* filter history and the exchange continuation.  The TABLESAMPLE hint is  *)
(* not among its fields.                                                   *)
Encode(st) ==
    [cur |-> EncodeResume(st), history |-> st.history, more |-> st.more, resume |-> st.resume]

(* decode_init_exchange_state: rebuild the handler on whichever worker got *)
(* the turn.                                                               *)
Decode(tok) ==
    LET replayed == Replay(tok.history)
    IN  [ok |-> replayed.ok,
         st |-> [cur |-> tok.cur, filters |-> replayed.filters, history |-> tok.history,
                 more |-> tok.more, resume |-> tok.resume, hint |-> NoHint]]

Held(s) == IF env.http THEN Decode(state[s]) ELSE [ok |-> TRUE, st |-> state[s]]
Keep(st) == IF env.http THEN Encode(st) ELSE st
-----------------------------------------------------------------------------
(* One pull of the inner producer.  The result is the batch (or None), the *)
(* new position, the queue, and whether the pull is an error.              *)

Batch(s, n, st) == [from |-> s, n |-> n, hint |-> st.hint]

PullCursor(s, st, q) ==
    IF st.cur.pos < env.total
    THEN [batch |-> Batch(s, st.cur.pos + 1, st), cur |-> [pos |-> st.cur.pos + 1],
          queue |-> q, err |-> FALSE]
    ELSE [batch |-> None, cur |-> st.cur, queue |-> q, err |-> FALSE]

(* The queue producer pops a work item when it holds none or has finished  *)
(* the one it holds.                                                       *)
PullQueue(st, q) ==
    LET holds == st.cur # None /\ st.cur.idx < ChunkLen
        cur   == IF holds THEN st.cur
                 ELSE IF q = <<>> THEN None ELSE [chunk |-> Head(q), idx |-> 0]
        rest  == IF holds \/ q = <<>> THEN q ELSE Tail(q)
    IN  IF cur = None
        THEN [batch |-> None, cur |-> None, queue |-> rest, err |-> FALSE]
        ELSE [batch |-> Batch(Primary, (cur.chunk - 1) * ChunkLen + cur.idx + 1, st),
              cur |-> [cur EXCEPT !.idx = @ + 1], queue |-> rest, err |-> FALSE]

(* A persisted flush reads the row after its cursor; a missing row while   *)
(* batches are owed is an error.  An unpersisted one counts in memory.     *)
PullFlush(s, st, q, rows) ==
    LET missing == st.cur.persisted /\ st.cur.cursor >= Len(rows[st.cur.key])
        next    == st.cur.cursor + 1
    IN  IF st.cur.remaining <= 0
        THEN [batch |-> None, cur |-> st.cur, queue |-> q, err |-> FALSE]
        ELSE [batch |-> IF missing THEN None
                        ELSE IF st.cur.persisted THEN rows[st.cur.key][next] ELSE Batch(s, next, st),
              cur   |-> [st.cur EXCEPT !.cursor = next, !.remaining = @ - 1],
              queue |-> q, err |-> missing]

Pull(s, st, q, rows) ==
    CASE env.kind \in {"cursor", "oneshot"} -> PullCursor(s, st, q)
      [] env.kind = "queue"                 -> PullQueue(st, q)
      [] env.kind = "flush"                 -> PullFlush(s, st, q, rows)

(* TableProducerState::produce after the tick's delta was recorded.  A     *)
(* producer that cannot be resumed gets one HTTP turn: its batch, and then *)
(* a second pull that must find the scan exhausted.                        *)
Produce(s, st, q, rows) ==
    LET first  == Pull(s, st, q, rows)
        st1    == [st EXCEPT !.cur = first.cur]
        single == env.http /\ DrainsInOneTurn(st)
        second == IF single /\ first.batch # None THEN Pull(s, st1, first.queue, rows) ELSE first
    IN  [batch    |-> first.batch,
         st       |-> st1,
         queue    |-> first.queue,
         finished |-> first.batch = None \/ single,
         err      |-> first.err \/ (single /\ first.batch # None /\ second.batch # None)]
-----------------------------------------------------------------------------
Init ==
    /\ env \in [kind  : Kinds, http : BOOLEAN, shape : {"scan", "exchange"},
                total : 0..Batches, hint : Hints]
    /\ env.kind \in {"queue", "exchange"} => env.total = Batches
    /\ pc = [s \in Streams |-> "new"]
    /\ state = [s \in Streams |-> None]
    /\ queue = <<>>
    /\ partials = [s \in Streams |-> IF env.kind = "flush" THEN env.total ELSE 0]
    /\ log = [s \in Streams |-> <<>>]
    /\ got = [s \in Streams |-> <<>>]
    /\ client = [s \in Streams |-> [sent |-> 0, pending |-> FALSE, deltas |-> 0,
                                    live |-> Snapshot]]
    /\ owed = [s \in Streams |-> 0]

(* The reply of a producer turn reaches the client.                        *)
Deliver(s, r) ==
    /\ queue' = r.queue
    /\ IF r.err
       THEN /\ pc' = [pc EXCEPT ![s] = "failed"]
            /\ UNCHANGED <<state, got>>
       ELSE /\ pc' = [pc EXCEPT ![s] = IF r.finished THEN "done" ELSE "open"]
            /\ state' = [state EXCEPT ![s] = IF r.finished THEN None ELSE Keep(r.st)]
            /\ got' = IF r.batch = None THEN got
                      ELSE [got EXCEPT ![s] = Append(@, r.batch)]

(* Mutant: the call-shape check of handle_init is gone.                    *)
Mut_ShapeRefused(kind, shape) == FALSE

(* handle_init refuses a table-in-out function opened without an input     *)
(* schema and a plain producer opened with one, before any user code runs. *)
(* FINALIZE carries none.                                                  *)
ShapeRefused(kind, shape) ==
    \/ kind = "exchange" /\ shape = "scan"
    \/ kind \in {"cursor", "oneshot", "queue"} /\ shape = "exchange"

(* Mutant: the flush of every stream of the execution shares one key.      *)
Mut_FlushKey(s) == Primary

FlushKey(s) == s

(* The position a fresh handler starts from.                               *)
StartOf(s) ==
    CASE env.kind \in {"cursor", "oneshot"} -> [pos |-> 0]
      [] env.kind = "queue"                 -> None
      [] env.kind = "flush"                 ->
            [persisted |-> env.http /\ partials[s] > 1, key |-> FlushKey(s), cursor |-> 0,
             remaining |-> partials[s]]
      [] env.kind = "exchange"              -> None

(* handle_init, and over HTTP the first producer turn with it.  A          *)
(* secondary stream needs the execution id of the primary's answer, and    *)
(* only a parallel scan or a flush has secondaries (max_workers).  The     *)
(* primary init of a queue scan pushes the work (on_init); the FINALIZE    *)
(* init drains finish() once, and persists the flush when it needs more    *)
(* than one HTTP turn.                                                     *)
Open(s) ==
    /\ pc[s] = "new"
    /\ \/ s = Primary \/ env.kind = "flush"
       \/ env.kind = "queue" /\ pc[Primary] \notin {"new", "failed"}
    /\ UNCHANGED <<env, client, owed>>
    /\ IF ShapeRefused(env.kind, env.shape)
       THEN /\ pc' = [pc EXCEPT ![s] = "failed"]
            /\ UNCHANGED <<state, queue, partials, log, got>>
       ELSE LET st      == Fresh(StartOf(s))
                persist == env.kind = "flush" /\ st.cur.persisted
                rows    == [n \in 1..partials[s] |-> Batch(s, n, st)]
                pushes  == env.kind = "queue" /\ s = Primary
                q       == IF pushes THEN [c \in 1..Chunks |-> c] ELSE queue
                stored  == IF persist THEN [log EXCEPT ![FlushKey(s)] = @ \o rows] ELSE log
            IN  /\ partials' = [partials EXCEPT ![s] = 0]
                /\ log' = stored
                /\ IF env.http /\ env.kind # "exchange"
                   THEN Deliver(s, Produce(s, st, q, stored))
                   ELSE /\ queue' = q
                        /\ pc' = [pc EXCEPT ![s] = "open"]
                        /\ state' = [state EXCEPT ![s] = Keep(st)]
                        /\ UNCHANGED got

(* The tick may carry a filter delta.                                      *)
NoDelta == <<>>
TickDelta(s) ==
    {NoDelta} \cup (IF client[s].deltas < MaxDeltas[env.kind] THEN Deltas ELSE {})

Ticked(held, delta) ==
    IF delta = NoDelta
    THEN held
    ELSE LET r == Record(held.st.history, held.st.filters, delta)
         IN  [ok |-> held.ok /\ r.ok,
              st |-> [held.st EXCEPT !.filters = r.filters, !.history = r.history]]

SentDelta(c, delta) ==
    IF delta = NoDelta THEN c
    ELSE [c EXCEPT !.deltas = @ + 1, !.live = ApplyDelta(@, delta).filters]

(* One producer turn.  A lost reply ends the stream at the client: stream  *)
(* turns are not retried.                                                  *)
ProducerTurn(s, delta, lost) ==
    /\ pc[s] = "open" /\ env.kind # "exchange"
    /\ client' = [client EXCEPT ![s] = SentDelta(@, delta)]
    /\ \E ticked \in {Ticked(Held(s), delta)} :
         IF ~ticked.ok
         THEN /\ pc' = [pc EXCEPT ![s] = "failed"]
              /\ UNCHANGED <<queue, state, got>>
         ELSE \E r \in {Produce(s, ticked.st, queue, log)} :
                Deliver(s, IF lost THEN [r EXCEPT !.err = TRUE] ELSE r)
    /\ UNCHANGED <<env, partials, log, owed>>
-----------------------------------------------------------------------------
(* What a table-in-out function may do with one turn.  A lawful turn emits *)
(* at most one batch, and says more only with a state to resume from.      *)
Turns == {"reply", "nothing", "two", "more", "more_stateless", "cached"}

(* Mutant: a tick the function answered with nothing is padded.            *)
Mut_TurnRefused(turn, tick) ==
    \/ turn \in {"two", "more_stateless"}
    \/ tick /\ turn = "cached"

(* The checks of TableInOutExchangeState::exchange on a turn's output.     *)
TurnRefused(turn, tick) ==
    \/ turn \in {"two", "more_stateless"}
    \/ tick /\ turn \in {"nothing", "cached"}

(* The turns a function with this much output left may take: it says more  *)
(* exactly while it has more, or breaks the contract.                      *)
Behaviours(left, tick) ==
    (IF left = 0 THEN {"nothing"} ELSE IF left = 1 THEN {"reply", "cached"} ELSE {"more"})
        \cup {"two", "more_stateless"} \cup (IF tick THEN {"nothing"} ELSE {})

(* One exchange turn: a new input while nothing is pending, a continuation *)
(* tick while something is.  The function decides at the input how many    *)
(* replies it has (0, 1 or 2) and resumes from the recorded state.         *)
ExchangeTurn(s, delta, lost) ==
    /\ pc[s] = "open" /\ env.kind = "exchange" /\ env.shape = "exchange"
    /\ \/ client[s].pending \/ client[s].sent < Inputs
    /\ \E ticked \in {Ticked(Held(s), delta)} :
       LET tick  == client[s].pending
           st    == ticked.st
           input == client[s].sent + (IF tick THEN 0 ELSE 1)
       IN  \E left \in IF tick THEN {st.resume} ELSE 0..2 : \E turn \in Behaviours(left, tick) :
             LET more    == turn = "more"
                 refused == ~ticked.ok \/ lost \/ tick # st.more \/ TurnRefused(turn, tick)
                 after   == IF turn = "nothing" THEN left ELSE left - 1
                 n       == IF turn = "nothing" THEN 0
                            ELSE IF tick THEN Last(got[s]).n + 1 ELSE 1
             IN  IF refused
                 THEN /\ pc' = [pc EXCEPT ![s] = "failed"]
                      /\ UNCHANGED <<state, got, client, owed>>
                 ELSE /\ state' = [state EXCEPT ![s] =
                             Keep([st EXCEPT !.more = more,
                                             !.resume = IF more THEN after ELSE 0])]
                      /\ got' = [got EXCEPT ![s] = Append(@, [input |-> input, n |-> n])]
                      /\ client' = [client EXCEPT ![s] =
                             [SentDelta(@, delta) EXCEPT !.sent = input, !.pending = more]]
                      /\ owed' = [owed EXCEPT ![s] = after]
                      /\ UNCHANGED pc
    /\ UNCHANGED <<env, queue, partials, log>>

(* The client ends its input once every answer is in, or drops the stream  *)
(* early.                                                                  *)
Close(s) ==
    /\ pc[s] = "open" /\ env.kind = "exchange" /\ env.shape = "exchange"
    /\ client[s].sent = Inputs /\ ~client[s].pending
    /\ pc' = [pc EXCEPT ![s] = "done"]
    /\ UNCHANGED <<env, state, queue, partials, log, got, client, owed>>

Cancel(s) ==
    /\ pc[s] = "open"
    /\ pc' = [pc EXCEPT ![s] = "cancelled"]
    /\ UNCHANGED <<env, state, queue, partials, log, got, client, owed>>

(* The store loses a persisted flush: a sweep of idle state, a destructor, *)
(* or a store that the worker serving the next turn does not share.        *)
StoreLoses(k) ==
    /\ log[k] # <<>>
    /\ log' = [log EXCEPT ![k] = <<>>]
    /\ UNCHANGED <<env, pc, state, queue, partials, got, client, owed>>

Turn(s) ==
    \E delta \in TickDelta(s), lost \in BOOLEAN :
        ProducerTurn(s, delta, lost) \/ ExchangeTurn(s, delta, lost)

Next == \E s \in Streams : Open(s) \/ Turn(s) \/ Close(s) \/ Cancel(s) \/ StoreLoses(s)

Spec == Init /\ [][Next]_vars

(* The client that opened a stream keeps pulling until it ends, and the    *)
(* worker answers its turns.                                               *)
FairSpec ==
    Spec /\ \A s \in Streams :
                WF_vars(ProducerTurn(s, NoDelta, FALSE) \/ ExchangeTurn(s, NoDelta, FALSE)
                            \/ Close(s))
-----------------------------------------------------------------------------
Producer == env.kind # "exchange"
Numbers(s) == [i \in 1..Len(got[s]) |-> got[s][i].n]

(* No batch reaches the clients twice and none reaches the wrong one: a    *)
(* scan or a flush delivers its own batches from the first, without gaps,  *)
(* on whichever workers its turns were served; the streams of a parallel   *)
(* scan never deliver the same batch of the work queue.                    *)
BatchesOnce ==
    Producer =>
        \A s \in Streams :
            IF env.kind = "queue"
            THEN \A t \in Streams : \A i \in 1..Len(got[s]), j \in 1..Len(got[t]) :
                    got[s][i].n = got[t][j].n => s = t /\ i = j
            ELSE /\ Numbers(s) = [i \in 1..Len(got[s]) |-> i]
                 /\ \A i \in 1..Len(got[s]) : got[s][i].from = s

(* A stream never ends short in silence: when the client saw it end        *)
(* without an error it has every batch the scan or the flush had, and when *)
(* every stream of a parallel scan ended so, every item of the work queue  *)
(* was delivered.  A flush whose rows the store lost must fail.            *)
NothingMissing ==
    Producer =>
        IF env.kind = "queue"
        THEN (/\ pc[Primary] = "done"
              /\ \A s \in Streams : pc[s] \in {"new", "done"})
             => UNION {ToSet(Numbers(s)) : s \in Streams} = 1..Chunks * ChunkLen
        ELSE \A s \in Streams : pc[s] = "done" => Len(got[s]) = env.total

(* Rebuilding the filters of a stream from its token gives exactly the     *)
(* filters that all the deltas sent so far amount to, predicate values,    *)
(* revisions and order, and never fails; the token carries at most one     *)
(* delta per predicate ID.                                                 *)
FiltersSurvive ==
    \A s \in Streams : pc[s] = "open" =>
        /\ Held(s).ok
        /\ Held(s).st.filters = client[s].live
        /\ Len(state[s].history.deltas) <= Cardinality(Ids)

(* Client and worker stay in step in an exchange: they agree on whether    *)
(* output is pending, an input whose answers the client takes for complete *)
(* is owed nothing, and the answers come input by input, in order.         *)
Lockstep ==
    env.kind = "exchange" =>
        \A s \in Streams : pc[s] \in {"open", "done"} =>
            /\ client[s].pending <=> state[s].more
            /\ ~client[s].pending => owed[s] = 0
            /\ \A i \in 1..Len(got[s]) - 1 :
                 \/ got[s][i + 1].input = got[s][i].input + 1 /\ got[s][i + 1].n \in {0, 1}
                 \/ got[s][i + 1].input = got[s][i].input /\ got[s][i + 1].n = got[s][i].n + 1

(* Every stream that was opened comes to an end, whichever call shape the  *)
(* client used: nobody waits for input or for a token that never comes.    *)
StreamsEnd == \A s \in Streams : []<>(pc[s] # "open")

(* The blob "carries everything needed to rebuild the handler": a scan     *)
(* sees the TABLESAMPLE hint of its init on every turn.                    *)
HintsSurvive ==
    Producer => \A s \in Streams : \A i \in 1..Len(got[s]) : got[s][i].hint = env.hint

(* What the clients of an execution receive is what its function gives,    *)
(* batch by batch: nothing twice, nothing missing, and in an exchange the  *)
(* answers of every input in step with it, whichever workers serve the     *)
(* turns and whatever is rebuilt from a token (TableProducerState,         *)
(* TableInOutExchangeState, Scan::next_batch).                             *)
ExactDelivery == BatchesOnce /\ NothingMissing /\ Lockstep
=============================================================================
