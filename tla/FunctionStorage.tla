-------------------------- MODULE FunctionStorage --------------------------
(***************************************************************************)
(* What callers of the FunctionStorage trait (vgi/src/storage/mod.rs) may  *)
(* rely on in one scope: an overwritable value, an append-only log and a   *)
(* FIFO work queue, each operation but scan taking effect at one instant   *)
(* between its call and its return.  MemoryStorage, with one mutex around  *)
(* every operation, is stricter.  FsStorage, whose operations are several  *)
(* system calls, is shown to implement this.                               *)
(*                                                                         *)
(* An entry or an item is open until the operation that stores it is over. *)
(* Where system calls fail and processes are killed, it may be left torn,  *)
(* and what is there may not be found: no operation reports an error.      *)
(***************************************************************************)
EXTENDS Integers, SequencesExt

CONSTANTS
    Procs,      \* threads of the worker processes that share the store
    Values,     \* byte strings a caller stores, none of them empty
    MaxId,      \* bound: log ids and queue ids stay at or below it
    None        \* the Option's None

VARIABLES
    faults,     \* whether system calls fail; never changes
    kv,         \* the value at the key, or None
    log,        \* the log: a set of [id, val, open]
    queue,      \* the work queue, next item first: a sequence of [val, open]
    ret         \* what each operation that took effect will return, or None

vars == <<faults, kv, log, queue, ret>>

Ids == {e.id : e \in log}

\* Log entries after a cursor, in id order, at most limit of them.
Entries(after, limit) ==
    LET s == SetToSortSeq({e \in log : e.id > after}, LAMBDA d, e : d.id < e.id)
    IN  SubSeq(s, 1, Min({limit, Len(s)}))

Init ==
    /\ faults \in BOOLEAN
    /\ kv = None
    /\ log = {}
    /\ queue = << >>
    /\ ret = [p \in Procs |-> None]

KvGet(p) ==
    /\ \E v \in {kv} \cup (IF faults THEN {None} ELSE {}) : ret' = [ret EXCEPT ![p] = [kv |-> v]]
    /\ UNCHANGED <<faults, kv, log, queue>>

KvPut(v) == kv' = v /\ UNCHANGED <<faults, log, queue, ret>>
KvDel == kv' = None /\ UNCHANGED <<faults, log, queue, ret>>

\* "returns its monotonic id": above every id the log holds.  append_many is
\* one of these for each value.
AppendOne(v) ==
    /\ \E id \in 0..MaxId : /\ \A i \in Ids : i < id
                            /\ log' = log \cup {[id |-> id, val |-> v, open |-> TRUE]}
    /\ UNCHANGED <<faults, kv, queue, ret>>

\* What is left of a value whose write ends, or fails.
Ends(v) == {v} \cup (IF faults THEN {<< >>} ELSE {})

AppendEnd(e) ==
    /\ e.open
    /\ \E v \in Ends(e.val) : log' = (log \ {e}) \cup {[e EXCEPT !.open = FALSE, !.val = v]}
    /\ UNCHANGED <<faults, kv, queue, ret>>

\* A scan is two steps: which entries it returns is settled at the first, and
\* the second gives their values.
ScanBegin(p, after, limit) ==
    /\ ret' = [ret EXCEPT ![p] = [listed |-> Entries(after, limit)]]
    /\ UNCHANGED <<faults, kv, log, queue>>

\* An entry that was whole is returned as it was stored; one whose append was
\* not over may still read as empty; one may be missing only if a read failed.
Scanned(listed) ==
    LET Read(e) == {[id |-> e.id, val |-> v] :
                        v \in {e.val} \cup (IF e.open THEN {<< >>} ELSE {})}
    IN  {r \in UNION {[1..n -> UNION {Read(e) : e \in Range(listed)}] : n \in 0..Len(listed)} :
           /\ \A j, k \in DOMAIN r : j < k => r[j].id < r[k].id
           /\ Len(r) = Len(listed) \/ faults}

ScanEnd(p) ==
    /\ ret[p] # None /\ DOMAIN ret[p] = {"listed"}
    /\ \E r \in Scanned(ret[p].listed) : ret' = [ret EXCEPT ![p] = [entries |-> r]]
    /\ UNCHANGED <<faults, kv, log, queue>>

\* queue_push is one of these for each item; its writer is the only one.
PushOne(v) ==
    /\ queue' = Append(queue, [val |-> v, open |-> TRUE])
    /\ UNCHANGED <<faults, kv, log, ret>>

PushEnd ==
    /\ \E k \in DOMAIN queue : /\ queue[k].open
                              /\ \E v \in Ends(queue[k].val) : queue' = [queue EXCEPT ![k] = [val |-> v, open |-> FALSE]]
    /\ UNCHANGED <<faults, kv, log, ret>>

\* First in first out; a claim that fails passes over the item.
QueuePop(p) ==
    /\ \/ /\ queue = << >> \/ faults
          /\ ret' = [ret EXCEPT ![p] = [item |-> None]]
          /\ UNCHANGED queue
       \/ \E k \in DOMAIN queue : /\ k = 1 \/ faults
                                  /\ ret' = [ret EXCEPT ![p] = [item |-> queue[k].val]]
                                  /\ queue' = RemoveAt(queue, k)
    /\ UNCHANGED <<faults, kv, log>>

\* An item that was claimed and could not be read is gone.
QueueLose(p) ==
    /\ faults
    /\ \E k \in DOMAIN queue : queue' = RemoveAt(queue, k)
    /\ ret' \in {ret, [ret EXCEPT ![p] = [item |-> None]]}
    /\ UNCHANGED <<faults, kv, log>>

Clear == kv' = None /\ log' = {} /\ queue' = << >> /\ UNCHANGED <<faults, ret>>

\* The caller has the result.
Return(p) == ret' = [ret EXCEPT ![p] = None] /\ UNCHANGED <<faults, kv, log, queue>>

Next ==
    \/ KvDel
    \/ Clear
    \/ \E p \in Procs : Return(p) \/ KvGet(p) \/ ScanEnd(p) \/ QueuePop(p) \/ QueueLose(p)
    \/ \E v \in Values : KvPut(v) \/ AppendOne(v) \/ PushOne(v)
    \/ \E e \in log : AppendEnd(e)
    \/ PushEnd
    \/ \E p \in Procs, after \in -1..MaxId, limit \in 0..(MaxId + 1) : ScanBegin(p, after, limit)

Spec == Init /\ [][Next]_vars
=============================================================================
