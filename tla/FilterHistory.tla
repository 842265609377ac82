---------------------------- MODULE FilterHistory ----------------------------
(***************************************************************************)
(* Dynamic filters of one scan (vgi/src/pushdown.rs).  The init request    *)
(* carries a snapshot of predicates; later ticks carry deltas that upsert  *)
(* or remove predicates under a revision per predicate ID.  Over HTTP the  *)
(* filters do not outlive a turn: the continuation token carries a         *)
(* compacted list of deltas and the predicate order, and the next worker   *)
(* rebuilds the filters from the snapshot (DeltaHistory).                  *)
(*                                                                         *)
(* A predicate is its ID, its revision and its expression, the last one    *)
(* abstracted to a value.  A delta is a sequence of updates.               *)
(***************************************************************************)
EXTENDS Integers, Sequences, SequencesExt, FiniteSets

CONSTANTS
    Ids,          \* predicate IDs
    SnapshotIds,  \* the IDs of the init snapshot, in evaluation order
    Required,     \* those of them whose predicate is required
    MaxIds        \* MAX_IDS: distinct IDs one scan may ever mention

ASSUME FilterAssumption ==
    /\ SnapshotIds \in Seq(Ids)
    /\ \A j, k \in 1..Len(SnapshotIds) : SnapshotIds[j] = SnapshotIds[k] => j = k
    /\ Required \subseteq {SnapshotIds[i] : i \in 1..Len(SnapshotIds)}
    /\ MaxIds \in Nat

(* What the init snapshot parses to: its predicates in order, and the      *)
(* applied revision of every ID seen so far, zero here.                    *)
Snapshot ==
    LET upsert(id) == [id |-> id, rev |-> 0, op |-> "upsert", value |-> 0]
    IN  [predicates |-> [n \in 1..Len(SnapshotIds) |-> upsert(SnapshotIds[n])],
         revisions  |-> {[id |-> id, rev |-> 0] : id \in ToSet(SnapshotIds)}]

PredicateOrder(f) == [n \in 1..Len(f.predicates) |-> f.predicates[n].id]

(* Names(d, i): the delta d has an update of ID i.                         *)
Names(delta, id) == \E k \in 1..Len(delta) : delta[k].id = id

(* A delta skips the updates whose revision is not newer than the applied  *)
(* one; an upsert moves its predicate to the end.  It is refused as a      *)
(* whole, and changes nothing, when it names an ID twice, targets a        *)
(* required predicate or exceeds the ID limit.                             *)
ApplyDelta(f, delta) ==
    LET fresh == SelectSeq(delta, LAMBDA u :
                    ~\E r \in f.revisions : r.id = u.id /\ u.rev <= r.rev)
        next  == [predicates |->
                     SelectSeq(f.predicates, LAMBDA p : ~Names(fresh, p.id))
                         \o SelectSeq(fresh, LAMBDA u : u.op = "upsert"),
                  revisions  |->
                     {r \in f.revisions : ~Names(fresh, r.id)}
                         \cup {[id |-> u.id, rev |-> u.rev] : u \in ToSet(fresh)}]
        ok    == /\ \A j, k \in 1..Len(delta) : delta[j].id = delta[k].id => j = k
                 /\ \A id \in Required : ~Names(delta, id)
                 /\ Cardinality(next.revisions) <= MaxIds
    IN  [ok |-> ok, changed |-> ok /\ fresh # <<>>, filters |-> IF ok THEN next ELSE f]

EmptyHistory == [deltas |-> <<>>, order |-> <<>>]

Carries(delta, r) == \E k \in 1..Len(delta) : delta[k].id = r.id /\ delta[k].rev = r.rev

(* Mutant: the last delta that carried a live revision is kept instead of  *)
(* the first.                                                              *)
Mut_Needed(all, k, revisions) ==
    \E r \in revisions : Carries(all[k], r) /\ \A j \in k + 1..Len(all) : ~Carries(all[j], r)

(* Compaction keeps a delta when it is the first of the list to carry the  *)
(* live revision of some ID (tombstones included).                         *)
Needed(all, k, revisions) ==
    \E r \in revisions : Carries(all[k], r) /\ \A j \in 1..k - 1 : ~Carries(all[j], r)

(* One tick's delta: applied to the live filters, and kept in the history  *)
(* unless it was stale.  A delta equal to a kept one is stale, so the list *)
(* has no duplicates.                                                      *)
Record(history, f, delta) ==
    LET applied == ApplyDelta(f, delta)
        all     == Append(history.deltas, delta)
        live    == applied.filters.revisions
    IN  [ok      |-> applied.ok,
         filters |-> applied.filters,
         history |-> IF ~applied.changed
                     THEN history
                     ELSE [deltas |-> SelectSeq(all, LAMBDA d :
                                          Needed(all, CHOOSE k \in 1..Len(all) : all[k] = d, live)),
                           order  |-> PredicateOrder(applied.filters)]]

(* The predicates in the recorded order; refused when the order does not   *)
(* name exactly the live IDs.                                              *)
RestoreOrder(f, order) ==
    LET live   == PredicateOrder(f)
        at(id) == CHOOSE n \in 1..Len(live) : live[n] = id
        ok     == ToSet(live) = ToSet(order) /\ Len(live) = Len(order)
    IN  [ok      |-> ok,
         filters |-> IF ~ok \/ live = order THEN f
                     ELSE [f EXCEPT !.predicates =
                             [n \in 1..Len(order) |-> f.predicates[at(order[n])]]]]

(* The next turn's filters, from the init snapshot and the token's history. *)
(* upTo[n] is the singleton of the filters after n deltas.                 *)
Replay(history) ==
    LET upTo[n \in 0..Len(history.deltas)] ==
            IF n = 0 THEN {Snapshot}
            ELSE {ApplyDelta(f, history.deltas[n]).filters : f \in upTo[n - 1]}
        replayed == CHOOSE f \in upTo[Len(history.deltas)] : TRUE
    IN  IF history.deltas = <<>>
        THEN [ok |-> TRUE, filters |-> Snapshot]
        ELSE RestoreOrder(replayed, history.order)
=============================================================================
