---------------------------- MODULE ResultStore ----------------------------
(***************************************************************************)
(* What a cache of results promises its readers: one current result for a  *)
(* key, replaced and dropped as a whole.                                   *)
(*                                                                         *)
(* A generation names one complete result.  It becomes the entry of one    *)
(* key at one moment, at most once; it may be dropped at any moment, and   *)
(* never comes back.  A reader gets the generation that is the entry of    *)
(* its key at the moment it reads, and keeps it for as long as it likes.   *)
(***************************************************************************)
CONSTANTS Readers, Keys, Gens, None

VARIABLES entry,  \* the current generation of each key
          used,   \* the generations that can no longer become an entry
          view    \* the key and the generation each reader holds

vars == <<entry, used, view>>

Init ==
    /\ entry = [k \in Keys |-> None]
    /\ used = {}
    /\ view = [r \in Readers |-> None]

\* Any number of readers let go of what they hold.
Closing ==
    \E S \in SUBSET Readers : view' = [r \in Readers |-> IF r \in S THEN None ELSE view[r]]

\* Some generations are given up, G among them.
Burning(G) == \E B \in SUBSET Gens : used' = used \cup B /\ G \subseteq used'

Put(k, g) ==
    /\ g \notin used
    /\ entry' = [entry EXCEPT ![k] = g]
    /\ Burning({g})
    /\ Closing

Drop ==
    /\ \E S \in SUBSET Keys : entry' = [k \in Keys |-> IF k \in S THEN None ELSE entry[k]]
    /\ Burning({})
    /\ Closing

Read(r, k) ==
    /\ entry[k] # None
    /\ view' = [view EXCEPT ![r] = <<k, entry[k]>>]
    /\ UNCHANGED <<entry, used>>

Next ==
    \/ \E k \in Keys, g \in Gens : Put(k, g)
    \/ Drop
    \/ \E r \in Readers, k \in Keys : Read(r, k)

Spec == Init /\ [][Next]_vars

=============================================================================
