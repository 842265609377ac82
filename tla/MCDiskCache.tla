---------------------------- MODULE MCDiskCache ----------------------------
(***************************************************************************)
(* Small instances of DiskCache: two processes with a thread each, or two  *)
(* threads of one process.  A behaviour is one of either; the variables of *)
(* the second instance are d1 to d10.                                      *)
(***************************************************************************)
EXTENDS DiskCache, TLC

CONSTANTS h1, h2, t1, t2

MCHandleOf == [t \in Threads |-> IF t = t1 THEN h1 ELSE h2]

MCSizeOf == [g \in Gens |-> 1]

MCScopeOf == [k \in Keys |-> k]

MCCatalogOf == [k \in Keys |-> "catalog"]

Symmetry == Permutations(Gens)
-----------------------------------------------------------------------------
VARIABLES part, d1, d2, d3, d4, d5, d6, d7, d8, d9, d10

dVars == <<d1, d2, d3, d4, d5, d6, d7, d8, d9, d10>>
mcVars == <<part, vars, dVars>>

TwoKeys == {"k1", "k2"}

\* A small result and a large one, with room for two small ones.
Threaded == INSTANCE DiskCache
    WITH refs <- d1, obj <- d2, minted <- d3, th <- d4, mutex <- d5, shared <- d6, excl <- d7, up <- d8,
         now <- d9, faults <- d10,
         Handles <- {h1}, HandleOf <- [t \in Threads |-> h1],
         Keys <- TwoKeys, ScopeOf <- [k \in TwoKeys |-> k], CatalogOf <- [k \in TwoKeys |-> "catalog"],
         Gens <- {1, 2}, SizeOf <- [g \in {1, 2} |-> g], MaxFaults <- 0

MCInit == part \in {"processes", "threads"} /\ Init /\ Threaded!Init

ProcessesNext == part = "processes" /\ Next /\ UNCHANGED <<part, dVars>>
ThreadsNext == part = "threads" /\ Threaded!Next /\ UNCHANGED <<part, vars>>

MCNext == ProcessesNext \/ ThreadsNext

\* When a commit stands, everything in objects/, retained generations
\* included, is within both bounds (make_room).
BoundsKept == StoredWithinBounds /\ Threaded!StoredWithinBounds

\* Nobody waits in a circle, and no path through a commit or a lookup leaves a
\* lock behind (RootOperation::drop and the drop order in commit_with_deadline,
\* lookup_inner).
LocksComeBack == HoldersRun /\ Threaded!HoldersRun
=============================================================================
