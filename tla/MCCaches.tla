------------------------------ MODULE MCCaches ------------------------------
(***************************************************************************)
(* What processes keep for reuse: the client its results (ResultCache),    *)
(* the worker the manifests of published catalogs (CatalogSnapshot).  A    *)
(* behaviour is one of either.  The variables of CatalogSnapshot are n1 to *)
(* n8.                                                                     *)
(***************************************************************************)
EXTENDS ResultCache, TLC

CONSTANTS t1, t2, k1, k2, k3, s1, s2, c1, c2

MCScopeOf == [k \in Keys |-> IF k = k1 THEN s1 ELSE s2]

MCCatalogOf == [k \in Keys |-> IF k = k3 THEN c2 ELSE c1]

Plain == [no_store |-> FALSE, scope |-> "catalog", ttl |-> None, expires |-> None,
          revalidatable |-> FALSE, validator |-> FALSE]

\* A lifetime, "no-cache" with a validator, a date (in time or past), a bad
\* date, and the refusals.
MCControls ==
    {[Plain EXCEPT !.ttl = 1],
     [Plain EXCEPT !.ttl = 0, !.revalidatable = TRUE, !.validator = TRUE],
     [Plain EXCEPT !.expires = 1],
     [Plain EXCEPT !.expires = Bad],
     [Plain EXCEPT !.no_store = TRUE],
     [Plain EXCEPT !.scope = "transaction"]}

MCFewControls ==
    {[Plain EXCEPT !.ttl = 1],
     [Plain EXCEPT !.ttl = 0, !.revalidatable = TRUE, !.validator = TRUE]}

Cap(e, t, n) == [entry |-> e, total |-> t, entries |-> n, default_ttl |-> 0]

MCLimits == {Cap(2, 3, 2), Cap(1, 2, 3)}

-----------------------------------------------------------------------------

CONSTANTS p1, Tombstone, Procs, ordinary_on_failure, Homes, Margin, UrlTtl, Retention, MaxCached, MaxLoops,
          MaxTries, MaxRev, PublishTime, MaxUploads, MaxCalls, MaxFaults

VARIABLES part, n1, n2, n3, n4, n5, n6, n7, n8

NVars == <<n1, n2, n3, n4, n5, n6, n7, n8>>
mcVars == <<part, vars, NVars>>

N == INSTANCE CatalogSnapshot
    WITH home <- n1, rev <- n2, now <- n3, repo <- n4, valid <- n5, gates <- n6, th <- n7, used <- n8,
         MaxTime <- PublishTime

\* The threads in one process, or each in one that is named after it; in
\* the first case an earlier process has published the first revision.
MCProcs == {p1} \cup Threads
MCHomes == {[t \in Threads |-> p1], [t \in Threads |-> t]}
Alike == Permutations(Threads)

NoSnapshots == n1 = 0 /\ n2 = 0 /\ n3 = 0 /\ n4 = [k \in 1..MaxRev |-> None] /\ n5 = 0 /\ n6 = 0 /\ n7 = 0 /\ n8 = 0
NoResults ==
    /\ slots = <<>> /\ order = <<>> /\ entries = 0 /\ total = 0 /\ now = 0
    /\ th = [t \in Threads |-> Ready]
    /\ limits = CHOOSE l \in LimitsSet : TRUE

MCInit ==
    \/ part = "results" /\ Init /\ NoSnapshots
    \/ /\ part = "snapshots" /\ N!Init /\ NoResults
       /\ n4[1] # None <=> \A t, u \in Threads : n1[t] = n1[u]

\* Bound: a third call where the threads share a process and nothing fails.
Afford == n8.calls <= 2 \/ (n8.faults = 0 /\ n2 = 1 /\ \A t, u \in Threads : n1[t] = n1[u])

ResultsNext == part = "results" /\ Next /\ UNCHANGED <<part, NVars>>
SnapshotsNext == part = "snapshots" /\ N!Next /\ Afford' /\ UNCHANGED <<part, vars>>

MCNext == ResultsNext \/ SnapshotsNext

(* The result cache by itself, with the fairness of its FairSpec.          *)
ResultsSpec ==
    /\ part = "results" /\ Init /\ NoSnapshots
    /\ [][ResultsNext]_mcVars
    /\ \A t \in Threads : WF_mcVars(Continue(t) /\ UNCHANGED <<part, NVars>>)

(* The result cache's books balance, it is within its limits, and what it  *)
(* holds may be reused.                                                    *)
ResultBooks == part = "results" => CacheBooks

(* A client that asks for a published catalog gets contents that were the  *)
(* catalog's while it waited; a process works on a key once at a time; and *)
(* the repository replaces a manifest only by its renewal, or by a         *)
(* tombstone put for that manifest.                                        *)
SnapshotsExact == [](part = "snapshots" => N!SnapshotsSound) /\ [][part = "snapshots" => N!RepositorySteps]_mcVars
=============================================================================
