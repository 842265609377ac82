--------------------------- MODULE CatalogSnapshot ---------------------------
(***************************************************************************)
(* Published catalog snapshots (vgi/src/catalog_snapshot.rs) over a        *)
(* repository in S3 (vgi/src/catalog_snapshot_s3.rs).  The threads of      *)
(* several worker processes serve catalog_contents of one shared catalog:  *)
(* they find, validate, renew or publish its snapshot and hand out the     *)
(* URL of it.  A thread holds the gate of a key while it does; processes   *)
(* meet in the repository, whose writes are conditional.                   *)
(*                                                                         *)
(* The catalog's source revision is a number that only grows, contents and *)
(* etag of a snapshot are those of the revision it was built at, and the   *)
(* cache key is the revision: all else that cache_key digests is fixed     *)
(* here.  A manifest's object is named by the manifest's id.               *)
(***************************************************************************)
EXTENDS Integers, FiniteSets, FiniteSetsExt

CONSTANTS None,
          Tombstone,   \* the manifest of an invalidated key
          Procs, Threads,
          ordinary_on_failure,
          Homes,       \* of [Threads -> Procs]
          Margin,      \* expiry_margin_seconds, and the 60 of renew
          UrlTtl, Retention,      \* of the S3 repository
          MaxCached,   \* max_cached_manifests
          MaxLoops,    \* the rounds of serve
          MaxTries,    \* the attempts of a conditional write
          MaxRev, MaxTime, MaxUploads, MaxCalls, MaxFaults   \* bounds

VARIABLES home,    \* thread -> its process
          rev,     \* the source's revision
          now,
          repo,    \* key -> what its manifest object holds, None if absent
          valid,   \* process -> key -> the validated manifest, or None
          gates,   \* process -> key -> its gate in the map, 0 if none
          th,      \* the threads
          used     \* [calls, uploads, faults] so far
vars == <<home, rev, now, repo, valid, gates, th, used>>

Revisions == 1..MaxRev

(* A manifest of the first revision, which an earlier process published    *)
(* one moment before.                                                      *)
Earlier == [id |-> 0, key |-> 1, holds |-> 1, expires |-> UrlTtl - 1, retain |-> Retention - 1]

(* What a thread knows: its operation, the revision when it was called     *)
(* (asked), the etag it was sent (inm), its round, the identity it works   *)
(* for, its gate, the manifest in hand, the contents built, what it read   *)
(* of the repository (seen) and writes there (put), and where to go after  *)
(* a validation or renewal (ret).                                          *)
Idle == [pc |-> "idle", op |-> "none", asked |-> 0, inm |-> 0, round |-> 0, id |-> 0, gate |-> 0,
         locked |-> FALSE, man |-> None, built |-> 0, seen |-> None, put |-> None, tries |-> 0,
         ret |-> "none", ans |-> None]

IsManifest(x) == x \notin {None, Tombstone}
usable(m) == m.expires > now + Margin /\ m.retain > now + Margin

Set(t, r) == th' = [th EXCEPT ![t] = r]
Go(t, pc) == Set(t, [th[t] EXCEPT !.pc = pc])
InCall(t) == home' = home /\ rev' = rev /\ now' = now
Only(t) == InCall(t) /\ UNCHANGED <<repo, valid, gates, used>>

(* The end of a round: the answer is on its way once the gate is let go.   *)
Answered(t, a) == [th[t] EXCEPT !.pc = "unlock", !.ans = a, !.man = None, !.built = 0, !.seen = None,
                                !.put = None, !.tries = 0, !.ret = "none"]
Answer(kind, holds) == [kind |-> kind, holds |-> holds]
Again(t) == Answered(t, None)
Failed(t) == Answered(t, Answer("error", 0))

(* A call to S3 or of a fetch may fail, before or after its effect.        *)
Fault(t) ==
    /\ used.faults < MaxFaults
    /\ used' = [used EXCEPT !.faults = @ + 1]

----------------------------------------------------------------------------
(* The gates: a lease counts as one reference to its gate, the map's entry *)
(* as another.                                                             *)

Peers(t) == {u \in Threads : home[u] = home[t]}
strong_count(t) ==
    Cardinality({u \in Peers(t) : th[u].gate = th[t].gate})
        + Cardinality({k \in Revisions : gates[home[t]][k] = th[t].gate})
FreshGate(t) ==
    Min({g \in 1..(Cardinality(Threads) + MaxRev + 1) :
            /\ \A u \in Peers(t) : th[u].gate # g
            /\ \A k \in Revisions : gates[home[t]][k] # g})

lease(t, key, r) ==
    LET g == gates[home[t]][key]
        gate == IF g # 0 THEN g ELSE FreshGate(t)
    IN  /\ gates' = [gates EXCEPT ![home[t]][key] = gate]
        /\ Set(t, [r EXCEPT !.pc = "lock", !.id = key, !.gate = gate])

(* catalog_contents: where a validator hook knows the etag, it may answer  *)
(* at once.                                                                *)
Serve(t, inm) ==
    /\ th[t].pc = "idle" /\ used.calls < MaxCalls
    /\ used' = [used EXCEPT !.calls = @ + 1]
    /\ LET r == [Idle EXCEPT !.op = "serve", !.asked = rev, !.inm = inm]
       IN  \/ inm = rev /\ Set(t, [r EXCEPT !.pc = "drop", !.ans = Answer("unchanged", inm)])
           \/ Set(t, [r EXCEPT !.pc = "identity"])
    /\ InCall(t) /\ UNCHANGED <<repo, valid, gates>>

(* The manifests that were handed out, for an operator to import or to     *)
(* invalidate by id.                                                       *)
Known == {m \in {repo[k] : k \in Revisions} \cup {valid[p][k] : p \in Procs, k \in Revisions} : IsManifest(m)}

Operate(t, op, m) ==
    /\ th[t].pc = "idle" /\ used.calls < MaxCalls /\ m \in Known
    /\ used' = [used EXCEPT !.calls = @ + 1]
    /\ LET r == [Idle EXCEPT !.op = op, !.asked = rev, !.man = m]
       IN  IF op = "invalidate" THEN lease(t, m.key, r)
           ELSE gates' = gates /\ Set(t, [r EXCEPT !.pc = "identity"])
    /\ InCall(t) /\ UNCHANGED <<repo, valid>>

Identity(t) ==
    /\ th[t].pc = "identity"
    /\ lease(t, rev, th[t])
    /\ InCall(t) /\ UNCHANGED <<repo, valid, used>>

(* The gate is taken.  serve looks into the validated manifests, import    *)
(* validates the one it was given, invalidate forgets the one it was given.*)
Lock(t) ==
    /\ th[t].pc = "lock"
    /\ \A u \in Peers(t) \ {t} : ~(th[u].locked /\ th[u].gate = th[t].gate)
    /\ LET r == [th[t] EXCEPT !.locked = TRUE]
           m == valid[home[t]][th[t].id]
       IN  \/ /\ r.op = "serve" /\ m # None
              /\ Set(t, [r EXCEPT !.pc = "found", !.man = m]) /\ valid' = valid
           \/ /\ r.op = "serve" /\ m = None
              /\ Set(t, [r EXCEPT !.pc = "lookup"]) /\ valid' = valid
           \/ /\ r.op = "import"
              /\ Set(t, [r EXCEPT !.pc = "validate", !.ret = "confirm"]) /\ valid' = valid
           \/ /\ r.op = "invalidate"
              /\ Set(t, [r EXCEPT !.pc = "invalidate", !.ret = "done"])
              /\ valid' = IF m # None /\ m.id = r.man.id THEN [valid EXCEPT ![home[t]][r.id] = None] ELSE valid
    /\ InCall(t) /\ UNCHANGED <<repo, gates, used>>

(* Mutant: the gate leaves the map with every lease.                       *)
Mut_LastLease(t) == TRUE

LastLease(t) == strong_count(t) = 2

Unlock(t) ==
    /\ th[t].pc = "unlock"
    /\ gates' = IF LastLease(t) THEN [gates EXCEPT ![home[t]][th[t].id] = 0] ELSE gates
    /\ Set(t, [th[t] EXCEPT !.pc = "drop", !.locked = FALSE])
    /\ InCall(t) /\ UNCHANGED <<repo, valid, used>>

(* The lease is gone: another round, the ordinary answer, or the return.   *)
Drop(t) ==
    LET r == [th[t] EXCEPT !.gate = 0, !.round = @ + 1]
        out == th[t].ans = None /\ r.round = MaxLoops
        failed == out \/ (th[t].ans # None /\ th[t].ans.kind = "error")
    IN  /\ th[t].pc = "drop"
        /\ \/ ~failed /\ th[t].ans = None /\ Set(t, [r EXCEPT !.pc = "identity"])
           \/ failed /\ th[t].op = "serve" /\ ordinary_on_failure
                 /\ Set(t, [r EXCEPT !.pc = "before", !.op = "ordinary", !.ans = None])
           \/ ~failed /\ th[t].ans # None /\ Set(t, Idle)
           \/ failed /\ ~(th[t].op = "serve" /\ ordinary_on_failure) /\ Set(t, Idle)
        /\ Only(t)

----------------------------------------------------------------------------
(* The repository.  A conditional write succeeds where the object is still *)
(* what was read: an S3 ETag stands for the contents.                      *)

Lookup(t) ==
    LET x == repo[th[t].id]
    IN  /\ th[t].pc = "lookup"
        /\ \/ ~IsManifest(x) /\ Go(t, "build")
           \/ IsManifest(x) /\ usable(x) /\ Set(t, [th[t] EXCEPT !.pc = "validate", !.man = x, !.ret = "found"])
           \/ IsManifest(x) /\ ~usable(x) /\ Set(t, [th[t] EXCEPT !.pc = "renew", !.man = x, !.ret = "found"])
        /\ Only(t)

(* What renew returned: with no manifest the one in hand is judged as it   *)
(* is, or given up.                                                        *)
Renewed(t, m) ==
    [th[t] EXCEPT !.pc = IF m = None /\ th[t].ret = "remember" THEN "invalidate" ELSE "validate",
                  !.man = IF m = None THEN @ ELSE m,
                  !.ret = IF m = None /\ @ = "remember" THEN "build" ELSE @,
                  !.seen = None, !.put = None, !.tries = 0]

Renew(t) ==
    LET x == repo[th[t].id]
        remaining == x.retain - now
    IN  /\ th[t].pc = "renew"
        /\ \/ ~IsManifest(x) /\ Set(t, Renewed(t, None))
           \/ IsManifest(x) /\ x.id # th[t].man.id /\ Set(t, Renewed(t, x))
           \/ IsManifest(x) /\ x.id = th[t].man.id /\ remaining <= Margin /\ Set(t, Renewed(t, None))
           \/ /\ IsManifest(x) /\ x.id = th[t].man.id /\ remaining > Margin
              /\ Set(t, [th[t] EXCEPT !.pc = "renew_put", !.seen = x,
                            !.put = [x EXCEPT !.expires = now + Min({UrlTtl, remaining})]])
        /\ Only(t)

(* A conflict is tried again, a few times.                                 *)
Retry(t, pc) ==
    Set(t, IF th[t].tries + 1 < MaxTries THEN [th[t] EXCEPT !.pc = pc, !.tries = @ + 1, !.seen = None, !.put = None]
           ELSE Failed(t))

RenewPut(t) ==
    LET key == th[t].id
    IN  /\ th[t].pc = "renew_put"
        /\ \/ /\ repo[key] = th[t].seen
              /\ repo' = [repo EXCEPT ![key] = th[t].put]
              /\ \/ used' = used /\ Set(t, Renewed(t, th[t].put))
                 \/ Fault(t) /\ Set(t, Failed(t))
           \/ repo[key] # th[t].seen /\ Retry(t, "renew") /\ UNCHANGED <<repo, used>>
        /\ InCall(t) /\ UNCHANGED <<valid, gates>>

(* Mutant: whatever is there is invalidated.                               *)
Mut_Invalidate(t) ==
    LET x == repo[th[t].id]
    IN  /\ th[t].pc = "invalidate"
        /\ Set(t, [th[t] EXCEPT !.pc = "invalidate_put", !.seen = x])
        /\ Only(t)

Invalidate(t) ==
    LET x == repo[th[t].id]
    IN  /\ th[t].pc = "invalidate"
        /\ \/ /\ IsManifest(x) /\ x.id = th[t].man.id
              /\ Set(t, [th[t] EXCEPT !.pc = "invalidate_put", !.seen = x])
           \/ /\ ~(IsManifest(x) /\ x.id = th[t].man.id)
              /\ Go(t, "invalidated")
        /\ Only(t)

InvalidatePut(t) ==
    /\ th[t].pc = "invalidate_put"
    /\ repo' = IF repo[th[t].id] = th[t].seen THEN [repo EXCEPT ![th[t].id] = Tombstone] ELSE repo
    /\ \/ used' = used /\ Go(t, "invalidated")
       \/ Fault(t) /\ Set(t, Failed(t))
    /\ InCall(t) /\ UNCHANGED <<valid, gates>>

Invalidated(t) ==
    /\ th[t].pc = "invalidated"
    /\ \/ th[t].ret = "done" /\ Set(t, Answered(t, Answer("done", 0))) /\ valid' = valid
       \/ /\ th[t].ret = "build" /\ valid' = [valid EXCEPT ![home[t]][th[t].id] = None]
          /\ Set(t, [th[t] EXCEPT !.pc = "build", !.man = None, !.seen = None])
    /\ InCall(t) /\ UNCHANGED <<repo, gates, used>>

----------------------------------------------------------------------------
(* Mutant: the cache grows past its limit.                                 *)
Mut_Remembered(t, m) == [valid EXCEPT ![home[t]][th[t].id] = m]

(* remember: a full cache is emptied.                                      *)
Remembered(t, m) ==
    LET cached == {k \in Revisions : valid[home[t]][k] # None}
        kept == IF Cardinality(cached) >= MaxCached THEN [k \in Revisions |-> None] ELSE valid[home[t]]
    IN  [valid EXCEPT ![home[t]] = [kept EXCEPT ![th[t].id] = m]]

(* read: the manifest must be of the key and usable, and its object must   *)
(* come back as it was stored.                                             *)
Readable(t) == th[t].man.key = th[t].id /\ usable(th[t].man)

Validate(t) ==
    /\ th[t].pc = "validate" /\ Readable(t)
    /\ \/ /\ th[t].ret # "remember" /\ valid' = valid
          /\ Go(t, th[t].ret)
       \/ /\ th[t].ret = "remember" /\ valid' = Remembered(t, th[t].man)
          /\ Set(t, Again(t))
    /\ InCall(t) /\ UNCHANGED <<repo, gates, used>>

(* A manifest found in the repository is then invalidated; elsewhere the   *)
(* call fails.                                                             *)
Invalid(t) ==
    /\ th[t].pc = "validate"
    /\ \/ ~Readable(t) /\ used' = used
       \/ Readable(t) /\ Fault(t)
    /\ \/ th[t].ret = "found" /\ Set(t, [th[t] EXCEPT !.pc = "invalidate", !.ret = "build"])
       \/ th[t].ret # "found" /\ Set(t, Failed(t))
    /\ InCall(t) /\ UNCHANGED <<repo, valid, gates>>

Found(t) ==
    /\ th[t].pc = "found"
    /\ \/ usable(th[t].man) /\ Go(t, "deliver")
       \/ ~usable(th[t].man) /\ Set(t, [th[t] EXCEPT !.pc = "renew", !.ret = "remember"])
    /\ Only(t)

Delivery(t, m) == IF m.holds = th[t].inm THEN Answer("unchanged", th[t].inm) ELSE Answer("published", m.holds)

Deliver(t) ==
    /\ th[t].pc = "deliver"
    /\ \/ rev # th[t].id /\ Set(t, Again(t)) /\ valid' = valid
       \/ /\ rev = th[t].id /\ Set(t, Answered(t, Delivery(t, th[t].man)))
          /\ valid' = Remembered(t, th[t].man)
    /\ InCall(t) /\ UNCHANGED <<repo, gates, used>>

----------------------------------------------------------------------------
(* Publication: collect, upload, read back, commit.                        *)

Build(t) ==
    /\ th[t].pc = "build"
    /\ Set(t, [th[t] EXCEPT !.pc = "built", !.built = rev])
    /\ Only(t)

(* Mutant: the catalog is not looked at again.                             *)
Mut_Moved(t) == FALSE

Moved(t) == rev # th[t].id

Built(t) ==
    /\ th[t].pc = "built"
    /\ \/ Moved(t) /\ Set(t, Again(t)) /\ used' = used
       \/ ~Moved(t) /\ th[t].built = th[t].inm /\ Set(t, Answered(t, Answer("unchanged", th[t].inm))) /\ used' = used
       \/ /\ ~Moved(t) /\ th[t].built # th[t].inm /\ used.uploads < MaxUploads
          /\ used' = [used EXCEPT !.uploads = @ + 1]
          /\ Set(t, [th[t] EXCEPT !.pc = "validate", !.ret = "confirm",
                        !.man = [id |-> used.uploads + 1, key |-> th[t].id, holds |-> th[t].built,
                                 expires |-> now + UrlTtl, retain |-> now + Retention]])
    /\ InCall(t) /\ UNCHANGED <<repo, valid, gates>>

(* A change of the catalog starts serve over and fails import.             *)
Changed(t) == IF th[t].op = "serve" THEN Again(t) ELSE Failed(t)

Confirm(t) ==
    /\ th[t].pc = "confirm"
    /\ \/ Moved(t) /\ Set(t, Changed(t))
       \/ ~Moved(t) /\ Go(t, "commit")
    /\ Only(t)

Commit(t) ==
    LET x == repo[th[t].id]
    IN  /\ th[t].pc = "commit"
        /\ \/ IsManifest(x) /\ x.id = th[t].man.id /\ Set(t, [th[t] EXCEPT !.pc = "final", !.man = x])
           \/ IsManifest(x) /\ x.id # th[t].man.id
              /\ Set(t, [th[t] EXCEPT !.pc = "validate", !.ret = "final", !.man = x])
           \/ ~IsManifest(x) /\ Set(t, [th[t] EXCEPT !.pc = "commit_put", !.seen = x])
        /\ Only(t)

(* Mutant: the manifest is put whatever the object holds by now.           *)
Mut_Unchanged(t) == TRUE

Unchanged(t) == repo[th[t].id] = th[t].seen

CommitPut(t) ==
    /\ th[t].pc = "commit_put"
    /\ \/ /\ Unchanged(t) /\ repo' = [repo EXCEPT ![th[t].id] = th[t].man]
          /\ \/ used' = used /\ Set(t, [th[t] EXCEPT !.pc = "final", !.seen = None])
             \/ Fault(t) /\ Set(t, Failed(t))
       \/ ~Unchanged(t) /\ Retry(t, "commit") /\ UNCHANGED <<repo, used>>
    /\ InCall(t) /\ UNCHANGED <<valid, gates>>

Final(t) ==
    /\ th[t].pc = "final"
    /\ \/ Moved(t) /\ Set(t, Changed(t)) /\ valid' = valid
       \/ /\ ~Moved(t) /\ valid' = Remembered(t, th[t].man)
          /\ Set(t, Answered(t, IF th[t].op = "serve" THEN Answer("published", th[t].man.holds)
                                ELSE Answer("done", 0)))
    /\ InCall(t) /\ UNCHANGED <<repo, gates, used>>

(* A call of the repository, of the identity hook or of the collection     *)
(* fails, and the request with it: it does not have its effect (where it   *)
(* has, see RenewPut, InvalidatePut and CommitPut).                        *)
Callouts == {"lookup", "renew", "renew_put", "invalidate", "invalidate_put", "deliver", "build", "built",
             "confirm", "commit", "commit_put", "final"}

Errs(t) ==
    /\ th[t].pc \in Callouts
    /\ Fault(t) /\ Set(t, Failed(t))
    /\ InCall(t) /\ UNCHANGED <<repo, valid, gates>>

(* ordinary_on_failure: the snapshot itself, if the catalog stands still.  *)
Before(t) ==
    /\ th[t].pc = "before"
    /\ Set(t, [th[t] EXCEPT !.pc = "collect", !.id = rev])
    /\ Only(t)

Collect(t) ==
    /\ th[t].pc = "collect"
    /\ Set(t, [th[t] EXCEPT !.pc = "after", !.built = rev])
    /\ Only(t)

After(t) ==
    /\ th[t].pc = "after"
    /\ Set(t, [th[t] EXCEPT !.pc = "drop", !.built = 0,
                  !.ans = IF Moved(t) THEN Answer("error", 0)
                          ELSE IF th[t].built = th[t].inm THEN Answer("unchanged", th[t].inm)
                          ELSE Answer("inline", th[t].built)])
    /\ Only(t)

(* The source commits a revision; time passes.                             *)
Change ==
    /\ rev < MaxRev /\ rev' = rev + 1
    /\ UNCHANGED <<home, now, repo, valid, gates, th, used>>

Tick ==
    /\ now < MaxTime /\ now' = now + 1
    /\ UNCHANGED <<home, rev, repo, valid, gates, th, used>>

----------------------------------------------------------------------------
Init ==
    /\ home \in Homes
    /\ rev = 1 /\ now = 0
    /\ repo \in {[k \in Revisions |-> None], [k \in Revisions |-> IF k = 1 THEN Earlier ELSE None]}
    /\ valid = [p \in Procs |-> [k \in Revisions |-> None]]
    /\ gates = [p \in Procs |-> [k \in Revisions |-> 0]]
    /\ th = [t \in Threads |-> Idle]
    /\ used = [calls |-> 0, uploads |-> 0, faults |-> 0]

Step(t) ==
    \/ Identity(t) \/ Lock(t) \/ Unlock(t) \/ Drop(t)
    \/ Lookup(t) \/ Renew(t) \/ RenewPut(t) \/ Invalidate(t) \/ InvalidatePut(t) \/ Invalidated(t)
    \/ Validate(t) \/ Invalid(t) \/ Found(t) \/ Deliver(t)
    \/ Build(t) \/ Built(t) \/ Confirm(t) \/ Commit(t) \/ CommitPut(t) \/ Final(t) \/ Errs(t)
    \/ Before(t) \/ Collect(t) \/ After(t)

Next ==
    \/ \E t \in Threads : \/ \E inm \in 0..rev : Serve(t, inm)
                          \/ \E op \in {"import", "invalidate"} : \E m \in Known : Operate(t, op, m)
                          \/ Step(t)
    \/ Change \/ Tick

Spec == Init /\ [][Next]_vars

----------------------------------------------------------------------------
(* A manifest is kept, in the repository or in a process, under the key of *)
(* the revision whose contents its object holds.                           *)
FiledRight ==
    \A k \in Revisions : /\ IsManifest(repo[k]) => repo[k].key = k /\ repo[k].holds = k
                    /\ \A p \in Procs : valid[p][k] # None => valid[p][k].key = k /\ valid[p][k].holds = k

(* A client is answered with contents that were the catalog's at some time *)
(* while it waited; told "unchanged", it holds such contents.              *)
AnswersCurrent ==
    \A t \in Threads : th[t].ans # None /\ th[t].ans.kind \in {"published", "inline", "unchanged"} =>
        th[t].ans.holds \in th[t].asked..rev

(* "Concurrent requests for the same identity share one publication        *)
(* operation": two threads of a process never work on one key at a time.   *)
GateExcludes ==
    \A t, u \in Threads : t # u /\ home[t] = home[u] /\ th[t].locked /\ th[u].locked => th[t].id # th[u].id

CacheBounded == \A p \in Procs : Cardinality({k \in Revisions : valid[p][k] # None}) <= MaxCached

(* Whatever the threads and processes do to each other: manifests are      *)
(* filed under what they hold, answers were true while they were waited    *)
(* for, a gate keeps its key to one thread, and the cache has its limit.   *)
SnapshotsSound == FiledRight /\ AnswersCurrent /\ GateExcludes /\ CacheBounded

(* What the repository holds under a key changes by a first publication, a *)
(* renewal that moves the expiry alone, or an invalidation of that very    *)
(* manifest.                                                               *)
RepositorySteps ==
    \A k \in Revisions : repo'[k] # repo[k] =>
        \/ ~IsManifest(repo[k]) /\ IsManifest(repo'[k])
        \/ IsManifest(repo[k]) /\ IsManifest(repo'[k]) /\ [repo'[k] EXCEPT !.expires = repo[k].expires] = repo[k]
        \/ /\ IsManifest(repo[k]) /\ repo'[k] = Tombstone
           /\ \E t \in Threads : th[t].pc = "invalidate_put" /\ th[t].man.id = repo[k].id
=============================================================================
