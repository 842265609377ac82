------------------------------ MODULE DiskCache ------------------------------
(***************************************************************************)
(* vgi-client/src/disk_cache.rs: the persistent result cache.  Several     *)
(* processes share one directory.                                          *)
(*                                                                         *)
(* A handle is one open DiskCache, in a process of its own; HandleOf gives *)
(* the handle a thread works through.  A generation is one capture's       *)
(* directory: it starts under tmp/, and a commit renames it to objects/.   *)
(* refs[k] is the file refs/<k>.ref.                                       *)
(*                                                                         *)
(* Two locks order the mutations: `mutex`, the handle's `operations`       *)
(* mutex, and the advisory lock on the file .operations, which is `shared` *)
(* for a lookup and `excl` for everything that changes the directory.      *)
(* What runs under the exclusive lock is one step, except for the commit,  *)
(* whose crash points and clock readings are kept apart.                   *)
(*                                                                         *)
(* A lease is two things: a shared lock on the object's .lease file        *)
(* (LeaseLock) and a count in the handle's `leases` map (InLeaseMap).  A   *)
(* capture's temporary directory is likewise leased and in `active_temps`  *)
(* while a live thread owns it (Owned).                                    *)
(*                                                                         *)
(* The process-local clock of CacheFreshness and the wall clock are one    *)
(* clock here, and counters of DiskCacheStats are left out.                *)
(***************************************************************************)
EXTENDS Integers, FiniteSets, Functions

CONSTANTS Handles, Threads, HandleOf,
          Keys, ScopeOf, CatalogOf,  \* a key's identity scope and its catalog
          Gens, SizeOf,   \* generation names, and the encoded size of each
          MaxBytes, MaxEntries,      \* DiskCacheOptions
          TempGrace,      \* TEMP_GRACE
          Lifetimes,      \* the freshness lifetimes a worker may grant
          None, Bad,      \* no file; a file parse_ref refuses
          MaxTime,        \* bound: how far the clock runs
          MaxFaults       \* bound: crashes and damaged files together

ASSUME DiskAssumption ==
    /\ HandleOf \in [Threads -> Handles]
    /\ SizeOf \in [Gens -> Nat \ {0}]
    /\ {MaxBytes, MaxEntries, TempGrace, MaxTime, MaxFaults} \subseteq Nat
    /\ Lifetimes \subseteq Nat
    /\ None \notin Keys \cup Gens \cup Threads
    /\ IsFiniteSet(Gens) /\ IsFiniteSet(Keys)

VARIABLES refs,    \* the .ref file of each key
          obj,     \* the directory of each generation
          minted,  \* the generation names already used
          th,      \* what each thread is doing
          mutex,   \* the thread that holds a handle's operations mutex
          shared, excl,  \* holders of the lock on .operations
          up,      \* the handles that are open
          now,     \* the clock
          faults

vars == <<refs, obj, minted, th, mutex, shared, excl, up, now, faults>>

RefRecord == [gen : Gens, expires : Nat, revalidatable : BOOLEAN]

ASSUME RecordAssumption == None \notin RefRecord /\ Bad \notin RefRecord

\* A "hollow" directory lacks its .lease or its manifest; a "damaged" one
\* fails the digests of validate_hit.
Directory == [loc : {"absent", "temp", "object"},
              state : {"good", "damaged", "hollow"}, born : Nat]

Absent == [loc |-> "absent", state |-> "good", born |-> 0]

PCs == {"idle", "capturing", "discard", "commit", "admitted", "renamed",
        "published", "reading", "evict", "validate", "hit", "releasing", "recheck"}

ThreadState == [pc : PCs, key : Keys \cup {None}, gen : Gens \cup {None},
                rec : RefRecord \cup {None, Bad}, old : RefRecord \cup {None, Bad},
                flag : BOOLEAN]

Idle == [pc |-> "idle", key |-> None, gen |-> None, rec |-> None, old |-> None,
         flag |-> FALSE]

TypeOK ==
    /\ refs \in [Keys -> RefRecord \cup {None, Bad}]
    /\ obj \in [Gens -> Directory]
    /\ minted \subseteq Gens
    /\ th \in [Threads -> ThreadState]
    /\ mutex \in [Handles -> Threads \cup {None}]
    /\ shared \subseteq Threads
    /\ excl \in Threads \cup {None}
    /\ up \subseteq Handles
    /\ now \in Nat
    /\ faults \in Nat

Init ==
    /\ refs = [k \in Keys |-> None]
    /\ obj = [g \in Gens |-> Absent]
    /\ minted = {}
    /\ th = [t \in Threads |-> Idle]
    /\ mutex = [h \in Handles |-> None]
    /\ shared = {}
    /\ excl = None
    /\ up = {}
    /\ now = 0
    /\ faults = 0

-----------------------------------------------------------------------------
(* Leases, objects and references.                                         *)

LeaseLock(g) == \E t \in Threads : th[t].pc \in {"validate", "hit"} /\ th[t].gen = g

InLeaseMap(h, g) ==
    \E t \in Threads : /\ HandleOf[t] = h
                       /\ th[t].pc \in {"validate", "hit", "releasing"}
                       /\ th[t].gen = g

Mut_Retained(h, g) == InLeaseMap(h, g)

\* remove_object_if_unleased keeps the object; replacement_will_be_retained.
Retained(h, g) == InLeaseMap(h, g) \/ LeaseLock(g)

Owned(g) ==
    \E t \in Threads : /\ th[t].pc \in {"capturing", "discard", "commit", "admitted"}
                       /\ th[t].gen = g

Placed(O) == {g \in Gens : O[g].loc = "object"}

Readable(R) == {k \in Keys : R[k] \notin {None, Bad}}

GensOf(R, S) == {R[k].gen : k \in S}

Without(R, S) == [k \in Keys |-> IF k \in S THEN None ELSE R[k]]

\* remove_object_if_unleased on each object of D.
Unlink(h, O, D) ==
    [g \in Gens |-> IF g \in D /\ O[g].loc = "object" /\ ~Retained(h, g)
                    THEN Absent ELSE O[g]]

\* remove_invalid_refs: the references it removes.
Invalid(R, O) ==
    {k \in Keys : R[k] = Bad}
        \cup {k \in Readable(R) : \/ O[R[k].gen].loc # "object"
                                  \/ O[R[k].gen].state = "hollow"}

\* remove_expired: the references it removes.
Expired(R) == {k \in Readable(R) : R[k].expires <= now /\ ~R[k].revalidatable}

Mut_Orphans(R, O) == {}

\* remove_orphan_objects: the objects it tries to remove.
Orphans(R, O) == Placed(O) \ GensOf(R, Readable(R))

Mut_DropTemps(O) ==
    [g \in Gens |-> IF O[g].loc = "temp" /\ now - O[g].born >= TempGrace
                    THEN Absent ELSE O[g]]

\* remove_old_temps
DropTemps(O) ==
    [g \in Gens |-> IF O[g].loc = "temp" /\ ~Owned(g) /\ now - O[g].born >= TempGrace
                    THEN Absent ELSE O[g]]

-----------------------------------------------------------------------------
(* make_room.  A reference's stored_bytes is the size of its object, so    *)
(* what is referenced and what is orphaned is together what is placed.     *)

Bytes(S) == SumFunctionOnSet(SizeOf, S)

Mut_Counted(h, R, O, skip) ==
    {g \in Placed(O) : skip = None \/ R[skip] \in {None, Bad} \/ R[skip].gen # g}

\* The generations that count against the bounds: all that are placed, but
\* not the one that the commit replaces, unless a lease will retain it.
Counted(h, R, O, skip) ==
    {g \in Placed(O) : \/ skip = None
                       \/ R[skip] \in {None, Bad}
                       \/ R[skip].gen # g
                       \/ Retained(h, g)}

Fits(h, R, O, V, incoming, skip) ==
    LET counted == Counted(h, Without(R, V), Unlink(h, O, GensOf(R, V)), skip)
    IN  /\ Bytes(counted) <= MaxBytes - incoming
        /\ Cardinality(counted) <= MaxEntries - (IF incoming > 0 THEN 1 ELSE 0)

\* The sets of keys the loop may have removed when it ends.  It removes one
\* record at a time, until what is left fits or no candidate is left.  Each
\* handle orders the candidates by its own record of their last use; here
\* the victim is any of them.
Evictions(h, R, O, incoming, skip) ==
    LET C == Readable(R) \ {skip}
    IN  {V \in SUBSET C :
            /\ Fits(h, R, O, V, incoming, skip) \/ V = C
            /\ V # {} => \E v \in V : ~Fits(h, R, O, V \ {v}, incoming, skip)}

-----------------------------------------------------------------------------
(* Locks.                                                                  *)

H(t) == HandleOf[t]

Live(t) == H(t) \in up

\* The lock belongs to a handle's one open file, so it excludes the other
\* handles only; the mutex excludes the threads of the same handle.
ShareFree(h) == excl # None => H(excl) = h

RootFree(h) == ShareFree(h) /\ \A t \in shared : H(t) = h

\* operations.lock() and lock_root_exclusive() both succeed.
CanLock(t) == Live(t) /\ mutex[H(t)] = None /\ RootFree(H(t))

Mut_CanShare(t) == Live(t)

\* operations.lock() and lock_root_shared() both succeed.
CanShare(t) == Live(t) /\ mutex[H(t)] = None /\ ShareFree(H(t))

Locked(t) ==
    /\ mutex' = [mutex EXCEPT ![H(t)] = t]
    /\ excl' = t

Unlocked(t) ==
    /\ mutex' = [mutex EXCEPT ![H(t)] = None]
    /\ excl' = None

Go(t, s) == th' = [th EXCEPT ![t] = s]

-----------------------------------------------------------------------------
(* Opening, and the sweeps.                                                *)

\* The sweep that open (reconcile_on_open) and reap share.
Sweep(h) ==
    LET R1 == Without(refs, Invalid(refs, obj))
        R2 == Without(R1, Expired(R1))
        O1 == DropTemps(Unlink(h, obj, GensOf(R1, Expired(R1))))
        O2 == Unlink(h, O1, Orphans(R2, O1))
    IN  \E V \in Evictions(h, R2, O2, 0, None) :
            /\ refs' = Without(R2, V)
            /\ obj' = Unlink(h, O2, GensOf(R2, V))

Open(h) ==
    /\ h \notin up
    /\ RootFree(h)
    /\ up' = up \cup {h}
    /\ Sweep(h)
    /\ UNCHANGED <<minted, th, mutex, shared, excl, now, faults>>

Reap(t) ==
    /\ th[t].pc = "idle"
    /\ CanLock(t)
    /\ Sweep(H(t))
    /\ UNCHANGED <<minted, th, mutex, shared, excl, up, now, faults>>

\* remove_record on every key of S.
Purge(h, S) ==
    /\ refs' = Without(refs, S)
    /\ obj' = Unlink(h, obj, GensOf(refs, S))

\* flush_scope and flush_catalog
Flush(t) ==
    /\ th[t].pc = "idle"
    /\ CanLock(t)
    /\ \E k \in Keys : \E attribute \in {ScopeOf, CatalogOf} :
         Purge(H(t), {j \in Readable(refs) : attribute[j] = attribute[k]})
    /\ UNCHANGED <<minted, th, mutex, shared, excl, up, now, faults>>

FlushAll(t) ==
    /\ th[t].pc = "idle"
    /\ CanLock(t)
    /\ refs' = [k \in Keys |-> None]
    /\ obj' = Unlink(H(t), obj, GensOf(refs, Readable(refs)))
    /\ UNCHANGED <<minted, th, mutex, shared, excl, up, now, faults>>

Remove(t, k) ==
    /\ th[t].pc = "idle"
    /\ CanLock(t)
    /\ refs[k] \notin {None, Bad}
    /\ Purge(H(t), {k})
    /\ UNCHANGED <<minted, th, mutex, shared, excl, up, now, faults>>

-----------------------------------------------------------------------------
(* Capturing and committing.                                               *)

\* begin_capture.  push_batch writes into the directory and can only set
\* limit_exceeded, which the size of the generation stands for.
BeginCapture(t, g) ==
    /\ th[t].pc = "idle"
    /\ Live(t)
    /\ g \notin minted
    /\ minted' = minted \cup {g}
    /\ obj' = [obj EXCEPT ![g] = [loc |-> "temp", state |-> "good", born |-> now]]
    /\ Go(t, [Idle EXCEPT !.pc = "capturing", !.gen = g])
    /\ UNCHANGED <<refs, mutex, shared, excl, up, now, faults>>

\* abort, drop, a push over the limit, and the skips that commit decides on
\* before it takes a lock: policy, bounds of zero, an entry too large.
Abandon(t) ==
    /\ th[t].pc = "capturing"
    /\ Go(t, [th[t] EXCEPT !.pc = "discard"])
    /\ UNCHANGED <<refs, obj, minted, mutex, shared, excl, up, now, faults>>

\* remove_temp
RemoveTemp(t) ==
    /\ th[t].pc = "discard"
    /\ CanLock(t)
    /\ obj' = [obj EXCEPT ![th[t].gen] = Absent]
    /\ Go(t, Idle)
    /\ UNCHANGED <<refs, minted, mutex, shared, excl, up, now, faults>>

\* What push_batch and finish_parts measure is over the byte bound.
Oversized(g) == SizeOf[g] > MaxBytes

\* commit up to the locks: the lifetime starts here, when the complete result
\* is received, and the manifest and the record are prepared.
Commit(t, k, life, revalidatable) ==
    /\ th[t].pc = "capturing"
    /\ life > 0 \/ revalidatable
    /\ MaxEntries > 0
    /\ ~Oversized(th[t].gen)
    /\ Go(t, [th[t] EXCEPT !.pc = "commit", !.key = k,
                           !.rec = [gen |-> th[t].gen, expires |-> now + life,
                                    revalidatable |-> revalidatable],
                           !.flag = (life = 0)])
    /\ UNCHANGED <<refs, obj, minted, mutex, shared, excl, up, now, faults>>

\* expired() && !immediate_revalidation
TooLate(t) == th[t].rec.expires <= now /\ ~th[t].flag

\* The locks, the first look at the clock, the removal of what is invalid or
\* orphaned, and make_room.
CommitAdmit(t) ==
    /\ th[t].pc = "commit"
    /\ CanLock(t)
    /\ IF TooLate(t)
       THEN /\ Go(t, [th[t] EXCEPT !.pc = "discard"])
            /\ UNCHANGED <<refs, obj, mutex, excl>>
       ELSE LET h == H(t)
                k == th[t].key
                size == SizeOf[th[t].gen]
                R1 == Without(refs, Invalid(refs, obj))
                O1 == Unlink(h, obj, Orphans(R1, obj))
                R2 == Without(R1, Expired(R1))
                O2 == Unlink(h, O1, GensOf(R1, Expired(R1)))
            IN  \E V \in Evictions(h, R2, O2, size, k) :
                  /\ refs' = Without(R2, V)
                  /\ obj' = Unlink(h, O2, GensOf(R2, V))
                  /\ IF Fits(h, R2, O2, V, size, k)
                     THEN /\ Go(t, [th[t] EXCEPT !.pc = "admitted"])
                          /\ Locked(t)
                     ELSE /\ Go(t, [th[t] EXCEPT !.pc = "discard"])
                          /\ UNCHANGED <<mutex, excl>>
    /\ UNCHANGED <<minted, shared, up, now, faults>>

Mut_CommitRename(t) ==
    /\ th[t].pc = "admitted"
    /\ IF TooLate(t)
       THEN /\ Go(t, [th[t] EXCEPT !.pc = "discard"])
            /\ UNCHANGED obj
       ELSE /\ obj' = [obj EXCEPT ![th[t].gen] = [@ EXCEPT !.loc = "object", !.born = 0]]
            /\ Go(t, [th[t] EXCEPT !.pc = "renamed", !.old = refs[th[t].key]])
    /\ UNCHANGED <<refs, minted, mutex, shared, excl, up, now, faults>>

\* The second look at the clock, and the rename into objects/.  A directory's
\* age matters under tmp/ only.
CommitRename(t) ==
    /\ th[t].pc = "admitted"
    /\ IF TooLate(t)
       THEN /\ Go(t, [th[t] EXCEPT !.pc = "discard"])
            /\ Unlocked(t)
            /\ UNCHANGED obj
       ELSE /\ obj' = [obj EXCEPT ![th[t].gen] = [@ EXCEPT !.loc = "object", !.born = 0]]
            /\ Go(t, [th[t] EXCEPT !.pc = "renamed", !.old = refs[th[t].key]])
            /\ UNCHANGED <<mutex, excl>>
    /\ UNCHANGED <<refs, minted, shared, up, now, faults>>

\* write_replace_synced: the reference is replaced by one rename.
WriteRef(k, r) == refs' = [refs EXCEPT ![k] = r]

CommitPublish(t) ==
    /\ th[t].pc = "renamed"
    /\ WriteRef(th[t].key, th[t].rec)
    /\ Go(t, [th[t] EXCEPT !.pc = "published"])
    /\ UNCHANGED <<obj, minted, mutex, shared, excl, up, now, faults>>

Mut_RolledBack(t) == refs

\* PublicationRollback: the reference, if it is the published one, becomes
\* what it was.
RolledBack(t) ==
    [refs EXCEPT ![th[t].key] = IF @ = th[t].rec THEN th[t].old ELSE @]

Rollback(t) ==
    /\ refs' = RolledBack(t)
    /\ obj' = Unlink(H(t), obj, {th[t].gen})

\* The object the commit replaced.
Replaced(t) == IF th[t].old \in {None, Bad} THEN {} ELSE {th[t].old.gen}

\* The last look at the clock; then the commit stands, and the replaced
\* object is removed.
CommitFinish(t) ==
    /\ th[t].pc = "published"
    /\ IF TooLate(t)
       THEN Rollback(t)
       ELSE /\ obj' = Unlink(H(t), obj, Replaced(t))
            /\ UNCHANGED refs
    /\ Unlocked(t)
    /\ Go(t, Idle)
    /\ UNCHANGED <<minted, shared, up, now, faults>>

\* An I/O error after the locks are taken: before the rename the capture is
\* dropped, after it the publication is rolled back.
CommitError(t) ==
    /\ th[t].pc \in {"admitted", "renamed", "published"}
    /\ IF th[t].pc = "admitted"
       THEN /\ Go(t, [th[t] EXCEPT !.pc = "discard"])
            /\ UNCHANGED <<refs, obj>>
       ELSE /\ Rollback(t)
            /\ Go(t, Idle)
    /\ Unlocked(t)
    /\ faults < MaxFaults
    /\ faults' = faults + 1
    /\ UNCHANGED <<minted, shared, up, now>>

-----------------------------------------------------------------------------
(* Looking up.                                                             *)

\* lookup_inner up to the freshness test.  `stale` is the argument
\* allow_stale_revalidation.  A miss on an absent reference, on an expired
\* one kept for revalidation, or on one without a validator changes nothing.
LookupRead(t, k, stale) ==
    /\ th[t].pc = "idle"
    /\ CanShare(t)
    /\ refs[k] # None
    /\ mutex' = [mutex EXCEPT ![H(t)] = t]
    /\ LET r == refs[k]
           s(pc) == [Idle EXCEPT !.pc = pc, !.key = k, !.rec = r, !.flag = stale]
       IN  \/ /\ r # Bad => r.expires <= now /\ ~r.revalidatable
              /\ Go(t, s("evict"))
              /\ UNCHANGED shared
           \/ /\ r # Bad
              /\ IF stale THEN r.revalidatable ELSE r.expires > now
              /\ Go(t, [s("reading") EXCEPT !.gen = r.gen])
              /\ shared' = shared \cup {t}
    /\ UNCHANGED <<refs, obj, minted, excl, up, now, faults>>

\* acquire_lease, still under the shared lock
LookupLease(t) ==
    /\ th[t].pc = "reading"
    /\ shared' = shared \ {t}
    /\ IF obj[th[t].gen].loc = "object" /\ obj[th[t].gen].state # "hollow"
       THEN /\ Go(t, [th[t] EXCEPT !.pc = "validate"])
            /\ mutex' = [mutex EXCEPT ![H(t)] = None]
       ELSE /\ Go(t, [th[t] EXCEPT !.pc = "evict", !.gen = None])
            /\ UNCHANGED mutex
    /\ UNCHANGED <<refs, obj, minted, excl, up, now, faults>>

Mut_PurgeIfCurrent(t) ==
    IF refs[th[t].key] \in {None, Bad}
    THEN /\ refs' = [refs EXCEPT ![th[t].key] = None]
         /\ UNCHANGED obj
    ELSE Purge(H(t), {th[t].key})

\* remove_record_if_current; a reference that does not parse has no object.
PurgeIfCurrent(t) ==
    IF refs[th[t].key] # th[t].rec
    THEN UNCHANGED <<refs, obj>>
    ELSE IF th[t].rec = Bad
    THEN /\ refs' = [refs EXCEPT ![th[t].key] = None]
         /\ UNCHANGED <<obj>>
    ELSE Purge(H(t), {th[t].key})

\* The shared lock was dropped and the exclusive one is taken, with the mutex
\* held throughout.
LookupEvict(t) ==
    /\ th[t].pc = "evict"
    /\ RootFree(H(t))
    /\ PurgeIfCurrent(t)
    /\ mutex' = [mutex EXCEPT ![H(t)] = None]
    /\ Go(t, Idle)
    /\ UNCHANGED <<minted, shared, excl, up, now, faults>>

\* validate_hit, outside the locks.  It fails on a damaged directory, and on
\* a schema that is not the one the caller expects.
Validate(t) ==
    /\ th[t].pc = "validate"
    /\ \/ /\ obj[th[t].gen].loc = "object" /\ obj[th[t].gen].state = "good"
          /\ Go(t, [th[t] EXCEPT !.pc = "hit"])
       \/ Go(t, [th[t] EXCEPT !.pc = "recheck"])
    /\ UNCHANGED <<refs, obj, minted, mutex, shared, excl, up, now, faults>>

Recheck(t) ==
    /\ th[t].pc = "recheck"
    /\ CanLock(t)
    /\ PurgeIfCurrent(t)
    /\ Go(t, Idle)
    /\ UNCHANGED <<minted, mutex, shared, excl, up, now, faults>>

-----------------------------------------------------------------------------
(* Using a hit.                                                            *)

\* remove_hit
RemoveHit(t) ==
    /\ th[t].pc = "hit"
    /\ CanLock(t)
    /\ PurgeIfCurrent(t)
    /\ UNCHANGED <<minted, th, mutex, shared, excl, up, now, faults>>

\* revalidate_freshness; `late` is a lifetime that ran out while the
\* reference was written.
Revalidate(t, life, revalidatable, late) ==
    /\ th[t].pc = "hit"
    /\ CanLock(t)
    /\ th[t].rec.revalidatable
    /\ life > 0 \/ revalidatable
    /\ refs[th[t].key] = th[t].rec
    /\ IF late
       THEN life > 0 /\ Purge(H(t), {th[t].key})
       ELSE /\ WriteRef(th[t].key, [th[t].rec EXCEPT !.expires = now + life,
                                                    !.revalidatable = revalidatable])
            /\ UNCHANGED obj
    /\ UNCHANGED <<minted, th, mutex, shared, excl, up, now, faults>>

\* Lease::drop: the file lock goes first, the map entry after it.
Release(t) ==
    /\ th[t].pc = "hit"
    /\ Go(t, [th[t] EXCEPT !.pc = "releasing"])
    /\ UNCHANGED <<refs, obj, minted, mutex, shared, excl, up, now, faults>>

Released(t) ==
    /\ th[t].pc = "releasing"
    /\ Go(t, Idle)
    /\ UNCHANGED <<refs, obj, minted, mutex, shared, excl, up, now, faults>>

-----------------------------------------------------------------------------
(* The environment.                                                        *)

\* The process of a handle dies; the system drops its locks.
Crash(h) ==
    /\ h \in up
    /\ faults < MaxFaults
    /\ faults' = faults + 1
    /\ up' = up \ {h}
    /\ th' = [t \in Threads |-> IF H(t) = h THEN Idle ELSE th[t]]
    /\ mutex' = [mutex EXCEPT ![h] = None]
    /\ shared' = {t \in shared : H(t) # h}
    /\ excl' = IF excl # None /\ H(excl) = h THEN None ELSE excl
    /\ UNCHANGED <<refs, obj, minted, now>>

\* A file is damaged from outside.  A .lease that a reader has locked stays.
Damage ==
    /\ faults < MaxFaults
    /\ faults' = faults + 1
    /\ \/ \E k \in Readable(refs) : refs' = [refs EXCEPT ![k] = Bad] /\ UNCHANGED obj
       \/ \E g \in Placed(obj) : \E s \in {"damaged", "hollow"} :
            /\ s = "hollow" => ~LeaseLock(g)
            /\ obj' = [obj EXCEPT ![g].state = s]
            /\ UNCHANGED refs
    /\ excl = None
    /\ UNCHANGED <<minted, th, mutex, shared, excl, up, now>>

Tick ==
    /\ now < MaxTime
    /\ now' = now + 1
    /\ UNCHANGED <<refs, obj, minted, th, mutex, shared, excl, up, faults>>

Next ==
    \/ \E h \in Handles : Open(h) \/ Crash(h)
    \/ \E t \in Threads : \/ Reap(t) \/ Flush(t) \/ FlushAll(t)
                          \/ \E k \in Keys : Remove(t, k)
                          \/ \E g \in Gens : BeginCapture(t, g)
                          \/ Abandon(t) \/ RemoveTemp(t)
                          \/ \E k \in Keys, life \in Lifetimes, v \in BOOLEAN :
                               Commit(t, k, life, v)
                          \/ CommitAdmit(t) \/ CommitRename(t) \/ CommitPublish(t)
                          \/ CommitFinish(t) \/ CommitError(t)
                          \/ \E k \in Keys, s \in BOOLEAN : LookupRead(t, k, s)
                          \/ LookupLease(t) \/ LookupEvict(t) \/ Validate(t)
                          \/ Recheck(t) \/ RemoveHit(t) \/ Release(t) \/ Released(t)
                          \/ \E life \in Lifetimes, v \in BOOLEAN, late \in BOOLEAN :
                               Revalidate(t, life, v, late)
    \/ Damage
    \/ Tick

Spec == Init /\ [][Next]_vars

-----------------------------------------------------------------------------
(* What the cache promises.                                                *)

\* An object that a reader of any process has leased stays where it is until
\* the reader lets go: no flush, replacement, eviction or sweep removes it
\* (remove_object_if_unleased).
LeasedObjectStays ==
    \A t \in Threads :
        th[t].pc \in {"validate", "hit"} => obj[th[t].gen].loc = "object"

\* A reference names an object that is in place, at every moment and so at
\* every crash: the object is renamed before its reference is written, and
\* the reference goes before the object does.
RefsResolve ==
    \A k \in Readable(refs) : obj[refs[k].gen].loc = "object"

\* A capture's directory is there until its owner commits or removes it; the
\* sweep of another process does not take it (remove_old_temps).
CaptureKept ==
    \A t \in Threads :
        th[t].pc \in {"capturing", "discard", "commit", "admitted"}
            => obj[th[t].gen].loc = "temp"

\* A lookup that found an expired, damaged or mismatched record removes that
\* record or nothing: the replacement another process published meanwhile
\* stays (remove_record_if_current).
LookupSparesReplacement ==
    [][\A t \in Threads :
         th[t].pc \in {"evict", "recheck"} /\ th'[t].pc = "idle"
            => \A k \in Keys : refs'[k] # refs[k] => refs[k] = th[t].rec]_vars

\* When a commit stands, everything in objects/, retained generations
\* included, is within both bounds (make_room).
StoredWithinBounds ==
    [][\A t \in Threads :
         th[t].pc = "published" /\ th'[t].pc = "idle" /\ H(t) \in up'
           /\ refs'[th[t].key] = th[t].rec
            => /\ Bytes(Placed(obj')) <= MaxBytes
               /\ Cardinality(Placed(obj')) <= MaxEntries]_vars

\* Opening the directory recovers it from any crash: what is left in objects/
\* is referenced or leased, no reference dangles, and the bounds hold but for
\* leased objects.
OpenRecovers ==
    [][\A h \in up' \ up :
         LET referenced == {refs'[k].gen : k \in Readable(refs')}
             free == {g \in Placed(obj') : ~LeaseLock(g)}
         IN  /\ free \subseteq referenced
             /\ \A g \in referenced : obj'[g].loc = "object" /\ obj'[g].state # "hollow"
             /\ free # {} => /\ Bytes(Placed(obj')) <= MaxBytes
                             /\ Cardinality(Placed(obj')) <= MaxEntries]_vars

\* Nobody waits in a circle, and no path leaves a lock behind: whoever has the
\* lock on .operations is in the middle of a commit or a lookup and can go on
\* by itself; whoever has a handle's mutex has that lock as well, or waits for
\* nobody but those who have it (RootOperation::drop and the drop order in
\* commit_with_deadline, lookup_inner).
HoldersRun ==
    \A t \in Threads :
        /\ excl = t => ENABLED (CommitRename(t) \/ CommitPublish(t) \/ CommitFinish(t))
        /\ t \in shared => ENABLED LookupLease(t)
        /\ mutex[H(t)] = t => excl = t \/ t \in shared \/ (RootFree(H(t)) => ENABLED LookupEvict(t))

\* While a commit has published and can still roll back, readers cannot see
\* the new reference, so the entry is still the old one.
Current(k) ==
    IF \E t \in Threads : th[t].pc = "published" /\ th[t].key = k
    THEN LET t == CHOOSE u \in Threads : th[u].pc = "published" /\ th[u].key = k
         IN  th[t].old
    ELSE refs[k]

InCommit(g) ==
    \E t \in Threads : /\ th[t].gen = g
                       /\ th[t].pc \in {"capturing", "discard", "commit", "admitted",
                                        "renamed", "published"}

Store == INSTANCE ResultStore WITH
    Readers <- Threads,
    entry <- [k \in Keys |-> IF Current(k) \in {None, Bad} THEN None ELSE Current(k).gen],
    used <- {g \in minted : ~InCommit(g)},
    view <- [t \in Threads |-> IF th[t].pc \in {"reading", "validate", "hit"}
                               THEN <<th[t].key, th[t].gen>> ELSE None]

\* The directory, as readers of any process see it, is a store of whole
\* results: a lookup returns the entry that is current when it reads the
\* reference, a commit that fails or expires is never seen, and a generation
\* once removed does not come back.
RefinesStore == Store!Spec

=============================================================================
