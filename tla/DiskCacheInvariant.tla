------------------------- MODULE DiskCacheInvariant -------------------------
(***************************************************************************)
(* The inductive invariant of DiskCache, and the proofs that every step    *)
(* keeps the types, the programs of the threads and the locks, and that    *)
(* the steps that only remove keep what is leased, owned or referenced.    *)
(*                                                                         *)
(* IInv adds to what a reader has leased, a capture owns and a reference   *)
(* names what these rest on: the locks exclude (Locks), a thread knows its *)
(* key, generation and record where its program needs them (Programs), a   *)
(* name is used once (Minted, OneOwner, OneRef), and the window between    *)
(* the rename and the end of a commit, in which the object is in place but *)
(* the outcome is open (Publication).                                      *)
(***************************************************************************)
EXTENDS DiskCache, TLAPS

Owning == {"capturing", "discard", "commit", "admitted"}

Leasing == {"validate", "hit"}

Publishing == {"renamed", "published"}

ProgramOK(s) ==
    /\ s.pc \in Owning \cup Publishing \cup Leasing \cup {"reading"} => s.gen \in Gens
    /\ s.pc \in Publishing \cup {"commit", "admitted"} =>
         s.key \in Keys /\ s.rec \in RefRecord /\ s.rec.gen = s.gen
    /\ s.pc \in Leasing \cup {"reading", "recheck"} =>
         s.key \in Keys /\ s.rec \in RefRecord \ {None, Bad}
    /\ s.pc = "evict" => s.key \in Keys /\ s.rec \in RefRecord \cup {Bad} /\ s.rec # None

Programs == \A t \in Threads : ProgramOK(th[t])

Locks ==
    \A t \in Threads :
        /\ th[t].pc # "idle" => H(t) \in up
        /\ th[t].pc \in Publishing \cup {"admitted"} => excl = t
        /\ th[t].pc \in Publishing \cup {"admitted", "reading", "evict"} => mutex[H(t)] = t

Minted == \A g \in Gens : obj[g].loc # "absent" => g \in minted

OneOwner ==
    \A t, u \in Threads :
        th[t].pc \in Owning /\ th[u].pc \in Owning /\ th[t].gen = th[u].gen => t = u

One(R) == \A j, k \in Readable(R) : R[j].gen = R[k].gen => j = k

OneRef == One(refs)

Publication ==
    \A t \in Threads : th[t].pc \in Publishing =>
        /\ obj[th[t].gen].loc = "object"
        /\ \A k \in Readable(refs) : k # th[t].key => refs[k].gen # th[t].gen
        /\ refs[th[t].key] = IF th[t].pc = "renamed" THEN th[t].old ELSE th[t].rec
        /\ th[t].old \notin {None, Bad} =>
             /\ obj[th[t].old.gen].loc = "object"
             /\ th[t].old.gen # th[t].gen
             /\ \A k \in Readable(refs) : k # th[t].key => refs[k].gen # th[t].old.gen

Places ==
    /\ LeasedObjectStays /\ CaptureKept /\ RefsResolve
    /\ Minted /\ OneOwner /\ OneRef /\ Publication

IInv == TypeOK /\ Programs /\ Locks /\ Places

-----------------------------------------------------------------------------
(* Types.                                                                  *)

Refs == RefRecord \cup {None, Bad}

LEMMA WithoutType ==
    ASSUME NEW R \in [Keys -> Refs], NEW S
    PROVE  Without(R, S) \in [Keys -> Refs]
BY DEF Without, Refs

LEMMA UnlinkType ==
    ASSUME NEW h, NEW O \in [Gens -> Directory], NEW D
    PROVE  Unlink(h, O, D) \in [Gens -> Directory]
<1>1. Absent \in Directory
  BY DEF Absent, Directory
<1> QED
  BY <1>1 DEF Unlink

LEMMA DropTempsType ==
    ASSUME NEW O \in [Gens -> Directory]
    PROVE  DropTemps(O) \in [Gens -> Directory]
<1>1. Absent \in Directory
  BY DEF Absent, Directory
<1> QED
  BY <1>1 DEF DropTemps

LEMMA ObjectType ==
    ASSUME NEW d \in Directory
    PROVE  [d EXCEPT !.loc = "object", !.born = 0] \in Directory
BY ZenonT(60) DEF Directory

LEMMA IdleType == Idle \in ThreadState
BY DEF Idle, ThreadState, PCs

(* A sweep, a purge and a purge of the current record keep the types. *)
LEMMA SweepType ==
    ASSUME TypeOK, NEW h \in Handles, Sweep(h)
    PROVE  refs' \in [Keys -> Refs] /\ obj' \in [Gens -> Directory]
<1> DEFINE R1 == Without(refs, Invalid(refs, obj))
           R2 == Without(R1, Expired(R1))
           O1 == DropTemps(Unlink(h, obj, GensOf(R1, Expired(R1))))
           O2 == Unlink(h, O1, Orphans(R2, O1))
<1>1. PICK V : refs' = Without(R2, V) /\ obj' = Unlink(h, O2, GensOf(R2, V))
  BY Zenon DEF Sweep
<1>2. R1 \in [Keys -> Refs]
  BY WithoutType, Zenon DEF TypeOK, Refs
<1>3. R2 \in [Keys -> Refs]
  BY <1>2, WithoutType, Zenon
<1>4. O1 \in [Gens -> Directory]
  BY UnlinkType, DropTempsType, Zenon DEF TypeOK
<1>5. O2 \in [Gens -> Directory]
  BY <1>4, UnlinkType, Zenon
<1> HIDE DEF R1, R2, O1, O2
<1> QED
  BY <1>1, <1>3, <1>5, WithoutType, UnlinkType, Zenon

LEMMA PurgeType ==
    ASSUME TypeOK, NEW h, NEW S, Purge(h, S)
    PROVE  refs' \in [Keys -> Refs] /\ obj' \in [Gens -> Directory]
BY WithoutType, UnlinkType, Zenon DEF Purge, TypeOK, Refs

LEMMA PurgeIfCurrentType ==
    ASSUME TypeOK, NEW t, PurgeIfCurrent(t)
    PROVE  refs' \in [Keys -> Refs] /\ obj' \in [Gens -> Directory]
BY PurgeType, Zenon DEF PurgeIfCurrent, TypeOK, Refs

LEMMA UnlinkOneType ==
    ASSUME TypeOK, NEW h, NEW D, obj' = Unlink(h, obj, D)
    PROVE  obj' \in [Gens -> Directory]
BY UnlinkType DEF TypeOK

LEMMA TypeInit == Init => TypeOK
BY IdleType DEF Init, TypeOK, Directory, Absent

(* Every action keeps the types; Programs gives the fields a thread uses.  *)
LEMMA TypeStep == TypeOK /\ Programs /\ [Next]_vars => TypeOK'
<1> SUFFICES ASSUME TypeOK, Programs, [Next]_vars PROVE TypeOK'
  OBVIOUS
<1> USE DEF Refs
<1>h. \A t \in Threads : H(t) \in Handles
  BY DiskAssumption DEF H
<1>1. ASSUME NEW h \in Handles, Open(h) PROVE TypeOK'
  BY <1>1, SweepType, Zenon DEF Open, TypeOK
<1>2. ASSUME NEW h \in Handles, Crash(h) PROVE TypeOK'
  BY <1>2, IdleType DEF Crash, TypeOK
<1>3. ASSUME NEW t \in Threads, Reap(t) PROVE TypeOK'
  BY <1>3, <1>h, SweepType, Zenon DEF Reap, TypeOK
<1>4. ASSUME NEW t \in Threads, Flush(t) PROVE TypeOK'
  BY <1>4, PurgeType, Zenon DEF Flush, TypeOK
<1>5. ASSUME NEW t \in Threads, FlushAll(t) PROVE TypeOK'
  BY <1>5, UnlinkOneType, Zenon DEF FlushAll, TypeOK
<1>6. ASSUME NEW t \in Threads, NEW k \in Keys, Remove(t, k) PROVE TypeOK'
  BY <1>6, PurgeType, Zenon DEF Remove, TypeOK
<1>7. ASSUME NEW t \in Threads, NEW g \in Gens, BeginCapture(t, g) PROVE TypeOK'
  <2>1. [Idle EXCEPT !.pc = "capturing", !.gen = g] \in ThreadState
    BY ZenonT(60) DEF Idle, ThreadState, PCs
  <2>2. [loc |-> "temp", state |-> "good", born |-> now] \in Directory
    BY Zenon DEF TypeOK, Directory
  <2> QED
    BY <1>7, <2>1, <2>2, Zenon DEF BeginCapture, Go, TypeOK
<1>8. ASSUME NEW t \in Threads, Abandon(t) PROVE TypeOK'
  <2>1. [th[t] EXCEPT !.pc = "discard"] \in ThreadState
    BY DEF TypeOK, ThreadState, PCs
  <2> QED
    BY <1>8, <2>1, Zenon DEF Abandon, Go, TypeOK
<1>9. ASSUME NEW t \in Threads, RemoveTemp(t) PROVE TypeOK'
  <2>1. Absent \in Directory
    BY DEF Absent, Directory
  <2> QED
    BY <1>9, <2>1, IdleType, ZenonT(60) DEF RemoveTemp, Go, TypeOK
<1>10. ASSUME NEW t \in Threads, NEW k \in Keys, NEW life \in Lifetimes, NEW v \in BOOLEAN,
              Commit(t, k, life, v)
       PROVE  TypeOK'
  <2> DEFINE r == [gen |-> th[t].gen, expires |-> now + life, revalidatable |-> v]
  <2>1. th[t].gen \in Gens
    BY <1>10, Zenon DEF Commit, Programs, ProgramOK, Owning
  <2>2. now + life \in Nat
    BY DiskAssumption DEF TypeOK
  <2>3. r \in RefRecord
    BY <2>1, <2>2, Zenon DEF RefRecord
  <2>4. [th[t] EXCEPT !.pc = "commit", !.key = k, !.rec = r, !.flag = (life = 0)] \in ThreadState
    BY <2>3, ZenonT(60) DEF TypeOK, ThreadState, PCs
  <2> QED
    BY <1>10, <2>4, Zenon DEF Commit, Go, TypeOK
<1>11. ASSUME NEW t \in Threads, CommitAdmit(t) PROVE TypeOK'
  <2> DEFINE h == H(t)
             k == th[t].key
             size == SizeOf[th[t].gen]
             R1 == Without(refs, Invalid(refs, obj))
             O1 == Unlink(h, obj, Orphans(R1, obj))
             R2 == Without(R1, Expired(R1))
             O2 == Unlink(h, O1, GensOf(R1, Expired(R1)))
  <2>1. /\ [th[t] EXCEPT !.pc = "discard"] \in ThreadState
        /\ [th[t] EXCEPT !.pc = "admitted"] \in ThreadState
    BY DEF TypeOK, ThreadState, PCs
  <2>2. th' \in [Threads -> ThreadState]
    BY <1>11, <2>1, Zenon DEF CommitAdmit, Go, TypeOK
  <2>3. mutex' \in [Handles -> Threads \cup {None}] /\ excl' \in Threads \cup {None}
    BY <1>11, Zenon DEF CommitAdmit, Locked, TypeOK
  <2>4. CASE TooLate(t)
    BY <1>11, <2>2, <2>3, <2>4, Zenon DEF CommitAdmit, TypeOK
  <2>5. CASE ~TooLate(t)
    <3>1. PICK V : refs' = Without(R2, V) /\ obj' = Unlink(h, O2, GensOf(R2, V))
      BY <1>11, <2>5, Zenon DEF CommitAdmit
    <3>2. R1 \in [Keys -> Refs]
      BY WithoutType, Zenon DEF TypeOK
    <3>3. R2 \in [Keys -> Refs]
      BY <3>2, WithoutType, Zenon
    <3>4. O1 \in [Gens -> Directory]
      BY UnlinkType, Zenon DEF TypeOK
    <3>5. O2 \in [Gens -> Directory]
      BY <3>4, UnlinkType, Zenon
    <3> HIDE DEF R1, R2, O1, O2, h
    <3>6. refs' \in [Keys -> Refs] /\ obj' \in [Gens -> Directory]
      BY <3>1, <3>3, <3>5, WithoutType, UnlinkType, Zenon
    <3> QED
      BY <1>11, <2>2, <2>3, <3>6, Zenon DEF CommitAdmit, TypeOK
  <2> QED
    BY <2>4, <2>5
<1>12. ASSUME NEW t \in Threads, CommitRename(t) PROVE TypeOK'
  <2>1. th[t].key \in Keys /\ th[t].gen \in Gens
    BY <1>12, Zenon DEF CommitRename, Programs, ProgramOK, Owning
  <2>2. /\ [th[t] EXCEPT !.pc = "discard"] \in ThreadState
        /\ [th[t] EXCEPT !.pc = "renamed", !.old = refs[th[t].key]] \in ThreadState
    BY <2>1, ZenonT(60) DEF TypeOK, ThreadState, PCs
  <2>3. th' \in [Threads -> ThreadState]
    BY <1>12, <2>2, Zenon DEF CommitRename, Go, TypeOK
  <2>4. [obj[th[t].gen] EXCEPT !.loc = "object", !.born = 0] \in Directory
    BY <2>1, ObjectType, Zenon DEF TypeOK
  <2>5. obj' \in [Gens -> Directory]
    BY <1>12, <2>4, Zenon DEF CommitRename, TypeOK
  <2> QED
    BY <1>12, <2>3, <2>5, Zenon DEF CommitRename, Unlocked, TypeOK
<1>13. ASSUME NEW t \in Threads, CommitPublish(t) PROVE TypeOK'
  <2>1. [th[t] EXCEPT !.pc = "published"] \in ThreadState
    BY DEF TypeOK, ThreadState, PCs
  <2>2. th[t].rec \in Refs
    BY Zenon DEF TypeOK, ThreadState
  <2> QED
    BY <1>13, <2>1, <2>2, ZenonT(60) DEF CommitPublish, WriteRef, Go, TypeOK
<1>r. ASSUME NEW t \in Threads, Rollback(t)
      PROVE  refs' \in [Keys -> Refs] /\ obj' \in [Gens -> Directory]
  <2>1. th[t].old \in Refs
    BY Zenon DEF TypeOK, ThreadState
  <2> QED
    BY <1>r, <2>1, UnlinkOneType, ZenonT(60) DEF Rollback, RolledBack, TypeOK
<1>14. ASSUME NEW t \in Threads, CommitFinish(t) PROVE TypeOK'
  <2>1. refs' \in [Keys -> Refs] /\ obj' \in [Gens -> Directory]
    BY <1>14, <1>r, UnlinkOneType, Zenon DEF CommitFinish, TypeOK
  <2> QED
    BY <1>14, <2>1, IdleType, ZenonT(60) DEF CommitFinish, Unlocked, Go, TypeOK
<1>15. ASSUME NEW t \in Threads, CommitError(t) PROVE TypeOK'
  <2>1. refs' \in [Keys -> Refs] /\ obj' \in [Gens -> Directory]
    BY <1>15, <1>r, Zenon DEF CommitError, TypeOK
  <2>2. [th[t] EXCEPT !.pc = "discard"] \in ThreadState
    BY DEF TypeOK, ThreadState, PCs
  <2>3. th' \in [Threads -> ThreadState]
    BY <1>15, <2>2, IdleType DEF CommitError, Go, TypeOK
  <2>4. mutex' \in [Handles -> Threads \cup {None}] /\ excl' \in Threads \cup {None}
    BY <1>15, ZenonT(60) DEF CommitError, Unlocked, TypeOK
  <2>5. faults' \in Nat
    BY <1>15 DEF CommitError, TypeOK
  <2> QED
    BY <1>15, <2>1, <2>3, <2>4, <2>5, Zenon DEF CommitError, TypeOK
<1>16. ASSUME NEW t \in Threads, NEW k \in Keys, NEW s \in BOOLEAN, LookupRead(t, k, s)
       PROVE  TypeOK'
  <2> DEFINE st(pc) == [Idle EXCEPT !.pc = pc, !.key = k, !.rec = refs[k], !.flag = s]
  <2>1. st("evict") \in ThreadState
    BY ZenonT(60) DEF TypeOK, Idle, ThreadState, PCs
  <2>2. CASE th' = [th EXCEPT ![t] = st("evict")] /\ UNCHANGED shared
    BY <1>16, <2>1, <2>2, ZenonT(60) DEF LookupRead, TypeOK
  <2>3. CASE /\ refs[k] # Bad
             /\ th' = [th EXCEPT ![t] = [st("reading") EXCEPT !.gen = refs[k].gen]]
             /\ shared' = shared \cup {t}
    <3>1. refs[k] \in RefRecord
      BY <1>16, <2>3, Zenon DEF LookupRead, TypeOK
    <3>2. refs[k].gen \in Gens
      BY <3>1 DEF RefRecord
    <3>3. [st("reading") EXCEPT !.gen = refs[k].gen] \in ThreadState
      BY <3>1, <3>2, ZenonT(60) DEF Idle, ThreadState, PCs
    <3> QED
      BY <1>16, <2>3, <3>3, ZenonT(60) DEF LookupRead, TypeOK
  <2> QED
    BY <1>16, <2>2, <2>3, Zenon DEF LookupRead, Go
<1>17. ASSUME NEW t \in Threads, LookupLease(t) PROVE TypeOK'
  <2>1. /\ [th[t] EXCEPT !.pc = "validate"] \in ThreadState
        /\ [th[t] EXCEPT !.pc = "evict", !.gen = None] \in ThreadState
    BY ZenonT(60) DEF TypeOK, ThreadState, PCs
  <2> QED
    BY <1>17, <2>1, Zenon DEF LookupLease, Go, TypeOK
<1>18. ASSUME NEW t \in Threads, LookupEvict(t) PROVE TypeOK'
  BY <1>18, PurgeIfCurrentType, IdleType, ZenonT(60) DEF LookupEvict, Go, TypeOK
<1>19. ASSUME NEW t \in Threads, Validate(t) PROVE TypeOK'
  <2>1. /\ [th[t] EXCEPT !.pc = "hit"] \in ThreadState
        /\ [th[t] EXCEPT !.pc = "recheck"] \in ThreadState
    BY DEF TypeOK, ThreadState, PCs
  <2> QED
    BY <1>19, <2>1 DEF Validate, Go, TypeOK
<1>20. ASSUME NEW t \in Threads, Recheck(t) PROVE TypeOK'
  BY <1>20, PurgeIfCurrentType, IdleType, Zenon DEF Recheck, Go, TypeOK
<1>21. ASSUME NEW t \in Threads, RemoveHit(t) PROVE TypeOK'
  BY <1>21, PurgeIfCurrentType, Zenon DEF RemoveHit, TypeOK
<1>22. ASSUME NEW t \in Threads, Release(t) PROVE TypeOK'
  <2>1. [th[t] EXCEPT !.pc = "releasing"] \in ThreadState
    BY DEF TypeOK, ThreadState, PCs
  <2> QED
    BY <1>22, <2>1, Zenon DEF Release, Go, TypeOK
<1>23. ASSUME NEW t \in Threads, Released(t) PROVE TypeOK'
  BY <1>23, IdleType, Zenon DEF Released, Go, TypeOK
<1>24. ASSUME NEW t \in Threads, NEW life \in Lifetimes, NEW v \in BOOLEAN, NEW late \in BOOLEAN,
              Revalidate(t, life, v, late)
       PROVE  TypeOK'
  <2>1. now + life \in Nat
    BY DiskAssumption DEF TypeOK
  <2>2. th[t].rec \in RefRecord
    BY <1>24, Zenon DEF Revalidate, Programs, ProgramOK, Leasing
  <2>3. [th[t].rec EXCEPT !.expires = now + life, !.revalidatable = v] \in RefRecord
    BY <2>1, <2>2, ZenonT(60) DEF RefRecord
  <2>4. refs' \in [Keys -> Refs] /\ obj' \in [Gens -> Directory]
    BY <1>24, <2>3, PurgeType DEF Revalidate, WriteRef, TypeOK
  <2> QED
    BY <1>24, <2>4, Zenon DEF Revalidate, TypeOK
<1>25. CASE Damage
  <2>1. refs' \in [Keys -> Refs]
    BY <1>25, Zenon DEF Damage, TypeOK
  <2>2. obj' \in [Gens -> Directory]
    BY <1>25 DEF Damage, TypeOK, Directory
  <2> QED
    BY <1>25, <2>1, <2>2 DEF Damage, TypeOK
<1>26. CASE Tick
  BY <1>26 DEF Tick, TypeOK
<1>27. CASE UNCHANGED vars
  BY <1>27, Zenon DEF vars, TypeOK
<1> QED
  BY <1>1, <1>2, <1>3, <1>4, <1>5, <1>6, <1>7, <1>8, <1>9, <1>10, <1>11, <1>12, <1>13,
     <1>14, <1>15, <1>16, <1>17, <1>18, <1>19, <1>20, <1>21, <1>22, <1>23, <1>24, <1>25,
     <1>26, <1>27 DEF Next

-----------------------------------------------------------------------------
(* Programs and locks.                                                     *)

LEMMA ProgramGo ==
    ASSUME TypeOK, Programs, NEW t \in Threads, NEW s, ProgramOK(s), Go(t, s)
    PROVE  Programs'
BY DEF TypeOK, Programs, ProgramOK, Go

LEMMA IdleProgram == ProgramOK(Idle)
BY DEF ProgramOK, Idle, Owning, Publishing, Leasing

LEMMA ProgramsStep == TypeOK /\ Programs /\ [Next]_vars => Programs'
<1> SUFFICES ASSUME TypeOK, Programs, [Next]_vars PROVE Programs'
  OBVIOUS
<1>a. \A t \in Threads : ProgramOK(th[t]) /\ th[t] \in ThreadState
  BY DEF TypeOK, Programs
<1> USE DEF Owning, Publishing, Leasing
<1>1. CASE UNCHANGED th
  BY <1>1, Zenon DEF Programs, ProgramOK
<1>2. ASSUME NEW h \in Handles, Crash(h) PROVE Programs'
  BY <1>2, IdleProgram DEF Crash, Programs, ProgramOK
<1>3. ASSUME NEW t \in Threads, Go(t, Idle) PROVE Programs'
  BY <1>3, IdleProgram, ProgramGo
<1>4. ASSUME NEW t \in Threads, th[t].pc \in {"capturing", "commit", "admitted"},
             Go(t, [th[t] EXCEPT !.pc = "discard"])
      PROVE  Programs'
  <2>1. ProgramOK([th[t] EXCEPT !.pc = "discard"])
    BY <1>a, <1>4 DEF ProgramOK, ThreadState
  <2> QED
    BY <1>4, <2>1, ProgramGo
<1>5. ASSUME NEW t \in Threads, NEW g \in Gens, BeginCapture(t, g) PROVE Programs'
  <2>1. ProgramOK([Idle EXCEPT !.pc = "capturing", !.gen = g])
    BY DEF ProgramOK, Idle
  <2> QED
    BY <1>5, <2>1, ProgramGo, Zenon DEF BeginCapture
<1>6. ASSUME NEW t \in Threads, NEW k \in Keys, NEW life \in Lifetimes, NEW v \in BOOLEAN,
             Commit(t, k, life, v)
      PROVE  Programs'
  <2> DEFINE r == [gen |-> th[t].gen, expires |-> now + life, revalidatable |-> v]
             s == [th[t] EXCEPT !.pc = "commit", !.key = k, !.rec = r, !.flag = (life = 0)]
  <2>1. th[t].gen \in Gens
    BY <1>a, <1>6, Zenon DEF Commit, ProgramOK
  <2>2. now + life \in Nat
    BY DiskAssumption DEF TypeOK
  <2>3. r \in RefRecord /\ r.gen = th[t].gen
    BY <2>1, <2>2, Zenon DEF RefRecord
  <2>4. s.pc = "commit" /\ s.key = k /\ s.rec = r /\ s.gen = th[t].gen
    BY <1>a DEF ThreadState
  <2>5. ProgramOK(s)
    BY <2>1, <2>3, <2>4, Zenon DEF ProgramOK
  <2> QED
    BY <1>6, <2>5, ProgramGo, Zenon DEF Commit
<1>7. ASSUME NEW t \in Threads, CommitAdmit(t) PROVE Programs'
  <2>1. ProgramOK([th[t] EXCEPT !.pc = "admitted"])
    BY <1>a, <1>7 DEF CommitAdmit, ProgramOK, ThreadState
  <2>2. th[t].pc = "commit" /\ (\/ Go(t, [th[t] EXCEPT !.pc = "discard"])
                               \/ Go(t, [th[t] EXCEPT !.pc = "admitted"]))
    BY <1>7, Zenon DEF CommitAdmit
  <2> QED
    BY <1>4, <2>1, <2>2, ProgramGo, Zenon
<1>8. ASSUME NEW t \in Threads, CommitRename(t) PROVE Programs'
  <2>1. ProgramOK([th[t] EXCEPT !.pc = "renamed", !.old = refs[th[t].key]])
    BY <1>a, <1>8 DEF CommitRename, ProgramOK, ThreadState
  <2> QED
    BY <1>4, <1>8, <2>1, ProgramGo, Zenon DEF CommitRename
<1>9. ASSUME NEW t \in Threads, CommitPublish(t) PROVE Programs'
  <2>1. ProgramOK([th[t] EXCEPT !.pc = "published"])
    BY <1>a, <1>9 DEF CommitPublish, ProgramOK, ThreadState
  <2> QED
    BY <1>9, <2>1, ProgramGo, Zenon DEF CommitPublish
<1>10. ASSUME NEW t \in Threads, NEW k \in Keys, NEW b \in BOOLEAN, LookupRead(t, k, b)
       PROVE  Programs'
  <2> DEFINE st(pc) == [Idle EXCEPT !.pc = pc, !.key = k, !.rec = refs[k], !.flag = b]
  <2>1. refs[k] \in RefRecord \cup {Bad} /\ refs[k] # None
    BY <1>10, Zenon DEF LookupRead, TypeOK
  <2>2. ProgramOK(st("evict"))
    BY <2>1, Zenon DEF ProgramOK, Idle
  <2>3. ASSUME refs[k] # Bad PROVE ProgramOK([st("reading") EXCEPT !.gen = refs[k].gen])
    <3>1. refs[k] \in RefRecord \ {None, Bad} /\ refs[k].gen \in Gens
      BY <2>1, <2>3, Zenon DEF RefRecord
    <3>2. LET s == [st("reading") EXCEPT !.gen = refs[k].gen]
          IN  s.pc = "reading" /\ s.key = k /\ s.rec = refs[k] /\ s.gen = refs[k].gen
      BY DEF Idle
    <3> QED
      BY <3>1, <3>2, Zenon DEF ProgramOK
  <2>4. \/ Go(t, st("evict"))
        \/ refs[k] # Bad /\ Go(t, [st("reading") EXCEPT !.gen = refs[k].gen])
    BY <1>10, Zenon DEF LookupRead
  <2> HIDE DEF st
  <2> QED
    BY <2>2, <2>3, <2>4, ProgramGo
<1>11. ASSUME NEW t \in Threads, LookupLease(t) PROVE Programs'
  <2>1. /\ ProgramOK([th[t] EXCEPT !.pc = "validate"])
        /\ ProgramOK([th[t] EXCEPT !.pc = "evict", !.gen = None])
    BY <1>a, <1>11 DEF LookupLease, ProgramOK, ThreadState
  <2> QED
    BY <1>11, <2>1, ProgramGo, Zenon DEF LookupLease
<1>12. ASSUME NEW t \in Threads, Validate(t) PROVE Programs'
  <2>1. /\ ProgramOK([th[t] EXCEPT !.pc = "hit"])
        /\ ProgramOK([th[t] EXCEPT !.pc = "recheck"])
    BY <1>a, <1>12 DEF Validate, ProgramOK, ThreadState
  <2> QED
    BY <1>12, <2>1, ProgramGo, Zenon DEF Validate
<1>13. ASSUME NEW t \in Threads, Release(t) PROVE Programs'
  <2>1. ProgramOK([th[t] EXCEPT !.pc = "releasing"])
    BY <1>a DEF ProgramOK, ThreadState
  <2> QED
    BY <1>13, <2>1, ProgramGo DEF Release
<1>14. ASSUME NEW t \in Threads,
              \/ Abandon(t) \/ RemoveTemp(t) \/ CommitFinish(t) \/ CommitError(t)
              \/ LookupEvict(t) \/ Recheck(t) \/ Released(t)
       PROVE  Programs'
  BY <1>3, <1>4, <1>14, Zenon DEF Abandon, RemoveTemp, CommitFinish, CommitError, LookupEvict,
                           Recheck, Released
<1>15. ASSUME NEW h \in Handles, Open(h) PROVE UNCHANGED th
  BY <1>15 DEF Open
<1>16. ASSUME NEW t \in Threads,
              \/ Reap(t) \/ Flush(t) \/ FlushAll(t) \/ RemoveHit(t)
              \/ \E k \in Keys : Remove(t, k)
              \/ \E life \in Lifetimes, v \in BOOLEAN, late \in BOOLEAN :
                   Revalidate(t, life, v, late)
       PROVE  UNCHANGED th
  BY <1>16, Zenon DEF Reap, Flush, FlushAll, RemoveHit, Remove, Revalidate
<1>17. Damage \/ Tick \/ UNCHANGED vars => UNCHANGED th
  BY Zenon DEF Damage, Tick, vars
<1> QED
  BY Zenon, <1>1, <1>2, <1>5, <1>6, <1>7, <1>8, <1>9, <1>10, <1>11, <1>12, <1>13, <1>14, <1>15,
     <1>16, <1>17 DEF Next

Holding == Publishing \cup {"admitted", "reading", "evict"}

(* The mutex of a handle and the lock on .operations exclude: while a      *)
(* thread has both for a commit, nobody else gets either.                  *)
LEMMA Excluded ==
    ASSUME TypeOK, Locks, NEW t \in Threads, NEW u \in Threads,
           th[u].pc \in Publishing \cup {"admitted"}
    PROVE  /\ ~CanLock(t)
           /\ th[t].pc \in Publishing \cup {"admitted"} => t = u
           /\ th[t].pc = "evict" => ~RootFree(H(t))
<1>1. excl = u /\ mutex[H(u)] = u /\ u # None
  BY DiskAssumption, Zenon DEF Locks
<1>2. ASSUME CanLock(t) PROVE FALSE
  BY <1>1, <1>2, Zenon DEF CanLock, RootFree, ShareFree
<1>3. ASSUME th[t].pc = "evict", RootFree(H(t)) PROVE FALSE
  <2>1. mutex[H(t)] = t
    BY <1>3, Zenon DEF Locks
  <2>2. H(u) = H(t)
    BY <1>1, <1>3, Zenon DEF RootFree, ShareFree
  <2> QED
    BY <1>1, <1>3, <2>1, <2>2, Zenon DEF Publishing
<1> QED
  BY <1>1, <1>2, <1>3, Zenon DEF Locks

LEMMA LocksStep == TypeOK /\ Locks /\ [Next]_vars => Locks'
<1> SUFFICES ASSUME TypeOK, Locks, [Next]_vars PROVE Locks'
  OBVIOUS
<1>a. \A t \in Threads : H(t) \in Handles /\ t # None /\ th[t] \in ThreadState
  BY DiskAssumption, Zenon DEF H, TypeOK
<1> USE DEF Publishing, H
<1>1. CASE UNCHANGED <<th, mutex, excl>> /\ up \subseteq up'
  BY <1>1, Zenon DEF Locks
<1>2. ASSUME NEW t \in Threads, NEW s, Go(t, s), s.pc \notin Holding, Live(t),
             UNCHANGED <<mutex, excl, up>>
      PROVE  Locks'
  BY <1>2 DEF Locks, Go, Holding, Live, TypeOK
<1>3. ASSUME NEW t \in Threads, NEW s, Go(t, s), s.pc \notin Holding,
             th[t].pc \in Publishing \cup {"admitted"}, Unlocked(t), UNCHANGED up
      PROVE  Locks'
  <2>1. mutex[H(t)] = t /\ excl = t /\ H(t) \in up
    BY <1>3, Zenon DEF Locks
  <2>2. \A u \in Threads \ {t} : th'[u] = th[u] /\ (th[u].pc \in Holding => H(u) # H(t))
    BY <1>3, <2>1 DEF Locks, Holding, Go, TypeOK
  <2> QED
    BY <1>3, <1>a, <2>1, <2>2 DEF Locks, Go, Holding, Unlocked, TypeOK
<1>4. ASSUME NEW t \in Threads, NEW s, Go(t, s), th[t].pc \in Publishing \cup {"admitted"},
             s.pc \in Publishing, UNCHANGED <<mutex, excl, up>>
      PROVE  Locks'
  BY <1>4 DEF Locks, Go, TypeOK
<1>5. ASSUME NEW t \in Threads, NEW s, Go(t, s), s.pc \notin Holding,
             th[t].pc \in {"reading", "evict"},
             mutex' = [mutex EXCEPT ![H(t)] = None], UNCHANGED <<excl, up>>
      PROVE  Locks'
  <2>1. mutex[H(t)] = t /\ H(t) \in up
    BY <1>5, Zenon DEF Locks
  <2>2. \A u \in Threads \ {t} : th'[u] = th[u] /\ (th[u].pc \in Holding => H(u) # H(t))
    BY <1>5, <2>1, Zenon DEF Locks, Holding, Go, TypeOK
  <2> QED
    BY <1>5, <1>a, <2>1, <2>2 DEF Locks, Go, Holding, TypeOK
<1>l. ASSUME NEW t \in Threads, th[t].pc # "idle" PROVE Live(t)
  BY <1>l, Zenon DEF Locks, Live
<1>6. ASSUME NEW h \in Handles, Open(h) PROVE Locks'
  BY <1>1, <1>6 DEF Open
<1>7. ASSUME NEW h \in Handles, Crash(h) PROVE Locks'
  <2>1. \A u \in Threads : IF H(u) = h THEN th'[u] = Idle ELSE th'[u] = th[u]
    BY <1>7, Zenon DEF Crash
  <2>2. \A u \in Threads : H(u) # h => mutex'[H(u)] = mutex[H(u)] /\ (excl = u => excl' = u)
    BY <1>7, <1>a, Zenon DEF Crash, TypeOK
  <2> QED
    BY <1>7, <2>1, <2>2, Zenon DEF Locks, Crash, Idle
<1>8. ASSUME NEW t \in Threads,
             \/ Reap(t) \/ Flush(t) \/ FlushAll(t) \/ RemoveHit(t)
             \/ \E k \in Keys : Remove(t, k)
             \/ \E life \in Lifetimes, v \in BOOLEAN, late \in BOOLEAN :
                  Revalidate(t, life, v, late)
      PROVE  Locks'
  BY <1>1, <1>8, Zenon DEF Reap, Flush, FlushAll, RemoveHit, Remove, Revalidate
<1>9. Damage \/ Tick \/ UNCHANGED vars => Locks'
  BY <1>1, Zenon DEF Damage, Tick, vars
<1>10. ASSUME NEW t \in Threads, NEW g \in Gens, BeginCapture(t, g) PROVE Locks'
  BY <1>2, <1>10, ZenonT(60) DEF BeginCapture, Idle, Holding
<1>11. ASSUME NEW t \in Threads, Abandon(t) \/ Validate(t) \/ Release(t) PROVE Locks'
  <2>1. \E p \in {"discard", "hit", "recheck", "releasing"} :
          Go(t, [th[t] EXCEPT !.pc = p])
    BY <1>11, Zenon DEF Abandon, Validate, Release
  <2>2. PICK p \in {"discard", "hit", "recheck", "releasing"} :
          Go(t, [th[t] EXCEPT !.pc = p])
    BY <2>1, Zenon
  <2>3. [th[t] EXCEPT !.pc = p].pc = p
    BY <1>a DEF ThreadState
  <2>4. th[t].pc # "idle" /\ UNCHANGED <<mutex, excl, up>>
    BY <1>11, Zenon DEF Abandon, Validate, Release
  <2> QED
    BY <1>2, <1>l, <2>2, <2>3, <2>4, ZenonT(60) DEF Holding
<1>12. ASSUME NEW t \in Threads, RemoveTemp(t) \/ Recheck(t) \/ Released(t) PROVE Locks'
  <2>1. Go(t, Idle) /\ th[t].pc # "idle" /\ UNCHANGED <<mutex, excl, up>>
    BY <1>12, Zenon DEF RemoveTemp, Recheck, Released
  <2>2. Idle.pc \notin Holding
    BY DEF Idle, Holding
  <2> QED
    BY <1>2, <1>l, <2>1, <2>2, Zenon
<1>13. ASSUME NEW t \in Threads, NEW k \in Keys, NEW life \in Lifetimes, NEW v \in BOOLEAN,
              Commit(t, k, life, v)
       PROVE  Locks'
  <2> DEFINE s == [th[t] EXCEPT !.pc = "commit", !.key = k,
                       !.rec = [gen |-> th[t].gen, expires |-> now + life, revalidatable |-> v],
                       !.flag = (life = 0)]
  <2>1. Go(t, s) /\ th[t].pc # "idle" /\ UNCHANGED <<mutex, excl, up>>
    BY <1>13, Zenon DEF Commit
  <2>2. s.pc \notin Holding
    BY <1>a DEF ThreadState, Holding
  <2> HIDE DEF s
  <2> QED
    BY <1>2, <1>l, <2>1, <2>2, Zenon
<1>14. ASSUME NEW t \in Threads, CommitAdmit(t) PROVE Locks'
  <2>1. /\ [th[t] EXCEPT !.pc = "discard"].pc \notin Holding
        /\ [th[t] EXCEPT !.pc = "admitted"].pc = "admitted"
    BY <1>a DEF ThreadState, Holding
  <2>2. CASE Go(t, [th[t] EXCEPT !.pc = "discard"]) /\ UNCHANGED <<mutex, excl>>
    BY <1>2, <1>14, <2>1, <2>2, ZenonT(60) DEF CommitAdmit, CanLock
  <2>3. CASE Go(t, [th[t] EXCEPT !.pc = "admitted"]) /\ Locked(t)
    <3>1. \A u \in Threads : th[u].pc \notin Publishing \cup {"admitted"}
      BY <1>14, Excluded, Zenon DEF CommitAdmit
    <3>2. mutex[H(t)] = None /\ H(t) \in up /\ UNCHANGED up
      BY <1>14, Zenon DEF CommitAdmit, CanLock, Live
    <3>3. \A u \in Threads \ {t} : th'[u] = th[u] /\ (th[u].pc \in Holding => H(u) # H(t))
      BY <1>a, <2>3, <3>2 DEF Locks, Holding, Go, TypeOK
    <3> QED
      BY <1>a, <2>1, <2>3, <3>1, <3>2, <3>3 DEF Locks, Go, Holding, Locked, TypeOK
  <2> QED
    BY <1>14, <2>2, <2>3, Zenon DEF CommitAdmit
<1>15. ASSUME NEW t \in Threads, CommitRename(t) PROVE Locks'
  <2>1. /\ [th[t] EXCEPT !.pc = "discard"].pc \notin Holding
        /\ [th[t] EXCEPT !.pc = "renamed", !.old = refs[th[t].key]].pc \in Publishing
    BY <1>a DEF ThreadState, Holding
  <2> QED
    BY <1>3, <1>4, <1>15, <2>1, ZenonT(60) DEF CommitRename
<1>16. ASSUME NEW t \in Threads, CommitPublish(t) PROVE Locks'
  <2>1. [th[t] EXCEPT !.pc = "published"].pc \in Publishing
    BY <1>a DEF ThreadState
  <2> QED
    BY <1>4, <1>16, <2>1, ZenonT(60) DEF CommitPublish
<1>17. ASSUME NEW t \in Threads, CommitFinish(t) \/ CommitError(t) PROVE Locks'
  <2>1. [th[t] EXCEPT !.pc = "discard"].pc \notin Holding /\ Idle.pc \notin Holding
    BY <1>a DEF ThreadState, Holding, Idle
  <2> QED
    BY <1>3, <1>17, <2>1, ZenonT(60) DEF CommitFinish, CommitError
<1>18. ASSUME NEW t \in Threads, NEW k \in Keys, NEW b \in BOOLEAN, LookupRead(t, k, b)
       PROVE  Locks'
  <2> DEFINE st(pc) == [Idle EXCEPT !.pc = pc, !.key = k, !.rec = refs[k], !.flag = b]
  <2>1. /\ st("evict").pc = "evict"
        /\ [st("reading") EXCEPT !.gen = refs[k].gen].pc = "reading"
    BY DEF Idle
  <2>2. \/ Go(t, st("evict"))
        \/ Go(t, [st("reading") EXCEPT !.gen = refs[k].gen])
    BY <1>18, Zenon DEF LookupRead
  <2> HIDE DEF st
  <2>3. PICK s : Go(t, s) /\ s.pc \in {"evict", "reading"}
    BY <2>1, <2>2, ZenonT(60)
  <2>4. mutex[H(t)] = None /\ H(t) \in up /\ UNCHANGED <<up, excl>>
    BY <1>18, Zenon DEF LookupRead, CanShare, Live
  <2>5. mutex' = [mutex EXCEPT ![H(t)] = t]
    BY <1>18, Zenon DEF LookupRead
  <2>6. \A u \in Threads \ {t} : th'[u] = th[u] /\ (th[u].pc \in Holding => H(u) # H(t))
    BY <1>a, <2>3, <2>4 DEF Locks, Holding, Go, TypeOK
  <2> QED
    BY <1>a, <2>3, <2>4, <2>5, <2>6 DEF Locks, Go, Holding, TypeOK
<1>19. ASSUME NEW t \in Threads, LookupLease(t) PROVE Locks'
  <2>1. /\ [th[t] EXCEPT !.pc = "validate"].pc \notin Holding
        /\ [th[t] EXCEPT !.pc = "evict", !.gen = None].pc = "evict"
    BY <1>a DEF ThreadState, Holding
  <2>2. CASE Go(t, [th[t] EXCEPT !.pc = "validate"]) /\ mutex' = [mutex EXCEPT ![H(t)] = None]
    BY <1>5, <1>19, <2>1, <2>2, ZenonT(60) DEF LookupLease
  <2>3. CASE Go(t, [th[t] EXCEPT !.pc = "evict", !.gen = None]) /\ UNCHANGED mutex
    BY <1>19, <2>1, <2>3, Zenon DEF LookupLease, Locks, Go, TypeOK
  <2> QED
    BY <1>19, <2>2, <2>3, Zenon DEF LookupLease
<1>20. ASSUME NEW t \in Threads, LookupEvict(t) PROVE Locks'
  <2>1. Idle.pc \notin Holding
    BY DEF Idle, Holding
  <2> QED
    BY <1>5, <1>20, <2>1, ZenonT(60) DEF LookupEvict
<1> QED
  BY <1>6, <1>7, <1>8, <1>9, <1>10, <1>11, <1>12, <1>13, <1>14, <1>15, <1>16, <1>17, <1>18,
     <1>19, <1>20 DEF Next

-----------------------------------------------------------------------------
(* Removing references and objects.  Cleaned relates the directory before  *)
(* and after any sequence of removals that the code makes under the lock:  *)
(* references only disappear, and an object that disappears is neither     *)
(* leased nor referenced any more, a temporary directory not owned.        *)

Cleaned(R, O, R1, O1) ==
    /\ \A k \in Keys : R1[k] = R[k] \/ R1[k] = None
    /\ \A g \in Gens :
         \/ O1[g] = O[g]
         \/ /\ O1[g] = Absent
            /\ O[g].loc = "object" =>
                 ~LeaseLock(g) /\ \A k \in Readable(R1) : R1[k].gen # g
            /\ O[g].loc = "temp" => ~Owned(g)

LEMMA CleanedTransitive ==
    ASSUME NEW R, NEW O, NEW R1, NEW O1, NEW R2, NEW O2,
           Cleaned(R, O, R1, O1), Cleaned(R1, O1, R2, O2)
    PROVE  Cleaned(R, O, R2, O2)
<1>1. \A k \in Readable(R2) : R2[k] = R1[k] /\ k \in Readable(R1)
  BY Zenon DEF Cleaned, Readable
<1>2. Absent.loc = "absent"
  BY DEF Absent
<1>3. \A k \in Keys : R2[k] = R[k] \/ R2[k] = None
  BY Zenon DEF Cleaned
<1>4. ASSUME NEW g \in Gens, O2[g] # O[g]
      PROVE  /\ O2[g] = Absent
             /\ O[g].loc = "object" =>
                  ~LeaseLock(g) /\ \A k \in Readable(R2) : R2[k].gen # g
             /\ O[g].loc = "temp" => ~Owned(g)
  BY <1>1, <1>2, <1>4 DEF Cleaned
<1> QED
  BY <1>3, <1>4, Zenon DEF Cleaned

LEMMA WithoutCleans ==
    ASSUME NEW R \in [Keys -> Refs], NEW O, NEW S
    PROVE  Cleaned(R, O, Without(R, S), O)
BY DEF Cleaned, Without

LEMMA UnlinkCleans ==
    ASSUME NEW h, NEW R, NEW O, NEW D, \A k \in Readable(R) : R[k].gen \notin D
    PROVE  Cleaned(R, O, R, Unlink(h, O, D))
BY Zenon DEF Cleaned, Unlink, Retained

LEMMA DropTempsCleans ==
    ASSUME NEW R, NEW O
    PROVE  Cleaned(R, O, R, DropTemps(O))
BY Zenon DEF Cleaned, DropTemps

LEMMA WithoutOne ==
    ASSUME NEW R \in [Keys -> Refs], One(R), NEW S
    PROVE  /\ One(Without(R, S))
           /\ S \subseteq Readable(R) =>
                \A k \in Readable(Without(R, S)) : Without(R, S)[k].gen \notin GensOf(R, S)
BY Zenon DEF One, Without, Readable, GensOf

(* remove_record on keys with readable references. *)
LEMMA RemoveCleans ==
    ASSUME NEW h, NEW R \in [Keys -> Refs], NEW O, One(R), NEW S, S \subseteq Readable(R)
    PROVE  Cleaned(R, O, Without(R, S), Unlink(h, O, GensOf(R, S)))
<1>1. Cleaned(R, O, Without(R, S), O)
  BY WithoutCleans
<1>2. Cleaned(Without(R, S), O, Without(R, S), Unlink(h, O, GensOf(R, S)))
  BY WithoutOne, UnlinkCleans, Zenon
<1> QED
  BY <1>1, <1>2, CleanedTransitive

LEMMA OrphansCleans ==
    ASSUME NEW h, NEW R, NEW O
    PROVE  Cleaned(R, O, R, Unlink(h, O, Orphans(R, O)))
<1>1. \A k \in Readable(R) : R[k].gen \notin Orphans(R, O)
  BY DEF Orphans, GensOf
<1> QED
  BY <1>1, UnlinkCleans, Zenon

LEMMA SweepCleans ==
    ASSUME TypeOK, OneRef, NEW h, Sweep(h)
    PROVE  Cleaned(refs, obj, refs', obj')
<1> DEFINE R1 == Without(refs, Invalid(refs, obj))
           R2 == Without(R1, Expired(R1))
           O0 == Unlink(h, obj, GensOf(R1, Expired(R1)))
           O1 == DropTemps(O0)
           O2 == Unlink(h, O1, Orphans(R2, O1))
<1>1. PICK V \in Evictions(h, R2, O2, 0, None) :
         refs' = Without(R2, V) /\ obj' = Unlink(h, O2, GensOf(R2, V))
  BY Zenon DEF Sweep
<1>2. V \subseteq Readable(R2)
  BY <1>1, Zenon DEF Evictions
<1>3. /\ R1 \in [Keys -> Refs] /\ One(R1) /\ Cleaned(refs, obj, R1, obj)
  BY WithoutType, WithoutOne, WithoutCleans, Zenon DEF TypeOK, OneRef, Refs
<1>4. Expired(R1) \subseteq Readable(R1)
  BY Zenon DEF Expired
<1> HIDE DEF R1
<1>5. R2 \in [Keys -> Refs] /\ One(R2) /\ Cleaned(R1, obj, R2, O0)
  BY <1>3, <1>4, WithoutType, WithoutOne, RemoveCleans, Zenon
<1> HIDE DEF R2, O0
<1>6. Cleaned(R2, O0, R2, O1)
  BY DropTempsCleans
<1> HIDE DEF O1
<1>7. Cleaned(R2, O1, R2, O2)
  BY OrphansCleans
<1> HIDE DEF O2
<1>8. Cleaned(R2, O2, refs', obj')
  BY <1>1, <1>2, <1>5, RemoveCleans, Zenon
<1>9. Cleaned(refs, obj, R2, O0)
  BY <1>3, <1>5, CleanedTransitive, Zenon
<1>10. Cleaned(refs, obj, R2, O1)
  BY <1>6, <1>9, CleanedTransitive, Zenon
<1>11. Cleaned(refs, obj, R2, O2)
  BY <1>7, <1>10, CleanedTransitive, Zenon
<1> QED
  BY <1>8, <1>11, CleanedTransitive

LEMMA PurgeCleans ==
    ASSUME TypeOK, OneRef, NEW h, NEW S, S \subseteq Readable(refs), Purge(h, S)
    PROVE  Cleaned(refs, obj, refs', obj')
BY RemoveCleans, Zenon DEF Purge, TypeOK, OneRef, Refs

LEMMA SameCleans ==
    ASSUME UNCHANGED <<refs, obj>>
    PROVE  Cleaned(refs, obj, refs', obj')
BY DEF Cleaned

LEMMA PurgeIfCurrentCleans ==
    ASSUME TypeOK, OneRef, NEW t \in Threads, th[t].key \in Keys,
           th[t].rec # None, PurgeIfCurrent(t)
    PROVE  Cleaned(refs, obj, refs', obj')
<1>1. CASE UNCHANGED <<refs, obj>>
  BY <1>1, SameCleans, Zenon
<1>2. CASE refs' = [refs EXCEPT ![th[t].key] = None] /\ UNCHANGED obj
  BY <1>2, Zenon DEF Cleaned, TypeOK
<1>3. CASE refs[th[t].key] = th[t].rec /\ th[t].rec # Bad /\ Purge(H(t), {th[t].key})
  <2>1. {th[t].key} \subseteq Readable(refs)
    BY <1>3, Zenon DEF Readable
  <2> QED
    BY <1>3, <2>1, PurgeCleans, Zenon
<1> QED
  BY <1>1, <1>2, <1>3, Zenon DEF PurgeIfCurrent

-----------------------------------------------------------------------------
(* Places.                                                                 *)

(* A step that only removes, in which nobody takes a lease or a generation *)
(* and no commit is past its rename (or nothing is removed at all).        *)
LEMMA QuietStep ==
    ASSUME TypeOK, Programs, Places, Cleaned(refs, obj, refs', obj'), minted \subseteq minted',
           \A t \in Threads :
              /\ th'[t].pc \in Leasing => th[t].pc \in Leasing /\ th'[t].gen = th[t].gen
              /\ th'[t].pc \in Owning => th[t].pc \in Owning /\ th'[t].gen = th[t].gen
              /\ th'[t].pc \in Publishing => th'[t] = th[t] /\ UNCHANGED <<refs, obj>>
    PROVE  Places'
<1>a. Absent.loc = "absent"
  BY Zenon DEF Absent
<1>b. \A t \in Threads : th[t].pc \in Leasing \cup Owning => th[t].gen \in Gens
  BY Zenon DEF Programs, ProgramOK
<1>c. \A k \in Readable(refs') :
        /\ k \in Readable(refs) /\ refs'[k] = refs[k]
        /\ refs[k].gen \in Gens
  BY Zenon DEF Cleaned, Readable, TypeOK, RefRecord
<1>1. LeasedObjectStays'
  <2> SUFFICES ASSUME NEW t \in Threads, th'[t].pc \in Leasing
               PROVE  obj'[th'[t].gen].loc = "object"
    BY Zenon DEF LeasedObjectStays, Leasing
  <2>1. obj[th[t].gen].loc = "object" /\ LeaseLock(th[t].gen)
    BY Zenon DEF Places, LeasedObjectStays, LeaseLock, Leasing
  <2> QED
    BY <1>b, <2>1, ZenonT(30) DEF Cleaned
<1>2. CaptureKept'
  <2> SUFFICES ASSUME NEW t \in Threads, th'[t].pc \in Owning
               PROVE  obj'[th'[t].gen].loc = "temp"
    BY Zenon DEF CaptureKept, Owning
  <2>1. obj[th[t].gen].loc = "temp" /\ Owned(th[t].gen)
    BY Zenon DEF Places, CaptureKept, Owned, Owning
  <2> QED
    BY <1>b, <2>1, Zenon DEF Cleaned
<1>3. RefsResolve'
  <2> SUFFICES ASSUME NEW k \in Readable(refs')
               PROVE  obj'[refs'[k].gen].loc = "object"
    BY Zenon DEF RefsResolve, Readable
  <2>1. obj[refs[k].gen].loc = "object"
    BY <1>c, Zenon DEF Places, RefsResolve
  <2> QED
    BY <1>c, <2>1 DEF Cleaned
<1>4. Minted'
  BY <1>a, Zenon DEF Places, Minted, Cleaned
<1>5. OneOwner'
  BY DEF Places, OneOwner
<1>6. OneRef'
  BY <1>c DEF Places, OneRef, One, Readable
<1>7. Publication'
  BY DEF Places, Publication, Readable
<1> QED
  BY <1>1, <1>2, <1>3, <1>4, <1>5, <1>6, <1>7, Zenon DEF Places

LEMMA PlacesInit == Init => Places
BY DEF Init, Places, LeasedObjectStays, CaptureKept, RefsResolve, Minted, OneOwner, OneRef,
       One, Publication, Readable, Idle, Absent, Owning, Publishing

(* CanLock, and the other ways to the exclusive lock, leave no commit past *)
(* its rename.                                                             *)
NoPublisher == \A u \in Threads : th[u].pc \notin Publishing

LEMMA LockedAlone ==
    ASSUME TypeOK, Locks
    PROVE  /\ \A t \in Threads : CanLock(t) => NoPublisher
           /\ \A t \in Threads : th[t].pc = "evict" /\ RootFree(H(t)) => NoPublisher
           /\ \A h \in Handles : h \notin up /\ RootFree(h) => NoPublisher
           /\ excl = None => NoPublisher
<1>1. ASSUME NEW h \in Handles, h \notin up, RootFree(h), NEW u \in Threads,
             th[u].pc \in Publishing
      PROVE  FALSE
  <2>1. excl = u /\ u # None /\ H(u) \in up
    BY <1>1, DiskAssumption, Zenon DEF Locks, Publishing
  <2> QED
    BY <1>1, <2>1 DEF RootFree, ShareFree
<1>2. ASSUME excl = None PROVE NoPublisher
  BY <1>2, DiskAssumption, Zenon DEF Locks, NoPublisher
<1> QED
  BY <1>1, <1>2, Excluded, Zenon DEF NoPublisher

LEMMA InvFacts ==
    IInv => (TypeOK /\ Programs /\ Locks /\ Places /\ OneRef)
BY DEF IInv, Places

LEMMA ThreadFacts ==
    IInv => (\A t \in Threads : th[t] \in ThreadState /\ ProgramOK(th[t]))
BY InvFacts, Zenon DEF TypeOK, Programs

LEMMA RefFacts ==
    IInv => (\A k \in Readable(refs) : refs[k] \in RefRecord /\ refs[k].gen \in Gens)
BY InvFacts, Zenon DEF Readable, TypeOK, RefRecord

LEMMA StillPlaces ==
    ASSUME IInv, Cleaned(refs, obj, refs', obj'), UNCHANGED <<minted, th>>, NoPublisher
    PROVE  Places'
BY InvFacts, QuietStep, Zenon DEF NoPublisher

LEMMA GoPlaces ==
    ASSUME IInv, NEW t \in Threads, NEW s, Go(t, s), UNCHANGED minted,
           Cleaned(refs, obj, refs', obj'),
           s.pc \in Leasing => th[t].pc \in Leasing /\ s.gen = th[t].gen,
           s.pc \in Owning => th[t].pc \in Owning /\ s.gen = th[t].gen,
           s.pc \notin Publishing,
           \/ UNCHANGED <<refs, obj>>
           \/ \A u \in Threads \ {t} : th[u].pc \notin Publishing
    PROVE  Places'
<1>1. th'[t] = s /\ \A u \in Threads \ {t} : th'[u] = th[u]
  BY InvFacts, Zenon DEF Go, TypeOK
<1> QED
  BY InvFacts, <1>1, QuietStep, Zenon

LEMMA IdleFacts ==
    Idle.pc \notin Leasing \cup Owning \cup Publishing
BY DEF Idle, Leasing, Owning, Publishing

LEMMA OpenPlaces ==
    ASSUME IInv, NEW h \in Handles, Open(h)
    PROVE  Places'
BY StillPlaces, InvFacts, SweepCleans, LockedAlone, Zenon DEF Open

LEMMA CrashPlaces ==
    ASSUME IInv, NEW h \in Handles, Crash(h)
    PROVE  Places'
<1>1. Cleaned(refs, obj, refs', obj')
  BY SameCleans, Zenon DEF Crash
<1>2. \A t \in Threads : th'[t] = th[t] \/ th'[t] = Idle
  BY Zenon DEF Crash
<1> QED
  BY InvFacts, IdleFacts, <1>1, <1>2, QuietStep, Zenon DEF Crash

LEMMA ReapPlaces ==
    ASSUME IInv, NEW t \in Threads, Reap(t)
    PROVE  Places'
BY StillPlaces, InvFacts, SweepCleans, LockedAlone, Zenon DEF Reap

LEMMA FlushPlaces ==
    ASSUME IInv, NEW t \in Threads, Flush(t)
    PROVE  Places'
<1>1. PICK k \in Keys, attribute \in {ScopeOf, CatalogOf} :
        Purge(H(t), {j \in Readable(refs) : attribute[j] = attribute[k]})
  BY ZenonT(30) DEF Flush
<1>2. Cleaned(refs, obj, refs', obj')
  BY InvFacts, <1>1, PurgeCleans
<1> QED
  BY StillPlaces, InvFacts, <1>2, LockedAlone, Zenon DEF Flush

LEMMA FlushAllPlaces ==
    ASSUME IInv, NEW t \in Threads, FlushAll(t)
    PROVE  Places'
<1>1. Cleaned(refs, obj, refs', obj)
  BY Zenon DEF FlushAll, Cleaned
<1>2. Readable(refs') = {}
  BY Zenon DEF FlushAll, Readable
<1>3. Cleaned(refs', obj, refs', obj')
  BY <1>2, UnlinkCleans, Zenon DEF FlushAll
<1>4. Cleaned(refs, obj, refs', obj')
  BY <1>1, <1>3, CleanedTransitive
<1> QED
  BY StillPlaces, InvFacts, <1>4, LockedAlone, ZenonT(30) DEF FlushAll

LEMMA RemovePlaces ==
    ASSUME IInv, NEW t \in Threads, NEW k \in Keys, Remove(t, k)
    PROVE  Places'
<1>1. {k} \subseteq Readable(refs)
  BY DEF Remove, Readable
<1> QED
  BY StillPlaces, InvFacts, <1>1, PurgeCleans, LockedAlone, Zenon DEF Remove

\* A step that leaves the ref files alone, the state of every publishing thread and the
\* objects it points at keeps the account of its publication.
LEMMA PublicationStays ==
    ASSUME Publication, refs' = refs,
           \A u \in Threads : th'[u].pc \in Publishing =>
              /\ th'[u] = th[u] /\ obj'[th[u].gen] = obj[th[u].gen]
              /\ th[u].old \notin {None, Bad} => obj'[th[u].old.gen] = obj[th[u].old.gen]
    PROVE  Publication'
<1>1. Readable(refs') = Readable(refs)
  BY SMTT(30)
<1> SUFFICES ASSUME NEW u \in Threads, th'[u].pc \in Publishing
             PROVE  /\ obj'[th'[u].gen].loc = "object"
                    /\ \A k \in Readable(refs') : k # th'[u].key => refs'[k].gen # th'[u].gen
                    /\ refs'[th'[u].key] = IF th'[u].pc = "renamed" THEN th'[u].old ELSE th'[u].rec
                    /\ th'[u].old \notin {None, Bad} =>
                         /\ obj'[th'[u].old.gen].loc = "object"
                         /\ th'[u].old.gen # th'[u].gen
                         /\ \A k \in Readable(refs') : k # th'[u].key => refs'[k].gen # th'[u].old.gen
  BY Zenon DEF Publication
<1>2. th'[u] = th[u] /\ th[u].pc \in Publishing
  BY SMTT(30)
<1>3. /\ obj'[th[u].gen].loc = "object"
      /\ th[u].old \notin {None, Bad} => obj'[th[u].old.gen].loc = "object"
  BY <1>2 DEF Publication
<1> QED
  BY <1>1, <1>2, <1>3 DEF Publication

LEMMA BeginCapturePlaces ==
    ASSUME IInv, NEW t \in Threads, NEW g \in Gens, BeginCapture(t, g)
    PROVE  Places'
<1>1. obj[g].loc = "absent"
  BY InvFacts, Zenon DEF BeginCapture, Places, Minted
<1>2. /\ obj'[g].loc = "temp" /\ \A f \in Gens \ {g} : obj'[f] = obj[f]
      /\ g \in minted' /\ minted \subseteq minted' /\ UNCHANGED refs
  BY InvFacts, Zenon DEF BeginCapture, TypeOK
<1>3. /\ th'[t].pc = "capturing" /\ th'[t].gen = g
      /\ \A u \in Threads \ {t} : th'[u] = th[u]
  BY InvFacts, Zenon DEF BeginCapture, Go, TypeOK, Idle
<1>4. \A u \in Threads : th[u].pc \in Leasing \cup Owning \cup Publishing =>
        th[u].gen \in Gens \ {g}
  BY InvFacts, ThreadFacts, <1>1, Zenon DEF ProgramOK, Places, LeasedObjectStays, CaptureKept, Publication,
                          Leasing, Owning
<1>5. \A k \in Readable(refs) : refs[k].gen # g
  BY InvFacts, <1>1, Zenon DEF Places, RefsResolve
<1>6. \A u \in Threads : th[u].pc \in Publishing /\ th[u].old \notin {None, Bad} =>
        th[u].old.gen \in Gens \ {g}
  BY InvFacts, ThreadFacts, <1>1, Zenon DEF Places, Publication, ThreadState, RefRecord
<1>7. LeasedObjectStays' /\ CaptureKept'
  BY InvFacts, <1>2, <1>3, <1>4 DEF Places, LeasedObjectStays, CaptureKept, Leasing, Owning
<1>8. RefsResolve' /\ OneRef'
  BY InvFacts, RefFacts, <1>2, <1>5 DEF Places, RefsResolve, Readable, OneRef, One
<1>9. Minted' /\ OneOwner'
  BY InvFacts, <1>2, <1>3, <1>4 DEF Places, Minted, OneOwner, Owning
<1>10. Publication'
  <2>1. ASSUME NEW u \in Threads, th'[u].pc \in Publishing
        PROVE  /\ th'[u] = th[u] /\ obj'[th[u].gen] = obj[th[u].gen]
               /\ th[u].old \notin {None, Bad} => obj'[th[u].old.gen] = obj[th[u].old.gen]
    BY <1>2, <1>3, <1>4, <1>6, <2>1, Zenon DEF Publishing
  <2>2. refs' = refs /\ Publication
    BY InvFacts, <1>2 DEF Places
  <2> QED
    BY <2>1, <2>2, PublicationStays, ZenonT(30)
<1> QED
  BY <1>7, <1>8, <1>9, <1>10 DEF Places

LEMMA RemoveTempPlaces ==
    ASSUME IInv, NEW t \in Threads, RemoveTemp(t)
    PROVE  Places'
<1> DEFINE g == th[t].gen
<1>1. g \in Gens /\ obj[g].loc = "temp"
  BY InvFacts, ThreadFacts, Zenon DEF RemoveTemp, ProgramOK, Owning, Places, CaptureKept
<1>2. /\ obj'[g].loc = "absent" /\ \A f \in Gens \ {g} : obj'[f] = obj[f]
      /\ UNCHANGED <<refs, minted>>
  BY InvFacts, <1>1, Zenon DEF RemoveTemp, TypeOK, Absent
<1>3. th'[t].pc = "idle" /\ \A u \in Threads \ {t} : th'[u] = th[u]
  BY InvFacts, Zenon DEF RemoveTemp, Go, TypeOK, Idle
<1>4. \A u \in Threads \ {t} : th[u].pc \in Leasing \cup Owning \cup Publishing =>
        th[u].gen \in Gens \ {g}
  BY InvFacts, ThreadFacts, <1>1, ZenonT(30) DEF RemoveTemp, ProgramOK, Places, LeasedObjectStays, OneOwner,
                                 Publication, Leasing, Owning
<1>5. \A k \in Readable(refs) : refs[k].gen # g
  BY InvFacts, <1>1, Zenon DEF Places, RefsResolve
<1>6. \A u \in Threads : th[u].pc \in Publishing /\ th[u].old \notin {None, Bad} =>
        th[u].old.gen \in Gens \ {g}
  BY InvFacts, ThreadFacts, <1>1, Zenon DEF Places, Publication, ThreadState, RefRecord
<1> HIDE DEF g
<1>7. LeasedObjectStays' /\ CaptureKept'
  BY InvFacts, <1>2, <1>3, <1>4 DEF Places, LeasedObjectStays, CaptureKept, Leasing, Owning
<1>8. RefsResolve' /\ OneRef'
  BY InvFacts, RefFacts, <1>2, <1>5 DEF Places, RefsResolve, Readable, OneRef, One
<1>9. Minted' /\ OneOwner'
  BY InvFacts, <1>2, <1>3, <1>4 DEF Places, Minted, OneOwner, Owning
<1>10. Publication'
  <2>1. ASSUME NEW u \in Threads, th'[u].pc \in Publishing
        PROVE  /\ th'[u] = th[u] /\ obj'[th[u].gen] = obj[th[u].gen]
               /\ th[u].old \notin {None, Bad} => obj'[th[u].old.gen] = obj[th[u].old.gen]
    BY <1>2, <1>3, <1>4, <1>6, <2>1, Zenon DEF Publishing
  <2>2. refs' = refs /\ Publication
    BY InvFacts, <1>2 DEF Places
  <2> QED
    BY <2>1, <2>2, PublicationStays, Zenon
<1> QED
  BY <1>7, <1>8, <1>9, <1>10 DEF Places

LEMMA QuietGoPlaces ==
    ASSUME IInv, NEW t \in Threads, NEW s, Go(t, s), UNCHANGED <<refs, obj, minted>>, s.pc
           \in Leasing => th[t].pc \in Leasing /\ s.gen = th[t].gen, s.pc \in Owning =>
           th[t].pc \in Owning /\ s.gen = th[t].gen, s.pc \notin Publishing
    PROVE  Places'
BY GoPlaces, SameCleans, Zenon

LEMMA PcPlaces ==
    ASSUME IInv, NEW t \in Threads, Abandon(t) \/ Validate(t) \/ Release(t)
    PROVE  Places'
<1>1. PICK p \in {"discard", "hit", "recheck", "releasing"} :
        Go(t, [th[t] EXCEPT !.pc = p]) /\ (p = "hit" => th[t].pc \in Leasing)
                                       /\ (p = "discard" => th[t].pc \in Owning)
  BY Zenon DEF Abandon, Validate, Release, Leasing, Owning
<1>2. [th[t] EXCEPT !.pc = p].pc = p /\ [th[t] EXCEPT !.pc = p].gen = th[t].gen
  BY ThreadFacts DEF ThreadState
<1>3. UNCHANGED <<refs, obj, minted>>
  BY Zenon DEF Abandon, Validate, Release
<1> QED
  BY QuietGoPlaces, <1>1, <1>2, <1>3, ZenonT(30) DEF Leasing, Owning, Publishing

LEMMA CommitPlaces ==
    ASSUME IInv, NEW t \in Threads, NEW k \in Keys, NEW life \in Lifetimes, NEW v \in
           BOOLEAN, Commit(t, k, life, v)
    PROVE  Places'
<1> DEFINE s == [th[t] EXCEPT !.pc = "commit", !.key = k,
                     !.rec = [gen |-> th[t].gen, expires |-> now + life, revalidatable |-> v],
                     !.flag = (life = 0)]
<1>1. Go(t, s) /\ th[t].pc \in Owning /\ UNCHANGED <<refs, obj, minted>>
  BY Zenon DEF Commit, Owning
<1>2. s.pc = "commit" /\ s.gen = th[t].gen
  BY ThreadFacts DEF ThreadState
<1> HIDE DEF s
<1> QED
  BY QuietGoPlaces, <1>1, <1>2, Zenon DEF Leasing, Publishing
=============================================================================
