--------------------------- MODULE DiskCacheProofs ---------------------------
(***************************************************************************)
(* Proofs about DiskCache, for any number of processes, threads, keys and  *)
(* generations: what a reader has leased, what a capture owns and what a   *)
(* reference names stays in place, a lookup that removes a record spares   *)
(* its replacement, and opening recovers.  The invariant and the steps     *)
(* that only remove are in DiskCacheInvariant; here are commits, lookups   *)
(* and the theorems.                                                       *)
(***************************************************************************)
EXTENDS DiskCacheInvariant

(* What a commit removes before it is admitted.                            *)
LEMMA CommitAdmitCleans ==
    ASSUME IInv, NEW t \in Threads, CommitAdmit(t)
    PROVE  Cleaned(refs, obj, refs', obj')
<1> DEFINE h == H(t)
           k == th[t].key
           size == SizeOf[th[t].gen]
           R1 == Without(refs, Invalid(refs, obj))
           O1 == Unlink(h, obj, Orphans(R1, obj))
           R2 == Without(R1, Expired(R1))
           O2 == Unlink(h, O1, GensOf(R1, Expired(R1)))
<1>1. CASE TooLate(t)
  BY <1>1, SameCleans, Zenon DEF CommitAdmit
<1>2. CASE ~TooLate(t)
  <2>1. PICK V \in Evictions(h, R2, O2, size, k) :
          refs' = Without(R2, V) /\ obj' = Unlink(h, O2, GensOf(R2, V))
    BY <1>2, Zenon DEF CommitAdmit
  <2>2. V \subseteq Readable(R2)
    BY <2>1, Zenon DEF Evictions
  <2>3. R1 \in [Keys -> Refs] /\ One(R1) /\ Cleaned(refs, obj, R1, obj)
    BY InvFacts, WithoutType, WithoutOne, WithoutCleans, Zenon DEF TypeOK, OneRef, Refs
  <2>4. Expired(R1) \subseteq Readable(R1)
    BY Zenon DEF Expired
  <2> HIDE DEF R1, h
  <2>5. Cleaned(R1, obj, R1, O1)
    BY OrphansCleans, Zenon
  <2> HIDE DEF O1
  <2>6. R2 \in [Keys -> Refs] /\ One(R2) /\ Cleaned(R1, O1, R2, O2)
    BY <2>3, <2>4, WithoutType, WithoutOne, RemoveCleans, Zenon
  <2> HIDE DEF R2, O2
  <2>7. Cleaned(R2, O2, refs', obj')
    BY <2>1, <2>2, <2>6, RemoveCleans, Zenon
  <2>8. Cleaned(refs, obj, R1, O1)
    BY <2>3, <2>5, CleanedTransitive, Zenon
  <2>9. Cleaned(refs, obj, R2, O2)
    BY <2>6, <2>8, CleanedTransitive, Zenon
  <2> QED
    BY <2>7, <2>9, CleanedTransitive, Zenon
<1> QED
  BY <1>1, <1>2

LEMMA CommitAdmitPlaces ==
    ASSUME IInv, NEW t \in Threads, CommitAdmit(t)
    PROVE  Places'
<1>1. Cleaned(refs, obj, refs', obj')
  BY CommitAdmitCleans
<1>2. PICK p \in {"discard", "admitted"} : Go(t, [th[t] EXCEPT !.pc = p])
  BY Zenon DEF CommitAdmit
<1>3. [th[t] EXCEPT !.pc = p].pc = p /\ [th[t] EXCEPT !.pc = p].gen = th[t].gen
  BY ThreadFacts DEF ThreadState
<1>4. NoPublisher /\ th[t].pc \in Owning /\ UNCHANGED minted
  BY InvFacts, LockedAlone, Zenon DEF CommitAdmit, Owning
<1> QED
  BY GoPlaces, <1>1, <1>2, <1>3, <1>4, ZenonT(30) DEF NoPublisher, Leasing, Publishing

LEMMA LookupReadPlaces ==
    ASSUME IInv, NEW t \in Threads, NEW k \in Keys, NEW b \in BOOLEAN, LookupRead(t, k, b)
    PROVE  Places'
<1> DEFINE st(pc) == [Idle EXCEPT !.pc = pc, !.key = k, !.rec = refs[k], !.flag = b]
<1>1. /\ st("evict").pc = "evict"
      /\ [st("reading") EXCEPT !.gen = refs[k].gen].pc = "reading"
  BY DEF Idle
<1>2. \/ Go(t, st("evict"))
      \/ Go(t, [st("reading") EXCEPT !.gen = refs[k].gen])
  BY Zenon DEF LookupRead
<1> HIDE DEF st
<1>3. UNCHANGED <<refs, obj, minted>>
  BY DEF LookupRead
<1> QED
  BY QuietGoPlaces, <1>1, <1>2, <1>3, ZenonT(30) DEF Leasing, Owning, Publishing

LEMMA ReleasedPlaces ==
    ASSUME IInv, NEW t \in Threads, Released(t)
    PROVE  Places'
BY QuietGoPlaces, IdleFacts, Zenon DEF Released

LEMMA EvictPlaces ==
    ASSUME IInv, NEW t \in Threads, LookupEvict(t) \/ Recheck(t)
    PROVE  Places'
<1>1. th[t].key \in Keys /\ th[t].rec # None
  BY ThreadFacts, Zenon DEF LookupEvict, Recheck, ProgramOK
<1>2. Cleaned(refs, obj, refs', obj')
  BY InvFacts, <1>1, PurgeIfCurrentCleans, Zenon DEF LookupEvict, Recheck
<1>3. NoPublisher
  BY InvFacts, LockedAlone, Zenon DEF LookupEvict, Recheck
<1>4. Go(t, Idle) /\ UNCHANGED minted
  BY DEF LookupEvict, Recheck
<1> QED
  BY GoPlaces, IdleFacts, <1>2, <1>3, <1>4, Zenon DEF NoPublisher

LEMMA RemoveHitPlaces ==
    ASSUME IInv, NEW t \in Threads, RemoveHit(t)
    PROVE  Places'
<1>1. th[t].key \in Keys /\ th[t].rec # None
  BY ThreadFacts, Zenon DEF RemoveHit, ProgramOK, Leasing
<1> QED
  BY StillPlaces, InvFacts, <1>1, PurgeIfCurrentCleans, LockedAlone, Zenon DEF RemoveHit

LEMMA LookupLeasePlaces ==
    ASSUME IInv, NEW t \in Threads, LookupLease(t)
    PROVE  Places'
<1>1. CASE Go(t, [th[t] EXCEPT !.pc = "evict", !.gen = None])
  <2>1. [th[t] EXCEPT !.pc = "evict", !.gen = None].pc = "evict"
    BY ThreadFacts DEF ThreadState
  <2> QED
    BY QuietGoPlaces, <1>1, <2>1, ZenonT(30) DEF LookupLease, Leasing, Owning, Publishing
<1>2. CASE obj[th[t].gen].loc = "object" /\ Go(t, [th[t] EXCEPT !.pc = "validate"])
  <2>1. /\ th'[t].pc = "validate" /\ th'[t].gen = th[t].gen
        /\ \A u \in Threads \ {t} : th'[u] = th[u]
    BY InvFacts, ThreadFacts, <1>2 DEF Go, TypeOK, ThreadState
  <2>2. UNCHANGED <<refs, obj, minted>>
    BY Zenon DEF LookupLease
  <2>3. LeasedObjectStays'
    BY InvFacts, <1>2, <2>1, <2>2, Zenon DEF Places, LeasedObjectStays
  <2>4. CaptureKept' /\ OneOwner'
    BY InvFacts, <2>1, <2>2 DEF Places, CaptureKept, OneOwner, Owning
  <2>5. RefsResolve' /\ OneRef' /\ Minted'
    BY InvFacts, <2>2, Zenon DEF Places, RefsResolve, OneRef, One, Minted, Readable
  <2>6. Publication'
    BY InvFacts, <2>1, <2>2 DEF Places, Publication, Publishing, Readable
  <2> QED
    BY <2>3, <2>4, <2>5, <2>6 DEF Places
<1> QED
  BY <1>1, <1>2, Zenon DEF LookupLease

LEMMA DiscardPlaces ==
    ASSUME IInv, NEW t \in Threads, th[t].pc = "admitted", Go(t, [th[t] EXCEPT !.pc =
           "discard"]), UNCHANGED <<refs, obj, minted>>
    PROVE  Places'
<1>1. /\ [th[t] EXCEPT !.pc = "discard"].pc = "discard"
      /\ [th[t] EXCEPT !.pc = "discard"].gen = th[t].gen
  BY ThreadFacts DEF ThreadState
<1> QED
  BY QuietGoPlaces, <1>1, ZenonT(30) DEF Leasing, Owning, Publishing

LEMMA CommitRenamePlaces ==
    ASSUME IInv, NEW t \in Threads, CommitRename(t)
    PROVE  Places'
<1> DEFINE g == th[t].gen
           k == th[t].key
<1>1. CASE TooLate(t)
  BY DiscardPlaces, <1>1, Zenon DEF CommitRename
<1>2. CASE ~TooLate(t)
  <2>1. th[t].pc = "admitted" /\ g \in Gens /\ k \in Keys /\ obj[g].loc = "temp"
    BY InvFacts, ThreadFacts, Zenon DEF CommitRename, ProgramOK, Owning, Places, CaptureKept
  <2> DEFINE d == [obj[g] EXCEPT !.loc = "object", !.born = 0]
             s == [th[t] EXCEPT !.pc = "renamed", !.old = refs[k]]
  <2>a. obj' = [obj EXCEPT ![g] = d] /\ Go(t, s) /\ UNCHANGED <<refs, minted>>
    BY <1>2, Zenon DEF CommitRename
  <2>b. d.loc = "object"
    BY InvFacts, <2>1 DEF TypeOK, Directory
  <2>c. s.pc = "renamed" /\ s.gen = g /\ s.key = k /\ s.old = refs[k]
    BY ThreadFacts DEF ThreadState
  <2> HIDE DEF d, s
  <2>2. /\ obj'[g].loc = "object" /\ \A f \in Gens \ {g} : obj'[f] = obj[f]
        /\ UNCHANGED <<refs, minted>>
    BY InvFacts, <2>1, <2>a, <2>b, Zenon DEF TypeOK
  <2>3. /\ th'[t].pc = "renamed" /\ th'[t].gen = g /\ th'[t].key = k /\ th'[t].old = refs[k]
        /\ \A u \in Threads \ {t} : th'[u] = th[u]
    BY InvFacts, <2>a, <2>c, Zenon DEF Go, TypeOK
  <2>4. \A j \in Readable(refs) : obj[refs[j].gen].loc = "object" /\ refs[j].gen \in Gens \ {g}
    BY InvFacts, RefFacts, <2>1, Zenon DEF Places, RefsResolve
  <2>5. \A u \in Threads \ {t} : th[u].pc \notin Publishing
    BY InvFacts, <2>1, Excluded, Zenon
  <2> HIDE DEF g, k
  <2>6. \A f \in Gens : obj[f].loc = "object" => obj'[f].loc = "object"
    BY <2>2
  <2>7. LeasedObjectStays'
    BY InvFacts, ThreadFacts, <2>3, <2>6 DEF Places, LeasedObjectStays, ProgramOK, Leasing
  <2>8. CaptureKept'
    <3>1. ASSUME NEW u \in Threads, th'[u].pc \in Owning
          PROVE  u # t /\ th[u].pc \in Owning /\ th[u].gen \in Gens \ {g}
      BY InvFacts, ThreadFacts, <2>1, <2>3, <3>1 DEF Places, OneOwner, ProgramOK, Owning, g
    <3> QED
      BY InvFacts, <2>2, <2>3, <3>1 DEF Places, CaptureKept, Owning
  <2>9. RefsResolve' /\ OneRef'
    BY InvFacts, <2>2, <2>4, Zenon DEF Places, RefsResolve, OneRef, One, Readable
  <2>10. Minted' /\ OneOwner'
    BY InvFacts, <2>1, <2>2, <2>3 DEF Places, Minted, OneOwner, Owning
  <2>11. Publication'
    <3>1. ASSUME NEW u \in Threads, th'[u].pc \in Publishing PROVE u = t
      BY <2>3, <2>5, <3>1
    <3>2. refs[k] \notin {None, Bad} => k \in Readable(refs)
      BY <2>1, Zenon DEF Readable, k
    <3>3. refs[k] \notin {None, Bad} =>
            /\ obj'[refs[k].gen].loc = "object"
            /\ refs[k].gen # g
            /\ \A j \in Readable(refs) : j # k => refs[j].gen # refs[k].gen
      BY InvFacts, <2>2, <2>4, <3>2, Zenon DEF OneRef, One
    <3>4. Readable(refs') = Readable(refs) /\ refs' = refs
      BY <2>2
    <3> QED
      BY <2>2, <2>3, <2>4, <3>1, <3>3, <3>4 DEF Publication
  <2> QED
    BY <2>7, <2>8, <2>9, <2>10, <2>11 DEF Places
<1> QED
  BY <1>1, <1>2

LEMMA CommitPublishPlaces ==
    ASSUME IInv, NEW t \in Threads, CommitPublish(t)
    PROVE  Places'
<1> DEFINE g == th[t].gen
           k == th[t].key
           r == th[t].rec
<1>1. /\ th[t].pc = "renamed" /\ k \in Keys /\ r.gen = g /\ g \in Gens
      /\ obj[g].loc = "object" /\ \A j \in Readable(refs) : j # k => refs[j].gen # g
      /\ th[t].old \notin {None, Bad} =>
           /\ obj[th[t].old.gen].loc = "object"
           /\ th[t].old.gen # g
           /\ \A j \in Readable(refs) : j # k => refs[j].gen # th[t].old.gen
  BY InvFacts, ThreadFacts, Zenon DEF CommitPublish, ProgramOK, Publishing, Places, Publication
<1>2. /\ refs'[k] = r /\ \A j \in Keys \ {k} : refs'[j] = refs[j]
      /\ UNCHANGED <<obj, minted>>
  BY InvFacts, <1>1, Zenon DEF CommitPublish, WriteRef, TypeOK
<1>3. /\ th'[t].pc = "published" /\ th'[t].gen = g /\ th'[t].key = k /\ th'[t].rec = r
      /\ th'[t].old = th[t].old
      /\ \A u \in Threads \ {t} : th'[u] = th[u]
  BY InvFacts, ThreadFacts DEF CommitPublish, Go, TypeOK, ThreadState
<1>4. \A u \in Threads \ {t} : th[u].pc \notin Publishing
  BY InvFacts, <1>1, Excluded, Zenon DEF Publishing
<1> HIDE DEF g, k, r
<1>5. \A j \in Readable(refs') : j # k => j \in Readable(refs) /\ refs'[j] = refs[j]
  BY <1>2 DEF Readable
<1>6. LeasedObjectStays' /\ CaptureKept'
  BY InvFacts, <1>2, <1>3 DEF Places, LeasedObjectStays, CaptureKept
<1>7. RefsResolve'
  <2> SUFFICES ASSUME NEW j \in Readable(refs') PROVE obj'[refs'[j].gen].loc = "object"
    BY DEF RefsResolve, Readable
  <2> QED
    BY InvFacts, <1>1, <1>2, <1>5 DEF Places, RefsResolve
<1>8. OneRef'
  <2> SUFFICES ASSUME NEW i \in Readable(refs'), NEW j \in Readable(refs'),
                      refs'[i].gen = refs'[j].gen
               PROVE  i = j
    BY DEF OneRef, One, Readable
  <2> QED
    BY InvFacts, <1>1, <1>2, <1>5 DEF OneRef, One
<1>9. Minted' /\ OneOwner'
  BY InvFacts, <1>2, <1>3 DEF Places, Minted, OneOwner, Owning
<1>10. Publication'
  <2> SUFFICES ASSUME NEW u \in Threads, th'[u].pc \in Publishing
               PROVE  /\ u = t
                      /\ \A j \in Readable(refs') : j # k => refs'[j].gen # g
                      /\ th[t].old \notin {None, Bad} =>
                           \A j \in Readable(refs') : j # k => refs'[j].gen # th[t].old.gen
    BY <1>1, <1>2, <1>3 DEF Publication, Readable
  <2> QED
    BY <1>1, <1>3, <1>4, <1>5
<1> QED
  BY <1>6, <1>7, <1>8, <1>9, <1>10 DEF Places

LEMMA RollbackPlaces ==
    ASSUME IInv, NEW t \in Threads, th[t].pc \in Publishing, Rollback(t), Go(t, Idle),
           UNCHANGED minted
    PROVE  Places'
<1> DEFINE g == th[t].gen
           k == th[t].key
           p == th[t].old
<1>1. g \in Gens /\ k \in Keys
  BY ThreadFacts, Zenon DEF ProgramOK
<1>2. /\ refs[k] \in {p, th[t].rec}
      /\ \A j \in Readable(refs) : j # k => refs[j].gen # g
      /\ p \notin {None, Bad} =>
           /\ obj[p.gen].loc = "object"
           /\ p.gen # g
           /\ \A j \in Readable(refs) : j # k => refs[j].gen # p.gen
  BY InvFacts, Zenon DEF Places, Publication
<1>3. refs'[k] = p /\ \A j \in Keys \ {k} : refs'[j] = refs[j]
  BY InvFacts, <1>1, <1>2, Zenon DEF Rollback, RolledBack, TypeOK
<1>4. /\ \A f \in Gens \ {g} : obj'[f] = obj[f]
      /\ \/ obj'[g] = obj[g]
         \/ obj'[g].loc = "absent" /\ obj[g].loc = "object" /\ ~LeaseLock(g)
  BY <1>1, Zenon DEF Rollback, Unlink, Retained, Absent
<1>5. th'[t] = Idle /\ \A u \in Threads \ {t} : th'[u] = th[u] /\ th[u].pc \notin Publishing
  BY InvFacts, Excluded DEF Go, TypeOK
<1>6. p \in Refs /\ (p \notin {None, Bad} => p.gen \in Gens)
  BY ThreadFacts, Zenon DEF ThreadState, Refs, RefRecord
<1> HIDE DEF g, k, p
<1>7. \A j \in Readable(refs') : j # k => j \in Readable(refs) /\ refs'[j] = refs[j]
  BY <1>3, Zenon DEF Readable
<1>8. k \in Readable(refs') => p \notin {None, Bad}
  BY <1>3 DEF Readable
<1>9. LeasedObjectStays'
  <2> SUFFICES ASSUME NEW u \in Threads, th'[u].pc \in Leasing
               PROVE  obj'[th'[u].gen].loc = "object"
    BY Zenon DEF LeasedObjectStays, Leasing
  <2>1. u # t /\ th'[u] = th[u] /\ th[u].gen \in Gens
    BY ThreadFacts, IdleFacts, <1>5, Zenon DEF ProgramOK
  <2>2. obj[th[u].gen].loc = "object" /\ LeaseLock(th[u].gen)
    BY InvFacts, <2>1, Zenon DEF Places, LeasedObjectStays, LeaseLock, Leasing
  <2> QED
    BY <1>4, <2>1, <2>2, Zenon
<1>10. CaptureKept'
  <2> SUFFICES ASSUME NEW u \in Threads, th'[u].pc \in Owning
               PROVE  obj'[th'[u].gen].loc = "temp"
    BY Zenon DEF CaptureKept, Owning
  <2>1. u # t /\ th'[u] = th[u] /\ th[u].gen \in Gens
    BY ThreadFacts, IdleFacts, <1>5, Zenon DEF ProgramOK
  <2>2. obj[th[u].gen].loc = "temp"
    BY InvFacts, <2>1, Zenon DEF Places, CaptureKept, Owning
  <2> QED
    BY <1>4, <2>1, <2>2, Zenon
<1>11. RefsResolve'
  <2> SUFFICES ASSUME NEW j \in Readable(refs') PROVE obj'[refs'[j].gen].loc = "object"
    BY DEF RefsResolve, Readable
  <2>1. CASE j = k
    BY <1>2, <1>3, <1>4, <1>6, <1>8, <2>1, Zenon
  <2>2. CASE j # k
    BY InvFacts, RefFacts, <1>2, <1>4, <1>7, <2>2 DEF Places, RefsResolve
  <2> QED
    BY <2>1, <2>2, Zenon
<1>12. OneRef'
  <2> SUFFICES ASSUME NEW i \in Readable(refs'), NEW j \in Readable(refs'),
                      refs'[i].gen = refs'[j].gen
               PROVE  i = j
    BY DEF OneRef, One, Readable
  <2> QED
    BY InvFacts, <1>2, <1>3, <1>7, <1>8 DEF OneRef, One
<1>13. Minted'
  BY InvFacts, <1>4, SMTT(20) DEF Places, Minted
<1>14. OneOwner' /\ Publication'
  BY InvFacts, IdleFacts, <1>5, SMTT(20) DEF Places, OneOwner, Publication
<1> QED
  BY <1>9, <1>10, <1>11, <1>12, <1>13, <1>14 DEF Places

LEMMA CommitFinishPlaces ==
    ASSUME IInv, NEW t \in Threads, CommitFinish(t)
    PROVE  Places'
<1>1. th[t].pc = "published" /\ Go(t, Idle) /\ UNCHANGED minted
  BY Zenon DEF CommitFinish
<1>2. CASE TooLate(t)
  BY RollbackPlaces, <1>1, <1>2, Zenon DEF CommitFinish, Publishing
<1>3. CASE ~TooLate(t)
  <2>1. obj' = Unlink(H(t), obj, Replaced(t)) /\ refs' = refs
    BY <1>3 DEF CommitFinish
  <2>2. \A j \in Readable(refs) : refs[j].gen \notin Replaced(t)
    <3>1. th[t].pc \in Publishing /\ th[t].pc # "renamed"
      BY <1>1 DEF Publishing
    <3>2. /\ refs[th[t].key] = th[t].rec
          /\ th[t].old \notin {None, Bad} =>
               /\ th[t].old.gen # th[t].gen
               /\ \A j \in Readable(refs) : j # th[t].key => refs[j].gen # th[t].old.gen
      BY InvFacts, <3>1, Zenon DEF Places, Publication
    <3>3. th[t].rec.gen = th[t].gen
      BY ThreadFacts, <3>1, Zenon DEF ProgramOK
    <3> QED
      BY <3>2, <3>3, Zenon DEF Replaced
  <2>3. Cleaned(refs, obj, refs', obj')
    BY <2>1, <2>2, UnlinkCleans
  <2>4. \A u \in Threads \ {t} : th[u].pc \notin Publishing
    BY InvFacts, <1>1, Excluded, Zenon DEF Publishing
  <2> QED
    BY GoPlaces, IdleFacts, <1>1, <2>3, <2>4, Zenon
<1> QED
  BY <1>2, <1>3

LEMMA CommitErrorPlaces ==
    ASSUME IInv, NEW t \in Threads, CommitError(t)
    PROVE  Places'
<1>1. CASE th[t].pc = "admitted"
  BY DiscardPlaces, <1>1 DEF CommitError
<1>2. CASE th[t].pc \in Publishing
  BY RollbackPlaces, <1>2, Zenon DEF CommitError, Publishing
<1> QED
  BY <1>1, <1>2 DEF CommitError, Publishing

LEMMA RevalidatePlaces ==
    ASSUME IInv, NEW t \in Threads, NEW life \in Lifetimes, NEW v \in BOOLEAN, NEW late \in
           BOOLEAN, Revalidate(t, life, v, late)
    PROVE  Places'
<1> DEFINE k == th[t].key
           r == [th[t].rec EXCEPT !.expires = now + life, !.revalidatable = v]
<1>1. /\ NoPublisher /\ k \in Keys /\ refs[k] = th[t].rec
      /\ k \in Readable(refs) /\ UNCHANGED <<minted, th>>
  BY InvFacts, ThreadFacts, LockedAlone, Zenon DEF Revalidate, ProgramOK, Leasing, Readable
<1>2. CASE late
  <2>1. Purge(H(t), {k})
    BY <1>2, Zenon DEF Revalidate
  <2>2. {k} \subseteq Readable(refs)
    BY <1>1, Zenon
  <2>3. Cleaned(refs, obj, refs', obj')
    BY InvFacts, <2>1, <2>2, PurgeCleans, Zenon
  <2> QED
    BY StillPlaces, <1>1, <2>3, Zenon
<1>3. CASE ~late
  <2>1. r.gen = refs[k].gen
    BY RefFacts, <1>1 DEF RefRecord
  <2>2. /\ refs'[k] = r /\ (\A j \in Keys \ {k} : refs'[j] = refs[j])
        /\ UNCHANGED <<obj, minted, th>>
    BY InvFacts, <1>1, <1>3, SMTT(20) DEF Revalidate, WriteRef, TypeOK
  <2> HIDE DEF k, r
  <2>3. \A j \in Readable(refs') : j \in Readable(refs) /\ refs'[j].gen = refs[j].gen
    BY <1>1, <2>1, <2>2, SMTT(20) DEF Readable
  <2>4. RefsResolve'
    BY InvFacts, <2>2, <2>3, Zenon DEF Places, RefsResolve, Readable
  <2>5. OneRef'
    BY InvFacts, <2>3, SMTT(20) DEF OneRef, One, Readable
  <2> QED
    BY InvFacts, <1>1, <2>2, <2>4, <2>5 DEF Places, LeasedObjectStays, CaptureKept, Minted,
                                   OneOwner, Publication, NoPublisher
<1> QED
  BY <1>2, <1>3

LEMMA DamagePlaces ==
    ASSUME IInv, Damage
    PROVE  Places'
<1>1. NoPublisher /\ UNCHANGED <<minted, th>>
  BY InvFacts, LockedAlone, Zenon DEF Damage
<1>2. /\ \A g \in Gens : obj'[g].loc = obj[g].loc
      /\ \A j \in Keys : refs'[j] = refs[j] \/ refs'[j] = Bad
  <2>1. ASSUME NEW k \in Readable(refs), refs' = [refs EXCEPT ![k] = Bad], UNCHANGED obj
        PROVE  <1>2!:
    BY <2>1, InvFacts, Zenon DEF TypeOK, Readable
  <2>2. ASSUME NEW g \in Placed(obj), NEW s, obj' = [obj EXCEPT ![g].state = s],
               UNCHANGED refs
        PROVE  <1>2!:
    BY <2>2, InvFacts DEF TypeOK, Directory, Placed
  <2> QED
    BY <2>1, <2>2, Zenon DEF Damage
<1>3. \A j \in Readable(refs') : j \in Readable(refs) /\ refs'[j] = refs[j]
  BY <1>2 DEF Readable
<1>4. RefsResolve'
  BY InvFacts, RefFacts, <1>2, <1>3 DEF Places, RefsResolve, Readable
<1>5. OneRef'
  BY InvFacts, <1>3 DEF OneRef, One, Readable
<1>6. LeasedObjectStays' /\ CaptureKept'
  BY InvFacts, ThreadFacts, <1>1, <1>2 DEF Places, LeasedObjectStays, CaptureKept, ProgramOK, Owning, Leasing
<1> QED
  BY InvFacts, <1>1, <1>2, <1>4, <1>5, <1>6 DEF Places, Minted, OneOwner, Publication, NoPublisher

LEMMA ClockPlaces ==
    ASSUME IInv, Tick \/ UNCHANGED vars
    PROVE  Places'
<1>1. UNCHANGED <<refs, obj, minted, th>>
  BY DEF Tick, vars
<1> QED
  BY InvFacts, <1>1, SameCleans, QuietStep, Zenon

LEMMA PlacesStep == IInv /\ [Next]_vars => Places'
BY Zenon, OpenPlaces, CrashPlaces, ReapPlaces, FlushPlaces, FlushAllPlaces, RemovePlaces,
  BeginCapturePlaces, RemoveTempPlaces, PcPlaces, CommitPlaces, CommitAdmitPlaces,
  LookupReadPlaces, ReleasedPlaces, EvictPlaces, RemoveHitPlaces, LookupLeasePlaces,
  CommitRenamePlaces, CommitPublishPlaces, CommitFinishPlaces, CommitErrorPlaces,
  RevalidatePlaces, DamagePlaces, ClockPlaces DEF Next

-----------------------------------------------------------------------------
(* The theorems.                                                           *)

LEMMA InvInit == Init => IInv
<1> SUFFICES ASSUME Init PROVE Programs /\ Locks
  BY TypeInit, PlacesInit DEF IInv
<1>1. \A t \in Threads : th[t] = Idle
  BY DEF Init
<1>2. Programs
  BY <1>1, IdleProgram DEF Programs
<1>3. Locks
  BY <1>1 DEF Locks, Idle, Publishing
<1> QED
  BY <1>2, <1>3

LEMMA InvStep == IInv /\ [Next]_vars => IInv'
BY TypeStep, ProgramsStep, LocksStep, PlacesStep DEF IInv

LEMMA InvHolds == Spec => []IInv
BY InvInit, InvStep, PTL DEF Spec

(* Every variable keeps its type, whatever the processes do to the         *)
(* directory they share.                                                   *)
THEOREM DiskTypeCorrect == Spec => []TypeOK
<1>1. IInv => TypeOK
  BY DEF IInv
<1> QED
  BY <1>1, InvHolds, PTL

(* An object a reader holds a lease on is not removed: not by a flush, an  *)
(* eviction, a replacement, a rolled-back commit, the sweep of a process   *)
(* that opens the cache, or a crash of another process.                    *)
THEOREM DiskLeases == Spec => []LeasedObjectStays
<1>1. IInv => LeasedObjectStays
  BY DEF IInv, Places
<1> QED
  BY <1>1, InvHolds, PTL

(* Every readable reference names an object that is in place, also between *)
(* the steps of a commit and at every point at which a process may crash.  *)
THEOREM DiskRefs == Spec => []RefsResolve
<1>1. IInv => RefsResolve
  BY DEF IInv, Places
<1> QED
  BY <1>1, InvHolds, PTL

(* The directory of a running capture stays under tmp/ until its owner     *)
(* renames or drops it: no sweep of any process takes it for an orphan.    *)
THEOREM DiskCaptures == Spec => []CaptureKept
<1>1. IInv => CaptureKept
  BY DEF IInv, Places
<1> QED
  BY <1>1, InvHolds, PTL

-----------------------------------------------------------------------------
(* A lookup that removes a record.                                         *)

LEMMA PurgeIfCurrentSpares ==
    ASSUME IInv, NEW t \in Threads, th[t].key \in Keys, PurgeIfCurrent(t)
    PROVE  \A k \in Keys : refs'[k] # refs[k] => refs[k] = th[t].rec
BY InvFacts, ZenonT(30) DEF PurgeIfCurrent, Purge, Without, TypeOK

LEMMA SparesStep ==
    ASSUME IInv, [Next]_vars, NEW t \in Threads, th[t].pc \in {"evict", "recheck"},
           th'[t].pc = "idle", NEW k \in Keys, refs'[k] # refs[k]
    PROVE  refs[k] = th[t].rec
<1>1. th[t].key \in Keys
  BY ThreadFacts, SMTT(30) DEF ProgramOK
<1>2. CASE LookupEvict(t) \/ Recheck(t)
  BY <1>1, <1>2, PurgeIfCurrentSpares, SMTT(30) DEF LookupEvict, Recheck
<1>3. CASE \E h \in Handles : Crash(h)
  BY <1>3, Zenon DEF Crash
<1>4. \A u \in Threads : \A s : Go(u, s) => u = t
  BY InvFacts, Zenon DEF Go, TypeOK
<1>5. th' # th
  OBVIOUS
<1>6. CASE UNCHANGED vars
  BY <1>5, <1>6, SMTT(30) DEF vars
<1>7. CASE \E h \in Handles : Open(h)
  BY <1>5, <1>7, Zenon DEF Open
<1>8. CASE Damage \/ Tick
  BY <1>5, <1>8, SMTT(30) DEF Damage, Tick
<1>9. ASSUME NEW u \in Threads, Reap(u) \/ Flush(u) \/ FlushAll(u) \/ RemoveHit(u) \/ (\E j \in Keys : Remove(u, j))
             \/ (\E life \in Lifetimes, v \in BOOLEAN, late \in BOOLEAN : Revalidate(u, life, v, late))
      PROVE  FALSE
  BY <1>5, <1>9, ZenonT(30) DEF Reap, Flush, FlushAll, RemoveHit, Remove, Revalidate
<1>10. ASSUME NEW u \in Threads, (\E g \in Gens : BeginCapture(u, g)) \/ Abandon(u) \/ RemoveTemp(u) \/ CommitAdmit(u)
              \/ (\E j \in Keys, life \in Lifetimes, v \in BOOLEAN : Commit(u, j, life, v))
       PROVE  FALSE
  BY <1>4, <1>10, ZenonT(30) DEF BeginCapture, Abandon, RemoveTemp, Commit, CommitAdmit
<1>11. ASSUME NEW u \in Threads, CommitRename(u) \/ CommitPublish(u) \/ CommitFinish(u) \/ CommitError(u)
       PROVE  FALSE
  BY <1>4, <1>11, SMTT(30) DEF CommitRename, CommitPublish, CommitFinish, CommitError
<1>12. ASSUME NEW u \in Threads, (\E j \in Keys, b \in BOOLEAN : LookupRead(u, j, b)) \/ LookupLease(u) \/ Validate(u)
              \/ Release(u) \/ Released(u)
       PROVE  FALSE
  BY <1>4, <1>12, ZenonT(30) DEF LookupRead, LookupLease, Validate, Release, Released
<1>13. ASSUME NEW u \in Threads, LookupEvict(u) \/ Recheck(u)
       PROVE  LookupEvict(t) \/ Recheck(t)
  BY <1>4, <1>13, Zenon DEF LookupEvict, Recheck
<1> QED
  BY <1>2, <1>3, <1>6, <1>7, <1>8, <1>9, <1>10, <1>11, <1>12, <1>13, ZenonT(30) DEF Next

(* A lookup removes the record it found expired, damaged or mismatched, or *)
(* nothing: what another process published meanwhile stays.                *)
THEOREM DiskLookupSpares == Spec => LookupSparesReplacement
<1>1. IInv /\ [Next]_vars =>
        [\A t \in Threads :
           th[t].pc \in {"evict", "recheck"} /\ th'[t].pc = "idle"
              => \A k \in Keys : refs'[k] # refs[k] => refs[k] = th[t].rec]_vars
  BY SparesStep, SMTT(30)
<1> QED
  BY <1>1, InvHolds, PTL DEF Spec, LookupSparesReplacement

-----------------------------------------------------------------------------
(* Opening.                                                                *)

(* A process that is not running leases nothing.                           *)
LEMMA ClosedRetains ==
    ASSUME IInv, NEW h \in Handles, h \notin up, NEW g
    PROVE  Retained(h, g) <=> LeaseLock(g)
BY InvFacts, DiskAssumption DEF Retained, InLeaseMap, Locks, H

LEMMA OpenLeaves ==
    ASSUME IInv, NEW h \in Handles, Open(h)
    PROVE  LET referenced == {refs'[k].gen : k \in Readable(refs')}
               free == {g \in Placed(obj') : ~LeaseLock(g)}
           IN  /\ free \subseteq referenced
               /\ \A g \in referenced : obj'[g].loc = "object" /\ obj'[g].state # "hollow"
               /\ free # {} => /\ Bytes(Placed(obj')) <= MaxBytes
                               /\ Cardinality(Placed(obj')) <= MaxEntries
<1> DEFINE R1 == Without(refs, Invalid(refs, obj))
           R2 == Without(R1, Expired(R1))
           O1 == DropTemps(Unlink(h, obj, GensOf(R1, Expired(R1))))
           O2 == Unlink(h, O1, Orphans(R2, O1))
<1> DEFINE referenced == {refs'[k].gen : k \in Readable(refs')}
           free == {g \in Placed(obj') : ~LeaseLock(g)}
<1>1. PICK V \in Evictions(h, R2, O2, 0, None) :
        refs' = Without(R2, V) /\ obj' = Unlink(h, O2, GensOf(R2, V))
  BY ZenonT(30) DEF Open, Sweep
<1>2. \A k \in Readable(refs') : /\ refs'[k] = refs[k] /\ k \in Readable(refs)
                                 /\ k \notin Invalid(refs, obj)
  BY <1>1, SMTT(30) DEF Readable, Without
<1> HIDE DEF R1, R2, O1, O2, referenced, free
<1>3. ASSUME NEW g \in free
      PROVE  g \in referenced
  <2>1. g \in Gens /\ Unlink(h, O2, GensOf(R2, V))[g].loc = "object" /\ ~Retained(h, g)
    BY <1>1, <1>3, ClosedRetains, Zenon DEF Placed, Open, free
  <2>2. O2[g].loc = "object" /\ g \notin GensOf(R2, V)
    BY <2>1, Zenon DEF Unlink, Absent
  <2>3. O1[g].loc = "object" /\ g \notin Orphans(R2, O1)
    BY <2>1, <2>2, Zenon DEF Unlink, Absent, O2
  <2>4. g \in GensOf(R2, Readable(R2))
    BY <2>1, <2>3, Zenon DEF Orphans, Placed
  <2>5. PICK k \in Readable(R2) : R2[k].gen = g
    BY <2>4, Zenon DEF GensOf
  <2>6. k \notin V
    BY <2>2, <2>5, Zenon DEF GensOf
  <2>7. k \in Readable(refs') /\ refs'[k] = R2[k]
    BY <1>1, <2>5, <2>6 DEF Readable, Without
  <2> QED
    BY <2>5, <2>7, Zenon DEF referenced
<1>4. ASSUME NEW g \in referenced
      PROVE  obj'[g].loc = "object" /\ obj'[g].state # "hollow"
  <2>1. PICK k \in Readable(refs') : refs'[k].gen = g
    BY <1>4, Zenon DEF referenced
  <2>2. k \in Readable(refs) /\ refs[k].gen = g /\ obj[g].loc = "object" /\ obj[g].state # "hollow"
    BY <1>2, <2>1, Zenon DEF Invalid
  <2>3. Cleaned(refs, obj, refs', obj') /\ g \in Gens
    BY <2>2, InvFacts, SweepCleans, RefFacts, Zenon DEF Open
  <2> QED
    BY <2>1, <2>2, <2>3, Zenon DEF Cleaned
<1>5. ASSUME free # {}
      PROVE  Bytes(Placed(obj')) <= MaxBytes /\ Cardinality(Placed(obj')) <= MaxEntries
  <2>1. V # Readable(R2) \ {None}
    <3>1. referenced # {}
      BY <1>3, <1>5, Zenon
    <3>2. PICK k \in Readable(refs') : TRUE
      BY <3>1, Zenon DEF referenced
    <3>3. k \in Readable(R2) /\ k \notin V /\ k \in Keys
      BY <1>1, <3>2 DEF Readable, Without
    <3> QED
      BY <3>3, DiskAssumption, Zenon
  <2>2. Fits(h, R2, O2, V, 0, None)
    BY <1>1, <2>1, Zenon DEF Evictions
  <2>3. Counted(h, Without(R2, V), Unlink(h, O2, GensOf(R2, V)), None) = Placed(obj')
    BY <1>1, Zenon DEF Counted, Placed
  <2>4. /\ Bytes(Placed(obj')) <= MaxBytes - 0
        /\ Cardinality(Placed(obj')) <= MaxEntries - (IF 0 > 0 THEN 1 ELSE 0)
    BY <2>2, <2>3, Zenon DEF Fits
  <2>5. MaxBytes - 0 = MaxBytes /\ MaxEntries - (IF 0 > 0 THEN 1 ELSE 0) = MaxEntries
    BY DiskAssumption
  <2> QED
    BY <2>4, <2>5, Zenon
<1>6. /\ free \subseteq referenced
      /\ \A g \in referenced : obj'[g].loc = "object" /\ obj'[g].state # "hollow"
      /\ free # {} => /\ Bytes(Placed(obj')) <= MaxBytes
                      /\ Cardinality(Placed(obj')) <= MaxEntries
  BY <1>3, <1>4, <1>5, ZenonT(30)
<1> QED
  BY <1>6, Zenon DEF referenced, free

(* Whatever a crash left behind, opening the directory leaves objects that *)
(* are referenced or leased, references that resolve, and, but for leased  *)
(* objects, contents within the bounds.                                    *)
THEOREM DiskOpenRecovers == Spec => OpenRecovers
<1>1. IInv /\ [Next]_vars =>
        [\A h \in up' \ up :
           LET referenced == {refs'[k].gen : k \in Readable(refs')}
               free == {g \in Placed(obj') : ~LeaseLock(g)}
           IN  /\ free \subseteq referenced
               /\ \A g \in referenced : obj'[g].loc = "object" /\ obj'[g].state # "hollow"
               /\ free # {} => /\ Bytes(Placed(obj')) <= MaxBytes
                               /\ Cardinality(Placed(obj')) <= MaxEntries]_vars
  <2> SUFFICES ASSUME IInv, Next, NEW h \in up' \ up PROVE h \in Handles /\ Open(h)
    BY OpenLeaves, Zenon
  <2>1. ASSUME NEW g \in Handles, Open(g) PROVE g = h
    BY <2>1 DEF Open
  <2>2. ~(up' \subseteq up)
    OBVIOUS
  <2>3. ASSUME (\E g \in Handles : Crash(g)) \/ Damage \/ Tick PROVE up' \subseteq up
    BY <2>3, SMTT(30) DEF Crash, Damage, Tick
  <2>4. ASSUME NEW u \in Threads, Reap(u) \/ Flush(u) \/ FlushAll(u) \/ RemoveHit(u) \/ (\E j \in Keys : Remove(u, j))
               \/ (\E life \in Lifetimes, v \in BOOLEAN, late \in BOOLEAN : Revalidate(u, life, v, late))
        PROVE  up' = up
    BY <2>4, ZenonT(30) DEF Reap, Flush, FlushAll, RemoveHit, Remove, Revalidate
  <2>5. ASSUME NEW u \in Threads, (\E g \in Gens : BeginCapture(u, g)) \/ Abandon(u) \/ RemoveTemp(u) \/ CommitAdmit(u)
               \/ (\E j \in Keys, life \in Lifetimes, v \in BOOLEAN : Commit(u, j, life, v))
        PROVE  up' = up
    BY <2>5, ZenonT(30) DEF BeginCapture, Abandon, RemoveTemp, Commit, CommitAdmit
  <2>6. ASSUME NEW u \in Threads, CommitRename(u) \/ CommitPublish(u) \/ CommitFinish(u) \/ CommitError(u)
        PROVE  up' = up
    BY <2>6, SMTT(30) DEF CommitRename, CommitPublish, CommitFinish, CommitError
  <2>7. ASSUME NEW u \in Threads, (\E j \in Keys, b \in BOOLEAN : LookupRead(u, j, b)) \/ LookupLease(u) \/ Validate(u)
               \/ Release(u) \/ Released(u) \/ LookupEvict(u) \/ Recheck(u)
        PROVE  up' = up
    BY <2>7, ZenonT(30) DEF LookupRead, LookupLease, Validate, Release, Released, LookupEvict, Recheck
  <2>8. \E g \in Handles : Open(g)
    BY <2>2, <2>3, <2>4, <2>5, <2>6, <2>7, SMTT(30) DEF Next
  <2> QED
    BY <2>1, <2>8
<1> QED
  BY <1>1, InvHolds, PTL DEF Spec, OpenRecovers
=============================================================================
