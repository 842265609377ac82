------------------------- MODULE DiskCacheRefinement -------------------------
(***************************************************************************)
(* Proofs about DiskCache, for any number of processes, threads, keys and  *)
(* generations: the directory implements ResultStore.                      *)
(*                                                                         *)
(* Every step of the directory is a Put, a Read or a Drop of the store; a  *)
(* step that readers do not see is a Drop of nothing.                      *)
(***************************************************************************)
EXTENDS DiskCacheProofs

Viewing == {"reading", "validate", "hit"}

Committing == Owning \cup Publishing

Named(r) == IF r \in {None, Bad} THEN None ELSE r.gen

Shown(k) == Named(Current(k))

Spent == {g \in minted : ~InCommit(g)}

View(t) == IF th[t].pc \in Viewing THEN <<th[t].key, th[t].gen>> ELSE None

(* The refinement mapping, spelt out.                                      *)
LEMMA Mapping ==
    /\ Store!vars = <<[k \in Keys |-> Shown(k)], Spent, [t \in Threads |-> View(t)]>>
    /\ Store!Drop <=>
         /\ \E S \in SUBSET Keys : [k \in Keys |-> Shown(k)]' =
               [k \in Keys |-> IF k \in S THEN None ELSE [j \in Keys |-> Shown(j)][k]]
         /\ \E B \in SUBSET Gens : Spent' = Spent \cup B /\ {} \subseteq Spent'
         /\ \E S \in SUBSET Threads : [t \in Threads |-> View(t)]' =
               [t \in Threads |-> IF t \in S THEN None ELSE [u \in Threads |-> View(u)][t]]
BY Zenon DEF Store!vars, Store!Drop, Store!Burning, Store!Closing, Shown, Named, Spent, View, Viewing

-----------------------------------------------------------------------------
(* What a step must do to be a step of the store.                          *)

Fewer == \A k \in Keys : Shown(k)' = Shown(k) \/ Shown(k)' = None

Burns == Spent \subseteq Spent' /\ Spent' \subseteq Gens

Closes == \A t \in Threads : View(t)' = View(t) \/ View(t)' = None

LEMMA Burning ==
    ASSUME Burns
    PROVE  \E B \in SUBSET Gens : Spent' = Spent \cup B
<1>1. Spent' \in SUBSET Gens /\ Spent' = Spent \cup Spent'
  BY DEF Burns
<1> QED
  BY <1>1, Zenon

LEMMA Closing ==
    ASSUME Closes
    PROVE  \E S \in SUBSET Threads : [t \in Threads |-> View(t)]' =
               [t \in Threads |-> IF t \in S THEN None ELSE [u \in Threads |-> View(u)][t]]
<1> DEFINE S == {t \in Threads : View(t)' = None}
<1>1. [t \in Threads |-> View(t)]' =
               [t \in Threads |-> IF t \in S THEN None ELSE [u \in Threads |-> View(u)][t]]
  BY DEF Closes
<1> QED
  BY <1>1, Zenon

LEMMA IsDrop ==
    ASSUME Fewer, Burns, Closes
    PROVE  Store!Drop
<1> DEFINE S == {k \in Keys : Shown(k)' = None}
<1>1. [k \in Keys |-> Shown(k)]' =
               [k \in Keys |-> IF k \in S THEN None ELSE [j \in Keys |-> Shown(j)][k]]
  BY DEF Fewer
<1>2. S \in SUBSET Keys
  OBVIOUS
<1>3. \E T \in SUBSET Keys : [k \in Keys |-> Shown(k)]' =
               [k \in Keys |-> IF k \in T THEN None ELSE [j \in Keys |-> Shown(j)][k]]
  BY <1>1, <1>2, Zenon
<1> QED
  BY <1>3, Burning, Closing, Mapping, Zenon

LEMMA IsPut ==
    ASSUME NEW k \in Keys, NEW g \in Gens, g \notin Spent, g \in Spent', Burns, Closes,
           Shown(k)' = g, \A j \in Keys : j # k => Shown(j)' = Shown(j)
    PROVE  Store!Put(k, g)
<1>1. [j \in Keys |-> Shown(j)]' = [[j \in Keys |-> Shown(j)] EXCEPT ![k] = g]
  BY Zenon
<1>2. \E B \in SUBSET Gens : Spent' = Spent \cup B /\ {g} \subseteq Spent'
  BY Burning, ZenonT(30)
<1> QED
  BY <1>1, <1>2, Closing, Zenon
     DEF Store!Put, Store!Burning, Store!Closing, Shown, Named, Spent, View, Viewing

LEMMA IsRead ==
    ASSUME NEW t \in Threads, NEW k \in Keys, Shown(k) # None, View(t)' = <<k, Shown(k)>>,
           \A u \in Threads : u # t => View(u)' = View(u),
           \A j \in Keys : Shown(j)' = Shown(j), Spent' = Spent
    PROVE  Store!Read(t, k)
<1>1. [u \in Threads |-> View(u)]' = [[u \in Threads |-> View(u)] EXCEPT ![t] = <<k, [j \in Keys |-> Shown(j)][k]>>]
  BY Zenon
<1>2. [j \in Keys |-> Shown(j)]' = [j \in Keys |-> Shown(j)] /\ [j \in Keys |-> Shown(j)][k] # None
  OBVIOUS
<1> QED
  BY <1>1, <1>2, Zenon DEF Store!Read, Shown, Named, Spent, View, Viewing

-----------------------------------------------------------------------------
(* The entries that readers see.                                           *)

Unpublished == \A u \in Threads : th[u].pc # "published"

LEMMA ShownRefs ==
    ASSUME Unpublished
    PROVE  \A k \in Keys : Shown(k) = Named(refs[k])
BY Zenon DEF Unpublished, Shown, Current

LEMMA ShownRefsNext ==
    ASSUME Unpublished'
    PROVE  \A k \in Keys : Shown(k)' = Named(refs'[k])
BY Zenon DEF Unpublished, Shown, Named, Current

LEMMA ShownOld ==
    ASSUME IInv, NEW t \in Threads, th[t].pc = "published"
    PROVE  \A k \in Keys : Shown(k) = Named(IF k = th[t].key THEN th[t].old ELSE refs[k])
<1>1. \A u \in Threads : th[u].pc = "published" => u = t
  BY InvFacts, Excluded DEF Publishing
<1> QED
  BY <1>1, Zenon DEF Shown, Current

(* While no commit is past its rename, removals only hide entries.         *)
LEMMA RemovalsHide ==
    ASSUME NoPublisher, Unpublished', \A k \in Keys : refs'[k] \in {refs[k], None, Bad}
    PROVE  Fewer
<1>1. Unpublished
  BY DEF NoPublisher, Unpublished, Publishing
<1>2. \A k \in Keys : Shown(k) = Named(refs[k]) /\ Shown(k)' = Named(refs'[k])
  BY <1>1, ShownRefs, ShownRefsNext
<1> QED
  BY <1>2 DEF Fewer, Named

(* A step of the threads that leaves the references and the published      *)
(* commit alone.                                                           *)
LEMMA SameEntries ==
    ASSUME refs' = refs, \A u \in Threads : th'[u] = th[u] \/ {th[u].pc, th'[u].pc} \cap {"published"} = {}
    PROVE  \A k \in Keys : Shown(k)' = Shown(k)
<1> SUFFICES ASSUME NEW k \in Keys PROVE Current(k)' = Current(k)
  BY DEF Shown, Named
<1> DEFINE P(u) == th[u].pc = "published" /\ th[u].key = k
<1>1. \A u \in Threads : P(u)' <=> P(u)
  BY Zenon
<1>2. \A u \in Threads : P(u) => th'[u] = th[u]
  BY Zenon
<1>3. CASE \E u \in Threads : P(u)
  <2>1. (CHOOSE u \in Threads : P(u))' = CHOOSE u \in Threads : P(u)
    BY <1>1, ZenonT(30)
  <2>2. (CHOOSE u \in Threads : P(u)) \in Threads /\ P(CHOOSE u \in Threads : P(u))
    BY <1>3, Zenon
  <2> QED
    BY <1>1, <1>2, <1>3, <2>1, <2>2, ZenonT(30) DEF Current
<1>4. CASE ~\E u \in Threads : P(u)
  BY <1>1, <1>4, Zenon DEF Current
<1> QED
  BY <1>3, <1>4

-----------------------------------------------------------------------------
(* The generations that are spent, and the views.                          *)

LEMMA ThreadsBurn ==
    ASSUME TypeOK', minted \subseteq minted',
           \A t \in Threads : th'[t].pc \in Committing =>
              \/ th'[t].gen \notin minted
              \/ th[t].pc \in Committing /\ th'[t].gen = th[t].gen
    PROVE  Burns
BY DEF TypeOK, Burns, Spent, InCommit, Committing, Owning, Publishing

LEMMA ThreadsClose ==
    ASSUME \A t \in Threads : th'[t].pc \in Viewing =>
              th[t].pc \in Viewing /\ th'[t].key = th[t].key /\ th'[t].gen = th[t].gen
    PROVE  Closes
BY Zenon DEF Closes, View

(* One thread moves on, within its commit or its reading, or out of it.    *)
LEMMA GoSteps ==
    ASSUME IInv, IInv', NEW t \in Threads, NEW s, Go(t, s), minted \subseteq minted',
           s.pc \in Committing => s.gen \notin minted \/ (th[t].pc \in Committing /\ s.gen = th[t].gen),
           s.pc \in Viewing => th[t].pc \in Viewing /\ s.key = th[t].key /\ s.gen = th[t].gen
    PROVE  Burns /\ Closes
<1>1. th'[t] = s /\ \A u \in Threads : u # t => th'[u] = th[u]
  BY InvFacts, Zenon DEF Go, TypeOK
<1>2. TypeOK'
  BY DEF IInv
<1>3. Burns
  BY <1>1, <1>2, ThreadsBurn, Zenon
<1>4. Closes
  BY <1>1, ThreadsClose, Zenon
<1> QED
  BY <1>3, <1>4

LEMMA StillSteps ==
    ASSUME IInv, IInv', th' = th, minted \subseteq minted'
    PROVE  Burns /\ Closes
<1>1. TypeOK'
  BY DEF IInv
<1> QED
  BY <1>1, ThreadsBurn, ThreadsClose

-----------------------------------------------------------------------------
(* Steps that hide entries.                                                *)

(* What is removed while nothing is being published, by a thread that goes *)
(* on as before.                                                           *)
LEMMA StillDrop ==
    ASSUME IInv, IInv', NoPublisher, UNCHANGED <<th, minted>>, Cleaned(refs, obj, refs', obj')
    PROVE  Store!Drop
<1>1. Unpublished'
  BY DEF Unpublished, NoPublisher, Publishing
<1>2. Fewer
  BY <1>1, RemovalsHide, Zenon DEF Cleaned
<1> QED
  BY <1>2, StillSteps, IsDrop

LEMMA OpenDrops ==
    ASSUME IInv, IInv', NEW h \in Handles, Open(h)
    PROVE  Store!Drop
BY StillDrop, InvFacts, SweepCleans, LockedAlone, Zenon DEF Open

LEMMA ReapDrops ==
    ASSUME IInv, IInv', NEW t \in Threads, Reap(t)
    PROVE  Store!Drop
BY StillDrop, InvFacts, SweepCleans, LockedAlone, Zenon DEF Reap

LEMMA FlushDrops ==
    ASSUME IInv, IInv', NEW t \in Threads, Flush(t)
    PROVE  Store!Drop
<1>1. PICK k \in Keys, attribute \in {ScopeOf, CatalogOf} :
        Purge(H(t), {j \in Readable(refs) : attribute[j] = attribute[k]})
  BY ZenonT(30) DEF Flush
<1>2. Cleaned(refs, obj, refs', obj')
  BY InvFacts, <1>1, PurgeCleans
<1> QED
  BY StillDrop, InvFacts, <1>2, LockedAlone, Zenon DEF Flush

LEMMA FlushAllDrops ==
    ASSUME IInv, IInv', NEW t \in Threads, FlushAll(t)
    PROVE  Store!Drop
<1>1. NoPublisher /\ Unpublished'
  BY InvFacts, LockedAlone, Zenon DEF FlushAll, Unpublished, NoPublisher, Publishing
<1>2. Fewer
  BY <1>1, RemovalsHide DEF FlushAll
<1> QED
  BY <1>2, StillSteps, IsDrop DEF FlushAll

LEMMA RemoveDrops ==
    ASSUME IInv, IInv', NEW t \in Threads, NEW k \in Keys, Remove(t, k)
    PROVE  Store!Drop
<1>1. {k} \subseteq Readable(refs)
  BY DEF Remove, Readable
<1> QED
  BY StillDrop, InvFacts, <1>1, PurgeCleans, LockedAlone, Zenon DEF Remove

LEMMA RemoveHitDrops ==
    ASSUME IInv, IInv', NEW t \in Threads, RemoveHit(t)
    PROVE  Store!Drop
<1>1. th[t].key \in Keys /\ th[t].rec # None
  BY ThreadFacts, Zenon DEF RemoveHit, ProgramOK, Leasing
<1> QED
  BY StillDrop, InvFacts, <1>1, PurgeIfCurrentCleans, LockedAlone, Zenon DEF RemoveHit

(* A thread moves on, with or without a removal.                           *)
LEMMA GoDrop ==
    ASSUME IInv, IInv', NEW t \in Threads, NEW s, Go(t, s), UNCHANGED minted,
           s.pc \in Committing => th[t].pc \in Committing /\ s.gen = th[t].gen,
           s.pc \in Viewing => th[t].pc \in Viewing /\ s.key = th[t].key /\ s.gen = th[t].gen,
           s.pc # "published",
           \/ NoPublisher /\ Cleaned(refs, obj, refs', obj')
           \/ th[t].pc # "published" /\ refs' = refs
    PROVE  Store!Drop
<1>1. Burns /\ Closes
  BY GoSteps, Zenon
<1>2. th'[t] = s /\ \A u \in Threads : u # t => th'[u] = th[u]
  BY InvFacts, Zenon DEF Go, TypeOK
<1>3. CASE NoPublisher /\ Cleaned(refs, obj, refs', obj')
  <2>1. Unpublished'
    BY <1>2, <1>3, Zenon DEF Unpublished, NoPublisher, Publishing
  <2> QED
    BY <1>1, <1>3, <2>1, RemovalsHide, IsDrop, Zenon DEF Cleaned
<1>4. CASE th[t].pc # "published" /\ refs' = refs
  <2>1. \A u \in Threads : th'[u] = th[u] \/ {th[u].pc, th'[u].pc} \cap {"published"} = {}
    BY <1>2, <1>4, Zenon
  <2>2. \A k \in Keys : Shown(k)' = Shown(k)
    BY <1>4, <2>1, SameEntries, Zenon
  <2> QED
    BY <1>1, <2>2, IsDrop, Zenon DEF Fewer
<1> QED
  BY <1>3, <1>4, Zenon

LEMMA IdleDrop ==
    ASSUME IInv, IInv', NEW t \in Threads, Go(t, Idle), UNCHANGED minted,
           \/ NoPublisher /\ Cleaned(refs, obj, refs', obj')
           \/ th[t].pc # "published" /\ refs' = refs
    PROVE  Store!Drop
<1>1. Idle.pc \notin Committing \cup Viewing \cup {"published"}
  BY Zenon DEF Idle, Committing, Viewing, Owning, Publishing
<1> QED
  BY <1>1, GoDrop, Zenon

LEMMA EvictDrops ==
    ASSUME IInv, IInv', NEW t \in Threads, LookupEvict(t) \/ Recheck(t)
    PROVE  Store!Drop
<1>1. th[t].key \in Keys /\ th[t].rec # None
  BY ThreadFacts, Zenon DEF LookupEvict, Recheck, ProgramOK
<1>2. NoPublisher
  BY InvFacts, LockedAlone, Zenon DEF LookupEvict, Recheck
<1>3. Cleaned(refs, obj, refs', obj')
  BY InvFacts, <1>1, PurgeIfCurrentCleans, Zenon DEF LookupEvict, Recheck
<1> QED
  BY <1>2, <1>3, IdleDrop, Zenon DEF LookupEvict, Recheck

LEMMA IdlingDrops ==
    ASSUME IInv, IInv', NEW t \in Threads, RemoveTemp(t) \/ Released(t)
    PROVE  Store!Drop
BY IdleDrop, Zenon DEF RemoveTemp, Released

(* A thread changes its pc, within its commit or out of its reading.       *)
LEMMA PcDrop ==
    ASSUME IInv, IInv', NEW t \in Threads, NEW p, Go(t, [th[t] EXCEPT !.pc = p]), UNCHANGED minted,
           p \in Committing => th[t].pc \in Committing,
           p \in Viewing => th[t].pc \in Viewing,
           p # "published",
           \/ NoPublisher /\ Cleaned(refs, obj, refs', obj')
           \/ th[t].pc # "published" /\ refs' = refs
    PROVE  Store!Drop
<1> DEFINE s == [th[t] EXCEPT !.pc = p]
<1>1. s.pc = p /\ s.gen = th[t].gen /\ s.key = th[t].key
  BY ThreadFacts DEF ThreadState
<1> HIDE DEF s
<1> QED
  BY <1>1, GoDrop, ZenonT(30) DEF s

LEMMA PcDrops ==
    ASSUME IInv, IInv', NEW t \in Threads, Abandon(t) \/ Validate(t) \/ Release(t)
    PROVE  Store!Drop
<1>1. PICK p \in {"discard", "hit", "recheck", "releasing"} :
        /\ Go(t, [th[t] EXCEPT !.pc = p])
        /\ p = "discard" => th[t].pc = "capturing"
        /\ p = "hit" => th[t].pc = "validate"
  BY Zenon DEF Abandon, Validate, Release
<1>2. UNCHANGED <<refs, minted>> /\ th[t].pc # "published"
  BY Zenon DEF Abandon, Validate, Release
<1>3. /\ p \in Committing => th[t].pc \in Committing
      /\ p \in Viewing => th[t].pc \in Viewing
      /\ p # "published"
  BY <1>1 DEF Committing, Viewing, Owning, Publishing
<1> QED
  BY <1>1, <1>2, <1>3, PcDrop

LEMMA CommitAdmitDrops ==
    ASSUME IInv, IInv', NEW t \in Threads, CommitAdmit(t)
    PROVE  Store!Drop
<1>1. Cleaned(refs, obj, refs', obj')
  BY CommitAdmitCleans
<1>2. PICK p \in {"discard", "admitted"} : Go(t, [th[t] EXCEPT !.pc = p])
  BY Zenon DEF CommitAdmit
<1>3. NoPublisher /\ th[t].pc \in Committing /\ UNCHANGED minted
  BY InvFacts, LockedAlone, Zenon DEF CommitAdmit, Committing, Owning
<1>4. p \notin Viewing /\ p # "published"
  BY DEF Viewing
<1> QED
  BY <1>1, <1>2, <1>3, <1>4, PcDrop

LEMMA CommitDrops ==
    ASSUME IInv, IInv', NEW t \in Threads, NEW k \in Keys, NEW life \in Lifetimes,
           NEW v \in BOOLEAN, Commit(t, k, life, v)
    PROVE  Store!Drop
<1> DEFINE s == [th[t] EXCEPT !.pc = "commit", !.key = k,
                              !.rec = [gen |-> th[t].gen, expires |-> now + life,
                                       revalidatable |-> v],
                              !.flag = (life = 0)]
<1>1. s.pc = "commit" /\ s.gen = th[t].gen
  BY ThreadFacts DEF ThreadState
<1>2. Go(t, s) /\ UNCHANGED <<refs, minted>> /\ th[t].pc = "capturing"
  BY DEF Commit
<1> HIDE DEF s
<1>3. s.pc \notin Viewing /\ s.pc # "published" /\ th[t].pc \in Committing /\ th[t].pc # "published"
  BY <1>1, <1>2 DEF Viewing, Committing, Owning
<1> QED
  BY <1>1, <1>2, <1>3, GoDrop, Zenon

LEMMA CommitRenameDrops ==
    ASSUME IInv, IInv', NEW t \in Threads, CommitRename(t)
    PROVE  Store!Drop
<1> DEFINE s == [th[t] EXCEPT !.pc = "renamed", !.old = refs[th[t].key]]
<1>1. s.pc = "renamed" /\ s.gen = th[t].gen
  BY ThreadFacts DEF ThreadState
<1>2. UNCHANGED <<refs, minted>> /\ th[t].pc = "admitted" /\ th[t].pc \in Committing
  BY Zenon DEF CommitRename, Committing, Owning
<1>3. CASE Go(t, s)
  <2> HIDE DEF s
  <2>1. s.pc \notin Viewing /\ s.pc # "published"
    BY <1>1 DEF Viewing
  <2> QED
    BY <1>1, <1>2, <1>3, <2>1, GoDrop, Zenon
<1>4. CASE Go(t, [th[t] EXCEPT !.pc = "discard"])
  BY <1>2, <1>4, PcDrop DEF Viewing
<1> QED
  BY <1>3, <1>4 DEF CommitRename

LEMMA BeginCaptureDrops ==
    ASSUME IInv, IInv', NEW t \in Threads, NEW g \in Gens, BeginCapture(t, g)
    PROVE  Store!Drop
<1> DEFINE s == [Idle EXCEPT !.pc = "capturing", !.gen = g]
<1>1. s.pc = "capturing" /\ s.gen = g
  BY DEF Idle
<1>2. Go(t, s) /\ g \notin minted /\ minted \subseteq minted' /\ refs' = refs /\ th[t].pc = "idle"
  BY DEF BeginCapture
<1> HIDE DEF s
<1>3. Burns /\ Closes
  BY <1>1, <1>2, GoSteps, Zenon DEF Viewing
<1>4. th'[t] = s /\ \A u \in Threads : u # t => th'[u] = th[u]
  BY <1>2, InvFacts DEF Go, TypeOK
<1>5. \A u \in Threads : th'[u] = th[u] \/ {th[u].pc, th'[u].pc} \cap {"published"} = {}
  BY <1>1, <1>2, <1>4
<1>6. \A k \in Keys : Shown(k)' = Shown(k)
  BY <1>2, <1>5, SameEntries
<1> QED
  BY <1>3, <1>6, IsDrop DEF Fewer

LEMMA LookupLeaseDrops ==
    ASSUME IInv, IInv', NEW t \in Threads, LookupLease(t)
    PROVE  Store!Drop
<1> DEFINE s == [th[t] EXCEPT !.pc = "evict", !.gen = None]
<1>1. UNCHANGED <<refs, minted>> /\ th[t].pc = "reading"
  BY Zenon DEF LookupLease
<1>2. CASE Go(t, [th[t] EXCEPT !.pc = "validate"])
  BY <1>1, <1>2, PcDrop DEF Viewing, Committing, Owning, Publishing
<1>3. CASE Go(t, s)
  <2>1. s.pc = "evict"
    BY ThreadFacts DEF ThreadState
  <2> HIDE DEF s
  <2>2. s.pc \notin Viewing \cup Committing \cup {"published"}
    BY <2>1 DEF Viewing, Committing, Owning, Publishing
  <2> QED
    BY <1>1, <1>3, <2>2, GoDrop, Zenon
<1> QED
  BY <1>2, <1>3, Zenon DEF LookupLease

LEMMA DamageDrops ==
    ASSUME IInv, IInv', Damage
    PROVE  Store!Drop
<1>1. NoPublisher /\ UNCHANGED <<th, minted>>
  BY InvFacts, LockedAlone, Zenon DEF Damage
<1>2. \A k \in Keys : refs'[k] \in {refs[k], None, Bad}
  BY InvFacts, Zenon DEF Damage, TypeOK
<1>3. Unpublished'
  BY <1>1 DEF Unpublished, NoPublisher, Publishing
<1> QED
  BY <1>1, <1>2, <1>3, RemovalsHide, StillSteps, IsDrop

LEMMA ClockDrops ==
    ASSUME IInv, IInv', Tick \/ UNCHANGED vars
    PROVE  Store!Drop
<1>1. UNCHANGED <<refs, th, minted>>
  BY DEF Tick, vars
<1>2. \A k \in Keys : Shown(k)' = Shown(k)
  BY <1>1, SameEntries
<1> QED
  BY <1>1, <1>2, StillSteps, IsDrop DEF Fewer

(* A revalidated reference keeps its generation.                           *)
LEMMA RevalidateDrops ==
    ASSUME IInv, IInv', NEW t \in Threads, NEW life \in Lifetimes, NEW v \in BOOLEAN,
           NEW late \in BOOLEAN, Revalidate(t, life, v, late)
    PROVE  Store!Drop
<1> DEFINE k == th[t].key
           r == [th[t].rec EXCEPT !.expires = now + life, !.revalidatable = v]
<1>1. k \in Keys /\ th[t].rec \in RefRecord /\ refs[k] = th[t].rec
  BY ThreadFacts, Zenon DEF Revalidate, ProgramOK, Leasing
<1>2. NoPublisher /\ UNCHANGED <<th, minted>>
  BY InvFacts, LockedAlone, Zenon DEF Revalidate
<1>3. CASE late
  <2>1. {k} \subseteq Readable(refs)
    BY <1>1, RecordAssumption, Zenon DEF Readable
  <2> QED
    BY <1>2, <1>3, <2>1, StillDrop, InvFacts, PurgeCleans, SMTT(30) DEF Revalidate
<1>4. CASE ~late
  <2>1. r \in RefRecord /\ r.gen = th[t].rec.gen
    <3>1. now + life \in Nat
      BY DiskAssumption, InvFacts DEF TypeOK
    <3> QED
      BY <1>1, <3>1, ZenonT(30) DEF RefRecord
  <2>2. refs' = [refs EXCEPT ![k] = r]
    BY <1>4, Zenon DEF Revalidate, WriteRef
  <2> HIDE DEF r
  <2>3. \A j \in Keys : Named(refs'[j]) = Named(refs[j])
    BY <1>1, <2>1, <2>2, RecordAssumption, InvFacts, SMTT(30) DEF Named, TypeOK
  <2>4. Unpublished /\ Unpublished'
    BY <1>2 DEF Unpublished, NoPublisher, Publishing
  <2>5. Fewer
    BY <2>3, <2>4, ShownRefs, ShownRefsNext DEF Fewer
  <2> QED
    BY <1>2, <2>5, StillSteps, IsDrop
<1> QED
  BY <1>3, <1>4

-----------------------------------------------------------------------------
(* The end of a commit.                                                    *)

LEMMA ShownOldNext ==
    ASSUME IInv', NEW t \in Threads, th'[t].pc = "published"
    PROVE  \A k \in Keys : Shown(k)' = Named(IF k = th'[t].key THEN th'[t].old ELSE refs'[k])
<1>1. \A u \in Threads : th'[u].pc = "published" => u = t
  BY DEF IInv, Locks, Publishing
<1> QED
  BY <1>1, Zenon DEF Shown, Named, Current

(* While a commit is past its rename readers see what its key had before.  *)
LEMMA ShownDuring ==
    ASSUME IInv, NEW t \in Threads, th[t].pc \in Publishing
    PROVE  \A k \in Keys : Shown(k) = Named(IF k = th[t].key THEN th[t].old ELSE refs[k])
<1>1. CASE th[t].pc = "published"
  BY <1>1, ShownOld
<1>2. CASE th[t].pc = "renamed"
  <2>1. Unpublished
    BY <1>2, InvFacts, Excluded DEF Publishing, Unpublished
  <2>2. refs[th[t].key] = th[t].old
    BY <1>2, InvFacts, Zenon DEF Places, Publication
  <2> QED
    BY <2>1, <2>2, ShownRefs
<1> QED
  BY <1>1, <1>2, Zenon DEF Publishing

(* No other commit has the generation of one that is past its rename.      *)
LEMMA OwnGeneration ==
    ASSUME IInv, NEW t \in Threads, th[t].pc \in Publishing
    PROVE  /\ th[t].gen \in Gens /\ th[t].gen \in minted
           /\ \A u \in Threads : th[u].pc \in Committing /\ th[u].gen = th[t].gen => u = t
<1>1. th[t].gen \in Gens
  BY ThreadFacts, Zenon DEF ProgramOK
<1>2. obj[th[t].gen].loc = "object"
  BY InvFacts, Zenon DEF Places, Publication
<1>3. th[t].gen \in minted
  BY <1>1, <1>2, InvFacts DEF Places, Minted
<1>4. \A u \in Threads : th[u].pc \in Owning => obj[th[u].gen].loc = "temp"
  BY InvFacts, Zenon DEF Places, CaptureKept, Owning
<1>5. \A u \in Threads : th[u].pc \in Publishing => u = t
  BY InvFacts, Excluded
<1> QED
  BY <1>1, <1>2, <1>3, <1>4, <1>5, Zenon DEF Committing

LEMMA CommitPublishDrops ==
    ASSUME IInv, IInv', NEW t \in Threads, CommitPublish(t)
    PROVE  Store!Drop
<1> DEFINE s == [th[t] EXCEPT !.pc = "published"]
<1>1. s.pc = "published" /\ s.gen = th[t].gen /\ s.key = th[t].key /\ s.old = th[t].old
  BY ThreadFacts DEF ThreadState
<1>2. Go(t, s) /\ UNCHANGED minted /\ th[t].pc \in Publishing
  BY DEF CommitPublish, Publishing
<1>3. \A k \in Keys : k # th[t].key => refs'[k] = refs[k]
  BY InvFacts DEF CommitPublish, WriteRef, TypeOK
<1> HIDE DEF s
<1>4. th'[t] = s
  BY <1>2, InvFacts DEF Go, TypeOK
<1>5. \A k \in Keys : Shown(k)' = Named(IF k = th[t].key THEN th[t].old ELSE refs'[k])
  BY <1>1, <1>4, ShownOldNext
<1>6. Fewer
  BY <1>2, <1>3, <1>5, ShownDuring DEF Fewer
<1>7. Burns /\ Closes
  BY <1>1, <1>2, GoSteps, Zenon DEF Committing, Viewing
<1> QED
  BY <1>6, <1>7, IsDrop

(* The thread whose commit ends is the only one past its rename.           *)
LEMMA CommitEnds ==
    ASSUME IInv, IInv', NEW t \in Threads, th[t].pc \in Publishing, Go(t, Idle), UNCHANGED minted
    PROVE  Burns /\ Closes /\ Unpublished' /\ th[t].gen \notin Spent /\ th[t].gen \in Spent'
<1>1. Idle.pc \notin Committing \cup Viewing \cup {"published"}
  BY Zenon DEF Idle, Committing, Viewing, Owning, Publishing
<1>2. th'[t] = Idle /\ \A u \in Threads : u # t => th'[u] = th[u] /\ th[u].pc \notin Publishing
  BY InvFacts, Excluded DEF Go, TypeOK
<1>3. Burns /\ Closes
  BY <1>1, GoSteps
<1>4. Unpublished'
  BY <1>1, <1>2 DEF Unpublished, Publishing
<1>5. th[t].gen \notin Spent
  BY Zenon DEF Spent, InCommit, Publishing
<1>6. \A u \in Threads : th'[u].pc \in Committing => th'[u].gen # th[t].gen
  BY <1>1, <1>2, OwnGeneration, Zenon
<1>7. th[t].gen \in Spent'
  BY <1>6, OwnGeneration, Zenon DEF Spent, InCommit, Committing, Owning, Publishing
<1> QED
  BY <1>3, <1>4, <1>5, <1>7

LEMMA RollbackDrops ==
    ASSUME IInv, IInv', NEW t \in Threads, th[t].pc \in Publishing, Rollback(t), Go(t, Idle),
           UNCHANGED minted
    PROVE  Store!Drop
<1>1. refs[th[t].key] \in {th[t].old, th[t].rec} /\ th[t].key \in Keys
  BY InvFacts, ThreadFacts, SMTT(30) DEF Places, Publication, ProgramOK
<1>2. \A k \in Keys : refs'[k] = IF k = th[t].key THEN th[t].old ELSE refs[k]
  BY <1>1, InvFacts, ZenonT(30) DEF Rollback, RolledBack, TypeOK
<1>3. Fewer
  BY <1>2, ShownDuring, CommitEnds, ShownRefsNext DEF Fewer
<1> QED
  BY <1>3, CommitEnds, IsDrop, SMTT(30)

(* The commit stands: its generation becomes the entry of its key.         *)
LEMMA StandingPut ==
    ASSUME IInv, NEW t \in Threads, NEW k, NEW g, k = th[t].key, g = th[t].gen,
           th[t].pc = "published", refs' = refs, Burns, Closes, Unpublished',
           g \notin Spent, g \in Spent'
    PROVE  k \in Keys /\ g \in Gens /\ Store!Put(k, g)
<1>1. /\ k \in Keys /\ g \in Gens
      /\ th[t].rec \in RefRecord /\ th[t].rec.gen = g /\ refs[k] = th[t].rec
  BY InvFacts, ThreadFacts, Zenon DEF Places, Publication, ProgramOK, Publishing
<1>2. \A j \in Keys : Shown(j)' = Named(refs[j])
  BY ShownRefsNext
<1>3. Shown(k)' = g
  BY <1>1, <1>2, RecordAssumption, Zenon DEF Named
<1>4. \A j \in Keys : j # k => Shown(j)' = Shown(j)
  BY <1>2, ShownOld
<1> QED
  BY <1>1, <1>3, <1>4, IsPut, SMTT(30)

LEMMA CommitFinishSteps ==
    ASSUME IInv, IInv', NEW t \in Threads, CommitFinish(t)
    PROVE  Store!Next
<1>1. th[t].pc = "published" /\ th[t].pc \in Publishing /\ Go(t, Idle) /\ UNCHANGED minted
  BY DEF CommitFinish, Publishing
<1>2. CASE TooLate(t)
  BY <1>1, <1>2, RollbackDrops, Zenon DEF CommitFinish, Store!Next
<1>3. CASE ~TooLate(t)
  <2>1. PICK k, g : k = th[t].key /\ g = th[t].gen
    OBVIOUS
  <2>2. g \notin Spent /\ g \in Spent' /\ Burns /\ Closes /\ Unpublished'
    BY <1>1, <2>1, CommitEnds
  <2>3. refs' = refs
    BY <1>3 DEF CommitFinish
  <2>4. k \in Keys /\ g \in Gens /\ Store!Put(k, g)
    BY <1>1, <2>1, <2>2, <2>3, StandingPut
  <2> QED
    BY <2>4 DEF Store!Next
<1> QED
  BY <1>2, <1>3

LEMMA CommitErrorDrops ==
    ASSUME IInv, IInv', NEW t \in Threads, CommitError(t)
    PROVE  Store!Drop
<1>1. CASE th[t].pc = "admitted"
  <2>1. Go(t, [th[t] EXCEPT !.pc = "discard"]) /\ UNCHANGED <<refs, minted>>
    BY <1>1 DEF CommitError
  <2> QED
    BY <1>1, <2>1, PcDrop DEF Committing, Owning, Viewing
<1>2. CASE th[t].pc \in Publishing
  BY <1>2, RollbackDrops DEF CommitError, Publishing
<1> QED
  BY <1>1, <1>2 DEF CommitError, Publishing

(* A process that dies after it wrote the reference leaves a commit that   *)
(* stands, and otherwise nothing that readers see.                         *)
LEMMA CrashSteps ==
    ASSUME IInv, IInv', NEW h \in Handles, Crash(h)
    PROVE  Store!Next
<1>1. Idle.pc \notin Committing \cup Viewing \cup {"published"}
  BY DEF Idle, Committing, Viewing, Owning, Publishing
<1>2. UNCHANGED <<refs, minted>> /\ \A u \in Threads : th'[u] = IF H(u) = h THEN Idle ELSE th[u]
  BY DEF Crash
<1>3. Burns
  BY <1>1, <1>2, ThreadsBurn DEF IInv
<1>4. Closes
  BY <1>1, <1>2, ThreadsClose
<1>5. CASE \E t \in Threads : H(t) = h /\ th[t].pc = "published"
  <2>1. PICK t \in Threads : H(t) = h /\ th[t].pc = "published"
    BY <1>5
  <2>2. PICK k, g : k = th[t].key /\ g = th[t].gen
    OBVIOUS
  <2>3. \A u \in Threads : u # t => th[u].pc # "published"
    BY <2>1, InvFacts, Excluded DEF Publishing
  <2>4. Unpublished'
    BY <1>1, <1>2, <2>1, <2>3 DEF Unpublished
  <2>5. g \notin Spent
    BY <2>1, <2>2, Zenon DEF Spent, InCommit
  <2>6. g \in Gens /\ g \in minted
         /\ \A u \in Threads : th[u].pc \in Committing /\ th[u].gen = g => u = t
    BY <2>1, <2>2, OwnGeneration, Zenon DEF Publishing
  <2>7. \A u \in Threads : th'[u].pc \in Committing => th'[u].gen # g
    BY <1>1, <1>2, <2>1, <2>6
  <2>8. g \in Spent'
    BY <1>2, <2>6, <2>7, SMTT(30) DEF Spent, InCommit, Committing, Owning, Publishing
  <2>9. k \in Keys /\ g \in Gens /\ Store!Put(k, g)
    BY <1>2, <1>3, <1>4, <2>1, <2>2, <2>4, <2>5, <2>8, StandingPut, SMTT(30)
  <2> QED
    BY <2>9 DEF Store!Next
<1>6. CASE ~\E t \in Threads : H(t) = h /\ th[t].pc = "published"
  <2>1. \A u \in Threads : th'[u] = th[u] \/ {th[u].pc, th'[u].pc} \cap {"published"} = {}
    BY <1>1, <1>2, <1>6
  <2>2. Fewer
    BY <1>2, <2>1, SameEntries DEF Fewer
  <2> QED
    BY <1>3, <1>4, <2>2, IsDrop, SMTT(30) DEF Store!Next
<1> QED
  BY <1>5, <1>6

(* A reader is given the entry of its key: nothing is being published when *)
(* it has the shared lock.                                                 *)
LEMMA LookupReadSteps ==
    ASSUME IInv, IInv', NEW t \in Threads, NEW k \in Keys, NEW b \in BOOLEAN, LookupRead(t, k, b)
    PROVE  Store!Next
<1> DEFINE r == refs[k]
           s(pc) == [Idle EXCEPT !.pc = pc, !.key = k, !.rec = r, !.flag = b]
           v == [s("reading") EXCEPT !.gen = r.gen]
<1>1. th[t].pc = "idle" /\ UNCHANGED <<refs, minted>> /\ CanShare(t)
  BY Zenon DEF LookupRead
<1>2. CASE Go(t, s("evict"))
  <2>1. s("evict").pc = "evict"
    BY DEF Idle
  <2>2. "evict" \notin Viewing \cup Committing \cup {"published"}
    BY DEF Viewing, Committing, Owning, Publishing
  <2> HIDE DEF s
  <2> QED
    BY <1>1, <1>2, <2>1, <2>2, GoDrop, SMTT(30) DEF Store!Next
<1>3. CASE r \notin {None, Bad} /\ Go(t, v)
  <2>1. v.pc = "reading" /\ v.key = k /\ v.gen = r.gen
    BY DEF Idle
  <2> HIDE DEF v
  <2>2. th'[t] = v /\ \A u \in Threads : u # t => th'[u] = th[u]
    BY <1>3, InvFacts, SMTT(30) DEF Go, TypeOK
  <2>3. Unpublished
    BY <1>1, InvFacts, DiskAssumption DEF Unpublished, CanShare, ShareFree, Locks, Publishing, H
  <2>4. \A u \in Threads : th'[u] = th[u] \/ {th[u].pc, th'[u].pc} \cap {"published"} = {}
    BY <1>1, <2>1, <2>2, SMTT(30)
  <2>5. \A j \in Keys : Shown(j)' = Shown(j)
    BY <1>1, <2>4, SameEntries, SMTT(30)
  <2>6. r.gen \in Gens /\ Shown(k) = r.gen
    BY <1>3, <2>3, ShownRefs, RefFacts, SMTT(30) DEF Named, Readable
  <2>7. Shown(k) # None
    BY <2>6, DiskAssumption
  <2>8. View(t)' = <<k, Shown(k)>>
    BY <2>1, <2>2, <2>6 DEF View, Viewing
  <2>9. \A u \in Threads : u # t => View(u)' = View(u)
    BY <2>2 DEF View
  <2>10. \A u \in Threads : th'[u].pc \in Committing \/ th[u].pc \in Committing => th'[u] = th[u]
    BY <1>1, <2>1, <2>2, SMTT(30) DEF Committing, Owning, Publishing
  <2>11. Spent' = Spent
    BY <1>1, <2>10 DEF Spent, InCommit, Committing, Owning, Publishing
  <2>12. Store!Read(t, k)
    BY <2>5, <2>7, <2>8, <2>9, <2>11, IsRead, SMTT(30)
  <2> QED
    BY <2>12 DEF Store!Next
<1> QED
  BY <1>2, <1>3, ZenonT(30) DEF LookupRead

LEMMA StoreInit == Init => Store!Init
<1> SUFFICES ASSUME Init PROVE Store!Init
  OBVIOUS
<1>1. \A t \in Threads : th[t].pc = "idle"
  BY Zenon DEF Init, Idle
<1>2. \A k \in Keys : Shown(k) = None
  BY <1>1, ShownRefs DEF Init, Unpublished, Named
<1>3. Spent = {} /\ \A t \in Threads : View(t) = None
  BY <1>1 DEF Init, Spent, View, Viewing
<1>4. [k \in Keys |-> Shown(k)] = [k \in Keys |-> None] /\ [t \in Threads |-> View(t)] = [t \in Threads |-> None]
  BY <1>2, <1>3
<1> QED
  BY <1>3, <1>4, Zenon DEF Store!Init, Shown, Named, Spent, View, Viewing

LEMMA StoreStep ==
    ASSUME IInv, IInv', [Next]_vars
    PROVE  Store!Next
<1>1. Store!Drop => Store!Next
  BY Zenon DEF Store!Next
<1>2. CASE Next
  BY <1>1, <1>2, OpenDrops, CrashSteps, ReapDrops, FlushDrops, FlushAllDrops, RemoveDrops,
     BeginCaptureDrops, IdlingDrops, PcDrops, CommitDrops, CommitAdmitDrops, CommitRenameDrops,
     CommitPublishDrops, CommitFinishSteps, CommitErrorDrops, LookupReadSteps, LookupLeaseDrops,
     EvictDrops, RemoveHitDrops, RevalidateDrops, DamageDrops, ClockDrops, SMTT(30) DEF Next
<1>3. CASE UNCHANGED vars
  BY <1>1, <1>3, ClockDrops
<1> QED
  BY <1>2, <1>3

(* The directory implements ResultStore: readers of any process see whole  *)
(* results, a commit becomes visible at one moment or, if it fails or is   *)
(* too late, never, and a generation that is gone does not come back, for  *)
(* any number of processes, threads, keys and crashes.                     *)
THEOREM DiskRefinesStore == Spec => RefinesStore
<1>1. IInv /\ IInv' /\ [Next]_vars => [Store!Next]_(Store!vars)
  BY StoreStep, SMTT(30)
<1> QED
  BY <1>1, StoreInit, InvHolds, PTL DEF Spec, RefinesStore, Store!Spec
=============================================================================
