---------------------------- MODULE ResultCache ----------------------------
(***************************************************************************)
(* vgi-client/src/cache.rs: the in-memory result cache.                    *)
(*                                                                         *)
(* `slots` is Inner::map, `order` its keys by last_used (least recent      *)
(* first: ticks are unique), `entries` and `total` the counters of         *)
(* CacheStats that the caps are enforced by.  A section under the inner    *)
(* mutex takes no other lock and is one step.  The RwLock of the limits is *)
(* held across steps: a thread reads it while its pc is in ReadingPcs, and *)
(* set_limits holds it for one step.                                       *)
(*                                                                         *)
(* A caller asks for eligibility, and with the lifetime it is given stores *)
(* the result or slides the entry that a conditional request confirmed.    *)
(* A control is what a worker advertises; of its validators only the       *)
(* presence matters.  The wall clock and the monotonic clock are `now`.    *)
(***************************************************************************)
EXTENDS Integers, FiniteSets, Sequences, SequencesExt, FiniteSetsExt, Functions

CONSTANTS Threads, Keys, ScopeOf, CatalogOf, None,
          Bad,         \* an expiry date that does not parse
          Controls,    \* what workers advertise
          Sizes,       \* bytes of a result
          LimitsSet,   \* the caps the host sets
          MaxTime      \* bound of the clock

Control == [no_store : BOOLEAN, scope : {"catalog", "transaction", "other"},
            ttl : Int \cup {None}, expires : Int \cup {None, Bad},
            revalidatable : BOOLEAN, validator : BOOLEAN]

Limits == [entry : Nat, total : Nat, entries : Nat, default_ttl : Nat]

Entry == [bytes : Nat, stored : Nat, ttl : Nat, revalidatable : BOOLEAN]

ASSUME CacheAssumption ==
    /\ Controls \subseteq Control
    /\ Sizes \subseteq Nat
    /\ LimitsSet \subseteq Limits /\ LimitsSet # {}
    /\ MaxTime \in Nat

VARIABLES slots, order, entries, total, limits, th, now

vars == <<slots, order, entries, total, limits, th, now>>

\* cc, bytes and ttl are a call's result in hand, caps the limits it read.
Thread == [pc : {"ready", "nested", "admitted", "storing", "waiting"},
           cc : Controls \cup {None}, bytes : Nat, ttl : Nat, caps : LimitsSet \cup {None}]

Ready == [pc |-> "ready", cc |-> None, bytes |-> 0, ttl |-> 0, caps |-> None]

TypeOK ==
    /\ DOMAIN slots \subseteq Keys
    /\ slots \in [DOMAIN slots -> Entry]
    /\ order \in Seq(Keys) /\ ToSet(order) = DOMAIN slots
    /\ Len(order) = Cardinality(DOMAIN slots)
    /\ entries \in Nat /\ total \in Nat
    /\ limits \in LimitsSet
    /\ th \in [Threads -> Thread]
    /\ now \in 0..MaxTime

Init ==
    /\ slots = << >>
    /\ order = << >>
    /\ entries = 0
    /\ total = 0
    /\ limits \in LimitsSet
    /\ th = [t \in Threads |-> Ready]
    /\ now = 0

-----------------------------------------------------------------------------
(* Inner.                                                                  *)

Bytes(S, D) == SumFunctionOnSet([k \in D |-> S[k].bytes], D)

Dropped(D) ==
    /\ slots' = Restrict(slots, DOMAIN slots \ D)
    /\ order' = SelectSeq(order, LAMBDA k : k \notin D)
    /\ entries' = entries - Cardinality(D)
    /\ total' = total - Bytes(slots, D)

Used(ord, k) == Append(SelectSeq(ord, LAMBDA j : j # k), k)

IsStale(e) == now - e.stored >= e.ttl

Oversized(S, lim) == {k \in DOMAIN S : S[k].bytes > lim.entry}

Mut_Candidates(S, ord, lim) == Reverse(ord)

\* The keys in the order in which enforce_caps would take them: the oversized
\* ones first, then by last use.
Candidates(S, ord, lim) ==
    LET big == Oversized(S, lim)
    IN  SelectSeq(ord, LAMBDA k : k \in big) \o SelectSeq(ord, LAMBDA k : k \notin big)

Fits(S, n, bytes, lim) == Oversized(S, lim) = {} /\ n <= lim.entries /\ bytes <= lim.total

\* enforce_caps on the map S with its counters: the shortest run of victims
\* that leaves every cap satisfied, or all.
Victims(S, ord, n, bytes, lim) ==
    LET queue == Candidates(S, ord, lim)
        First(i) == ToSet(SubSeq(queue, 1, i))
        Enough(i) == Fits(Restrict(S, DOMAIN S \ First(i)), n - i, bytes - Bytes(S, First(i)), lim)
        runs == {i \in 0..Len(queue) : Enough(i)}
    IN  First(IF runs = {} THEN Len(queue) ELSE Min(runs))

EnforceCaps(S, ord, n, bytes, lim) ==
    LET D == Victims(S, ord, n, bytes, lim)
    IN  /\ slots' = Restrict(S, DOMAIN S \ D)
        /\ order' = SelectSeq(ord, LAMBDA k : k \notin D)
        /\ entries' = n - Cardinality(D)
        /\ total' = bytes - Bytes(S, D)

-----------------------------------------------------------------------------
(* The RwLock of the limits (std, futex): a reader waits for a writer that *)
(* waits.                                                                  *)

Mut_ReadingPcs == {"nested"}

ReadingPcs == {"nested", "storing"}

Readers == {t \in Threads : th[t].pc \in ReadingPcs}

ReadLockable == \A t \in Threads : th[t].pc # "waiting"

WriteLockable == Readers = {}

-----------------------------------------------------------------------------
(* eligibility                                                             *)

HasValidator(cc) == cc.revalidatable /\ cc.validator

\* The lifetime a control names, before the check for a pointless zero; None
\* stands for Ineligible::NoFreshness.
NamedLifetime(cc, lim) ==
    CASE cc.ttl # None /\ cc.ttl > 0 -> cc.ttl
      [] cc.ttl = 0 -> IF HasValidator(cc) THEN 0 ELSE None
      [] OTHER ->
           IF cc.expires # None
           THEN IF cc.expires = Bad THEN None ELSE Max({cc.expires - now, 0})
           ELSE IF lim.default_ttl = 0 THEN None ELSE lim.default_ttl

Mut_FreshnessLifetime(cc, lim) == NamedLifetime(cc, lim)

FreshnessLifetime(cc, lim) ==
    LET ttl == NamedLifetime(cc, lim)
    IN  IF ttl = 0 /\ ~HasValidator(cc) THEN None ELSE ttl

Storable(cc) == ~cc.no_store /\ cc.scope = "catalog"

\* eligibility, up to the call of freshness_lifetime_at, which reads the
\* limits again while the first read guard is held
Eligibility(t, cc, b) ==
    /\ th[t].pc = "ready"
    /\ Storable(cc)
    /\ ReadLockable
    /\ b <= limits.entry
    /\ th' = [th EXCEPT ![t] = [Ready EXCEPT !.pc = "nested", !.cc = cc, !.bytes = b]]
    /\ UNCHANGED <<slots, order, entries, total, limits, now>>

\* freshness_lifetime_at, and the return from eligibility
Lifetime(t) ==
    /\ th[t].pc = "nested"
    /\ ReadLockable
    /\ LET ttl == FreshnessLifetime(th[t].cc, limits)
       IN  th' = [th EXCEPT ![t] = IF ttl = None THEN Ready
                                   ELSE [@ EXCEPT !.pc = "admitted", !.ttl = ttl]]
    /\ UNCHANGED <<slots, order, entries, total, limits, now>>

-----------------------------------------------------------------------------
(* insert_with_substreams                                                  *)

BeginInsert(t) ==
    /\ th[t].pc = "admitted"
    /\ ReadLockable
    /\ th' = [th EXCEPT ![t] = IF th[t].bytes > limits.entry THEN Ready
                               ELSE [@ EXCEPT !.pc = "storing", !.caps = limits]]
    /\ UNCHANGED <<slots, order, entries, total, limits, now>>

Entered(t) == [bytes |-> th[t].bytes, stored |-> now, ttl |-> th[t].ttl,
               revalidatable |-> th[t].cc.revalidatable]

Mut_Replaced(k) == {}

\* The entry whose bytes and count the new one takes over.
Replaced(k) == {k} \cap DOMAIN slots

Store(t, k) ==
    /\ th[t].pc = "storing"
    /\ EnforceCaps([j \in DOMAIN slots \cup {k} |-> IF j = k THEN Entered(t) ELSE slots[j]],
                   Used(order, k),
                   entries - Cardinality(Replaced(k)) + 1,
                   total - Bytes(slots, Replaced(k)) + th[t].bytes,
                   th[t].caps)
    /\ th' = [th EXCEPT ![t] = Ready]
    /\ UNCHANGED <<limits, now>>

\* slide_with_control, after a conditional request was answered "not modified"
Slide(t, k) ==
    /\ th[t].pc = "admitted"
    /\ k \in DOMAIN slots
    /\ slots' = [slots EXCEPT ![k] = [@ EXCEPT !.stored = now, !.ttl = th[t].ttl,
                                               !.revalidatable = HasValidator(th[t].cc)]]
    /\ order' = Used(order, k)
    /\ th' = [th EXCEPT ![t] = Ready]
    /\ UNCHANGED <<entries, total, limits, now>>

-----------------------------------------------------------------------------
(* The other calls; each is one section under the mutex.                   *)

Hit(k) == k \in DOMAIN slots /\ ~IsStale(slots[k])

GetHit(t, k) ==
    /\ th[t].pc = "ready"
    /\ Hit(k)
    /\ order' = Used(order, k)
    /\ UNCHANGED <<slots, entries, total, limits, th, now>>

Mut_Doomed(e) == IsStale(e)

\* What get and reap drop.
Doomed(e) == IsStale(e) /\ ~e.revalidatable

GetMiss(t, k) ==
    /\ th[t].pc = "ready"
    /\ k \in DOMAIN slots
    /\ Doomed(slots[k])
    /\ Dropped({k})
    /\ UNCHANGED <<limits, th, now>>

Drop(t, D) ==
    /\ th[t].pc = "ready"
    /\ D # {}
    /\ Dropped(D)
    /\ UNCHANGED <<limits, th, now>>

Reap(t) == Drop(t, {k \in DOMAIN slots : Doomed(slots[k])})

RemoveKey(t, k) == Drop(t, {k} \cap DOMAIN slots)

FlushScope(t, s) == Drop(t, {k \in DOMAIN slots : ScopeOf[k] = s})

FlushCatalog(t, c) == Drop(t, {k \in DOMAIN slots : CatalogOf[k] = c})

FlushAll(t) == Drop(t, DOMAIN slots)

\* set_limits queues for the write lock ...
SetLimits(t) ==
    /\ th[t].pc = "ready"
    /\ th' = [th EXCEPT ![t].pc = "waiting"]
    /\ UNCHANGED <<slots, order, entries, total, limits, now>>

\* ... and holds it while the caps are enforced.
ApplyLimits(t, lim) ==
    /\ th[t].pc = "waiting"
    /\ WriteLockable
    /\ limits' = lim
    /\ EnforceCaps(slots, order, entries, total, lim)
    /\ th' = [th EXCEPT ![t] = Ready]
    /\ UNCHANGED now

Tick ==
    /\ now < MaxTime
    /\ now' = now + 1
    /\ UNCHANGED <<slots, order, entries, total, limits, th>>

\* What a thread in the middle of a call does next.
Continue(t) ==
    \/ Lifetime(t)
    \/ \E k \in Keys : Store(t, k)
    \/ \E lim \in LimitsSet : ApplyLimits(t, lim)

Next ==
    \/ \E t \in Threads :
         \/ Continue(t)
         \/ \E cc \in Controls, b \in Sizes : Eligibility(t, cc, b)
         \/ BeginInsert(t) \/ SetLimits(t) \/ Reap(t) \/ FlushAll(t)
         \/ \E k \in Keys : Slide(t, k) \/ GetHit(t, k) \/ GetMiss(t, k) \/ RemoveKey(t, k)
         \/ \E s \in Range(ScopeOf) : FlushScope(t, s)
         \/ \E c \in Range(CatalogOf) : FlushCatalog(t, c)
    \/ Tick

Spec == Init /\ [][Next]_vars

\* A call under way goes on when its locks allow it.
FairSpec == Spec /\ \A t \in Threads : WF_vars(Continue(t))

-----------------------------------------------------------------------------
(* Properties                                                              *)

\* The counters that the caps are enforced by are those of the map.
Accounting == entries = Cardinality(DOMAIN slots) /\ total = Bytes(slots, DOMAIN slots)

\* The map is within the caps in force, also after an insert that raced a
\* set_limits.
WithinCaps ==
    /\ \A k \in DOMAIN slots : slots[k].bytes <= limits.entry
    /\ Cardinality(DOMAIN slots) <= limits.entries
    /\ Bytes(slots, DOMAIN slots) <= limits.total

\* Eviction to make room never takes the result just stored, when it fits.
NewestSurvives ==
    \A t \in Threads, k \in Keys \ DOMAIN slots' :
        ~(limits.entries > 0 /\ th[t].bytes <= limits.total /\ Store(t, k))

\* The bytes a conditional request could reuse outlive their freshness: time
\* alone, through get or reap, never removes a revalidatable entry.
ValidatorKept ==
    (\E k \in DOMAIN slots \ DOMAIN slots' : slots[k].revalidatable) =>
        \A t \in Threads : ~Reap(t) /\ \A k \in Keys : ~GetMiss(t, k)

\* An entry that can neither be served nor revalidated is never stored.
StoredIsReusable ==
    \A t \in Threads : th[t].pc = "admitted" => th[t].ttl > 0 \/ HasValidator(th[t].cc)

\* set_limits returns.
SetLimitsReturns == \A t \in Threads : th[t].pc = "waiting" ~> th[t].pc = "ready"

\* The books of the cache: its counters are those of the map, the map is within
\* the caps in force, and what it admits can be served or revalidated.
CacheBooks == Accounting /\ WithinCaps /\ StoredIsReusable

\* What leaves the cache leaves for a reason: not the result just stored to make
\* room for it, and not by time alone what could be revalidated.
RemovalsJustified == [][NewestSurvives /\ ValidatorKept]_vars
=============================================================================
