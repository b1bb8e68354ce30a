-------------------------- MODULE SingleUseProofs --------------------------
(***************************************************************************)
(* Proofs about what is accepted once: a tunnel grant at a node, for any   *)
(* number of grants, any capacity, lifetime and tolerated skew; and a key  *)
(* of nil-core's durable sets, for any keys, tags, retentions, capacity    *)
(* and combination of failures.                                            *)
(***************************************************************************)
EXTENDS GrantReplay, FiniteSetTheorems, TLAPS

\* The cache and the history are finite: both grow by one element a step.
FiniteInv == IsFiniteSet(entries) /\ IsFiniteSet(uses)

\* The type invariant with finiteness, which it needs for Cardinality.
TInv == TypeOK /\ FiniteInv

\* The constants are naturals, and Forever lies beyond every clock.
LEMMA ConstantTypes ==
    /\ Ttl \in Nat /\ MaxTtl \in Nat /\ MaxSkew \in Nat /\ MaxClock \in Nat
    /\ Capacity \in Nat /\ MaxBoots \in Nat /\ Forever \in Nat /\ MaxClock < Forever
    /\ Ttl > 0 /\ Ttl < Forever
BY GrantAssumption DEF Forever

\* prune only removes.
LEMMA PrunedSubset == \A now : Pruned(now) \subseteq entries
BY DEF Pruned

\* now_unix_secs_for_expiry returns a u64.
LEMMA ReadingTypes ==
    ASSUME TypeOK, NEW now \in Readings
    PROVE  now \in 0..Forever
BY ConstantTypes DEF Readings, TypeOK

\* A fresh process starts with the types and finite tables.
LEMMA InitT == Init => TInv
<1> SUFFICES ASSUME Init PROVE TInv
    OBVIOUS
<1>1. IsFiniteSet({})
    BY FS_EmptySet
<1> QED
    BY <1>1, ConstantTypes, GrantAssumption DEF Init, TInv, TypeOK, FiniteInv, NotMinted, Verdicts

\* Every step of grant, clock, restart and authorize_connect keeps them.
LEMMA NextT == TInv /\ [Next]_vars => TInv'
<1> SUFFICES ASSUME TInv, [Next]_vars PROVE TInv'
    OBVIOUS
<1>f. faults' = faults
    BY DEF Next, vars
<1> USE ConstantTypes, <1>f DEF TInv
<1>1. CASE Tick
    BY <1>1 DEF Tick, TypeOK, FiniteInv, Minted, Verdicts
<1>2. CASE StepBack
    BY <1>2 DEF StepBack, TypeOK, FiniteInv, Minted, Verdicts
<1>3. ASSUME NEW g \in Grants, Mint(g) PROVE TInv'
    BY <1>3, GrantAssumption DEF Mint, TypeOK, FiniteInv, Minted, NotMinted, Verdicts
<1>4. ASSUME NEW now \in Readings, Restart(now) PROVE TInv'
    <2>1. IsFiniteSet({})
        BY FS_EmptySet
    <2> QED
        BY <1>4, <2>1, ReadingTypes DEF Restart, TypeOK, FiniteInv, Minted, Verdicts
<1>5. ASSUME NEW g \in Minted, NEW now \in Readings, Refuse(g, now) PROVE TInv'
    BY <1>5 DEF Refuse, TypeOK, FiniteInv, Minted, Verdicts
<1>6. ASSUME NEW g \in Minted, NEW now \in Readings, Authorize(g, now) PROVE TInv'
    <2> DEFINE kept == Pruned(now)
               u == [n |-> Cardinality(uses), grant |-> g, at |-> now,
                     boot |-> boot, from |-> started]
    <2>1. kept \subseteq entries /\ IsFiniteSet(kept)
        BY PrunedSubset, FS_Subset DEF FiniteInv
    <2>2. IsFiniteSet(kept \cup {g}) /\ IsFiniteSet(uses \cup {u})
        BY Zenon, <2>1, FS_AddElement DEF FiniteInv
    <2>3. u \in Use
        <3>1. Cardinality(uses) \in Nat
            BY FS_CardinalityType DEF FiniteInv
        <3>2. now \in Nat /\ boot \in Nat /\ started \in Nat /\ g \in Grants
            BY ReadingTypes DEF TypeOK, Minted
        <3> QED
            BY <3>1, <3>2 DEF Use
    <2>4. g \in Minted /\ verdict' \in Verdicts
        BY <1>6 DEF Authorize, Consume, Verdicts
    <2>5. UNCHANGED <<clock, ahead, issued, boot, started>>
        BY <1>6 DEF Authorize
    <2>6. \/ entries' = kept \cup {g} /\ uses' = uses \cup {u}
          \/ entries' = kept /\ uses' = uses
        BY <1>6 DEF Authorize
    <2> HIDE DEF kept, u
    <2> QED
        BY Zenon, <2>1, <2>2, <2>3, <2>4, <2>5, <2>6 DEF TypeOK, FiniteInv, Minted
<1>7. CASE UNCHANGED vars
    BY <1>7 DEF vars, TypeOK, FiniteInv, Minted
<1> QED
    BY <1>1, <1>2, <1>3, <1>4, <1>5, <1>6, <1>7 DEF Next, Step

\* Type correctness for every value of the constants.
THEOREM GrantTypes == Spec => []TypeOK
<1>1. TInv => TypeOK
    BY DEF TInv
<1> QED
    BY <1>1, InitT, NextT, PTL DEF Spec

-----------------------------------------------------------------------------
(* Restarts: how long after its use a grant can be used again *)

\* The tolerance is a natural, and none with clocks in step.
LEMMA LeadType == Lead \in Nat /\ (~ InStep => Lead = MaxSkew)
BY ConstantTypes DEF Lead

\* With clocks in step, minting and the passing of time stamp nothing ahead.
LEMMA NextStamped == TInv /\ StampedInPast /\ [Next]_vars => StampedInPast'
<1> SUFFICES ASSUME TInv, StampedInPast, [Next]_vars, InStep'
             PROVE  ahead' <= 0 /\ \A g \in Minted' : issued'[g] <= clock'
    BY DEF StampedInPast
<1>1. InStep
    BY DEF InStep, Next, vars
<1>2. ahead <= 0 /\ \A g \in Minted : issued[g] <= clock
    BY <1>1 DEF StampedInPast
<1>3. /\ clock \in Int /\ ahead \in Int
      /\ \A g \in Grants : issued[g] \in Int
    BY GrantAssumption, ConstantTypes DEF TInv, TypeOK, NotMinted
<1>4. CASE UNCHANGED <<clock, ahead, issued>>
    BY <1>2, <1>4 DEF Minted
<1>5. CASE Tick
    BY <1>2, <1>3, <1>5 DEF Tick, Minted
<1>6. CASE StepBack
    BY <1>1, <1>6 DEF StepBack, InStep
<1>7. ASSUME NEW g \in Grants, Mint(g)
      PROVE  ahead' <= 0 /\ \A h \in Minted' : issued'[h] <= clock'
    <2>1. ahead' = ahead /\ clock' = clock /\ clock + ahead <= clock
        BY <1>2, <1>3, <1>7 DEF Mint
    <2>2. \A h \in Grants : issued'[h] = IF h = g THEN clock + ahead ELSE issued[h]
        BY <1>7 DEF Mint, TInv, TypeOK
    <2> QED
        BY <1>2, <2>1, <2>2 DEF Minted
<1> QED
    BY <1>4, <1>5, <1>6, <1>7 DEF Next, Step, Restart, Refuse, Authorize, vars

\* authorize_connect accepts only within the window, and no step moves a use.
LEMMA NextWindow == TInv /\ StampedInPast /\ UsesInWindow /\ [Next]_vars => UsesInWindow'
<1> SUFFICES ASSUME TInv, StampedInPast, UsesInWindow, [Next]_vars PROVE UsesInWindow'
    OBVIOUS
<1>f. Lead' = Lead
    BY DEF Lead, InStep, Next, vars
<1> USE ConstantTypes, LeadType, <1>f DEF TInv
<1>1. CASE UNCHANGED <<uses, issued>>
    BY <1>1 DEF UsesInWindow
<1>2. ASSUME NEW g \in Grants, Mint(g) PROVE UsesInWindow'
    <2>1. uses' = uses /\ issued[g] = NotMinted
        BY <1>2 DEF Mint, Minted
    <2>2. \A u \in uses : u.grant # g /\ issued'[u.grant] = issued[u.grant]
        BY <1>2, <2>1 DEF Mint, UsesInWindow, TypeOK, Use
    <2> QED
        BY <2>1, <2>2 DEF UsesInWindow
<1>3. ASSUME NEW g \in Minted, NEW now \in Readings, Authorize(g, now)
      PROVE  UsesInWindow'
    <2> DEFINE u == [n |-> Cardinality(uses), grant |-> g, at |-> now,
                     boot |-> boot, from |-> started]
    <2>1. issued' = issued /\ (uses' = uses \/ uses' = uses \cup {u})
        BY <1>3 DEF Authorize
    <2>2. CASE uses' = uses
        BY <2>1, <2>2 DEF UsesInWindow
    <2>3. CASE uses' # uses
        <3>1. verdict' = "accepted" /\ uses' = uses \cup {u}
            BY <1>3, <2>3 DEF Authorize
        <3>2. ~ (issued[g] < started) /\ ~ NotYetValid(g, now)
            BY <1>3, <3>1 DEF Authorize, Consume, Verified
        <3>3. /\ now \in Nat /\ issued[g] \in Nat /\ started \in Nat /\ issued[g] # NotMinted
              /\ clock \in Nat /\ clock <= now
            BY ReadingTypes DEF TypeOK, Minted, Readings
        <3>4. issued[g] <= now + Lead
            <4>1. CASE InStep
                BY <3>3, <4>1 DEF StampedInPast
            <4>2. CASE ~ InStep
                BY <3>2, <3>3, <4>2 DEF NotYetValid
            <4> QED
                BY <4>1, <4>2
        <3>5. u.from <= issued[u.grant] /\ issued[u.grant] <= u.at + Lead
            BY <3>2, <3>3, <3>4
        <3> QED
            BY <2>1, <3>1, <3>3, <3>5 DEF UsesInWindow
    <2> QED
        BY <2>2, <2>3
<1> QED
    BY <1>1, <1>2, <1>3 DEF Next, Step, Tick, StepBack, Restart, Refuse, vars

\* Two uses of one grant within their windows are as close as the tolerance allows.
LEMMA WindowBoundsReuse == TInv /\ UsesInWindow => ReuseWindow
<1> SUFFICES ASSUME TInv, UsesInWindow,
                    NEW u \in uses, NEW v \in uses, u.grant = v.grant
             PROVE  v.from <= u.at + Lead
    BY DEF ReuseWindow
<1>1. v.from \in Nat /\ u.at \in Nat /\ issued[u.grant] \in Nat
    BY ConstantTypes DEF TInv, TypeOK, Use, NotMinted
<1> QED
    BY <1>1, LeadType DEF UsesInWindow

\* Whatever the clocks do, a grant used before a restart is accepted after it only if
\* the new process started at most MaxSkew seconds after that use; and only if it
\* started in the second of that use, when the clocks run in step.
THEOREM ReuseIsBounded == Spec => []ReuseWindow
<1>1. Init => TInv /\ StampedInPast /\ UsesInWindow
    <2> SUFFICES ASSUME Init PROVE StampedInPast /\ UsesInWindow
        BY InitT
    <2>1. Minted = {} /\ uses = {}
        BY DEF Init, Minted
    <2>2. InStep => ahead <= 0
        <3>1. ahead \in Int
            BY GrantAssumption DEF Init
        <3> QED
            BY <3>1 DEF Init, InStep
    <2> QED
        BY <2>1, <2>2 DEF StampedInPast, UsesInWindow
<1>2. TInv /\ StampedInPast /\ UsesInWindow /\ [Next]_vars
        => (TInv /\ StampedInPast /\ UsesInWindow)'
    BY NextT, NextStamped, NextWindow
<1> QED
    BY <1>1, <1>2, WindowBoundsReuse, PTL DEF Spec

-----------------------------------------------------------------------------
(* One process: the cache remembers as long as the clock is not set back *)

\* What makes single use inductive: the cache holds every live grant that this
\* process accepted, and no use is attributed to a process still to come.
OnceInv ==
    /\ UsedOnce
    /\ Remembers
    /\ \A u \in uses : u.boot <= boot /\ issued[u.grant] # NotMinted

\* With a clock that is never set back, every step keeps single use.
LEMMA NextOnce ==
    ASSUME Monotonic, TInv, OnceInv, [Next]_vars
    PROVE  OnceInv'
<1> USE ConstantTypes DEF TInv
<1>1. CASE Tick
    <2>1. UNCHANGED <<issued, boot, entries, uses>> /\ clock' = clock + 1
        BY <1>1 DEF Tick
    <2>2. \A u \in uses : issued[u.grant] \in Nat
        BY DEF TypeOK, Use, NotMinted
    <2> QED
        BY <2>1, <2>2 DEF OnceInv, UsedOnce, Remembers, Expires, TypeOK
<1>2. ASSUME NEW g \in Grants, Mint(g) PROVE OnceInv'
    <2>1. UNCHANGED <<clock, boot, entries, uses>> /\ issued[g] = NotMinted
        BY <1>2 DEF Mint, Minted
    <2>2. \A u \in uses : u.grant # g /\ issued'[u.grant] = issued[u.grant]
        BY <1>2, <2>1 DEF Mint, OnceInv, TypeOK, Use
    <2> QED
        BY <2>1, <2>2 DEF OnceInv, UsedOnce, Remembers, Expires
<1>3. ASSUME NEW now \in Readings, Restart(now) PROVE OnceInv'
    <2>1. /\ UNCHANGED <<clock, issued, uses>>
          /\ boot' = boot + 1 /\ entries' = {} /\ boot \in Nat
        BY <1>3 DEF Restart, TypeOK
    <2>2. Cardinality({}) = 0
        BY FS_EmptySet
    <2>3. \A u \in uses : u.boot \in Nat /\ u.boot < boot + 1
        BY <2>1 DEF OnceInv, TypeOK, Use
    <2>4. Remembers'
        BY <2>1, <2>2, <2>3 DEF Remembers
    <2> QED
        BY <2>1, <2>3, <2>4 DEF OnceInv, UsedOnce
<1>4. ASSUME NEW g \in Minted, NEW now \in Readings, Refuse(g, now) PROVE OnceInv'
    BY <1>4 DEF Refuse, OnceInv, UsedOnce, Remembers, Expires
<1>5. ASSUME NEW g \in Minted, NEW now \in Readings, Authorize(g, now)
      PROVE  OnceInv'
    <2> DEFINE kept == Pruned(now)
               u == [n |-> Cardinality(uses), grant |-> g, at |-> now,
                     boot |-> boot, from |-> started]
    <2>1. UNCHANGED <<clock, ahead, issued, boot, started>>
        BY <1>5 DEF Authorize
    <2>2. now = clock
        \* A broken clock reads past every expiry, so verification refuses.
        <3>1. now < Expires(g)
            BY <1>5 DEF Authorize, Verified
        <3>2. issued[g] \in 0..(Forever - Ttl)
            BY DEF TypeOK, Minted
        <3> QED
            BY <3>1, <3>2 DEF Readings, Expires
    <2>3. kept \subseteq entries /\ IsFiniteSet(kept) /\ IsFiniteSet(entries)
        BY PrunedSubset, FS_Subset DEF FiniteInv
    <2>4. Cardinality(kept) <= Cardinality(entries)
        BY <2>3, FS_Subset
    <2>5. \A v \in uses : v.boot = boot /\ clock < Expires(v.grant) => v.grant \in kept
        BY <2>2 DEF OnceInv, Remembers, Pruned
    <2>6. CASE verdict' # "accepted"
        <3>1. entries' = kept /\ uses' = uses
            BY <1>5, <2>6 DEF Authorize
        <3>2. Remembers'
            <4>1. Cardinality(kept) \in Nat /\ Cardinality(entries) \in Nat
                BY <2>3, FS_CardinalityType
            <4> HIDE DEF kept
            <4> QED
                BY <2>1, <2>4, <2>5, <3>1, <4>1 DEF OnceInv, Remembers, Expires
        <3> QED
            BY <2>1, <3>1, <3>2 DEF OnceInv, UsedOnce
    <2>7. CASE verdict' = "accepted"
        <3>1. entries' = kept \cup {g} /\ uses' = uses \cup {u}
            BY <1>5, <2>7 DEF Authorize
        <3>2. g \notin kept /\ ~ (Cardinality(kept) >= Capacity) /\ clock < Expires(g)
            BY <1>5, <2>2, <2>7 DEF Authorize, Consume, Verified
        <3>3. Cardinality(kept \cup {g}) <= Capacity
            <4>1. Cardinality(kept) \in Nat
                BY <2>3, FS_CardinalityType
            <4>2. Cardinality(kept \cup {g}) = Cardinality(kept) + 1
                BY Zenon, <2>3, <3>2, FS_AddElement
            <4> HIDE DEF kept
            <4> QED
                BY <3>2, <4>1, <4>2
        <3>4. u.grant = g /\ u.boot = boot /\ issued[g] # NotMinted /\ boot \in Nat
            BY DEF Minted, TypeOK
        <3>5. \A v \in uses : ~ (v.grant = g /\ v.boot = boot)
            BY <2>5, <3>2
        <3> HIDE DEF kept, u
        <3>6. Remembers'
            BY <2>1, <2>5, <3>1, <3>3, <3>4 DEF Remembers, Expires
        <3>7. UsedOnce'
            BY <3>1, <3>4, <3>5 DEF OnceInv, UsedOnce
        <3> QED
            BY <2>1, <3>1, <3>4, <3>6, <3>7 DEF OnceInv
    <2> QED
        BY <2>6, <2>7
<1>6. CASE UNCHANGED vars
    BY <1>6 DEF vars, OnceInv, UsedOnce, Remembers, Expires
<1> QED
    BY <1>1, <1>2, <1>3, <1>4, <1>5, <1>6 DEF Next, Step, Monotonic, StepBack

\* No grant has been used at the start.
LEMMA InitOnce == Init => OnceInv
<1>1. Cardinality({}) = 0
    BY FS_EmptySet
<1> QED
    BY <1>1, ConstantTypes DEF Init, OnceInv, UsedOnce, Remembers

\* Single use and the complete cache hold throughout, if the clock is never set back.
LEMMA OnceInvariant == Spec => [](Monotonic => OnceInv)
<1>1. Init => TInv /\ (Monotonic => OnceInv)
    BY InitT, InitOnce
<1>2. TInv /\ (Monotonic => OnceInv) /\ [Next]_vars => (TInv /\ (Monotonic => OnceInv))'
    <2>1. Monotonic' /\ [Next]_vars => Monotonic
        BY DEF Monotonic, Next, vars
    <2> QED
        BY <2>1, NextT, NextOnce
<1> QED
    BY <1>1, <1>2, PTL DEF Spec

\* As long as the wall clock is not set back, one process accepts a grant once.
THEOREM SingleUse == Spec => []OncePerProcess
<1>1. (Monotonic => OnceInv) => OncePerProcess
    BY DEF OnceInv, OncePerProcess
<1> QED
    BY <1>1, OnceInvariant, PTL

\* The cache stays within its capacity and forgets no live grant it accepted.
THEOREM CacheIsComplete == Spec => []CacheRemembers
<1>1. (Monotonic => OnceInv) => CacheRemembers
    BY DEF OnceInv, CacheRemembers
<1> QED
    BY <1>1, OnceInvariant, PTL

\* A tunnel is refused for lack of room only while Capacity live grants fill the cache,
\* whatever the clocks do: consume prunes before it counts.
THEOREM RoomIsForLiveGrants == Spec => CapacityMeansLive
<1>1. ASSUME TypeOK, [Next]_vars
      PROVE  [verdict' = "capacity" =>
                Cardinality({g \in entries : clock < Expires(g)}) >= Capacity]_vars
    <2> SUFFICES ASSUME Next, verdict' = "capacity"
                 PROVE  Cardinality({g \in entries : clock < Expires(g)}) >= Capacity
        BY <1>1
    <2>1. PICK g \in Minted, now \in Readings : Authorize(g, now)
        BY DEF Next, Step, Tick, StepBack, Mint, Restart, Refuse
    <2>2. Cardinality(Pruned(now)) >= Capacity /\ now < Expires(g)
        BY <2>1 DEF Authorize, Consume, Verified
    <2>3. now = clock
        \* A broken clock reads past every expiry, so verification refuses.
        <3>1. issued[g] \in 0..(Forever - Ttl)
            BY <1>1 DEF TypeOK, Minted
        <3> QED
            BY <2>2, <3>1, ConstantTypes DEF Readings, Expires
    <2>4. Pruned(now) = {h \in entries : clock < Expires(h)}
        <3>1. \A h \in entries : Expires(h) \in Int /\ clock \in Int
            BY <1>1, ConstantTypes DEF TypeOK, Minted, Expires, NotMinted
        <3> QED
            BY <2>3, <3>1 DEF Pruned
    <2> QED
        BY <2>2, <2>4
<1> QED
    BY <1>1, GrantTypes, PTL DEF Spec, CapacityMeansLive
-----------------------------------------------------------------------------
\* The durable sets, with a capacity of their own.
CONSTANTS Keys, Tags, Retentions, MaxEntries, Failing
VARIABLES proc, seen, handle, image, doing, entry, keep, answer, grants

Set == INSTANCE DurableSet WITH Capacity <- MaxEntries, Faults <- Failing

\* A new file has no records.
LEMMA NoRecords == Set!Unambiguous({}) /\ Set!Cardinality({}) = 0
BY FS_EmptySet DEF Set!Unambiguous, Set!IsFiniteSet, IsFiniteSet, Set!Cardinality, Cardinality

\* What a compaction keeps is no more than there was, and still names no key twice.
LEMMA FewerRecords ==
    ASSUME NEW S, NEW T \in SUBSET S, Set!Unambiguous(S)
    PROVE  /\ Set!Unambiguous(T)
           /\ Set!Cardinality(S) \in Nat /\ Set!Cardinality(T) \in Nat
           /\ Set!Cardinality(T) <= Set!Cardinality(S)
<1>1. IsFiniteSet(S)
    BY Zenon DEF Set!Unambiguous, Set!IsFiniteSet, IsFiniteSet
<1>2. IsFiniteSet(T) /\ Cardinality(T) <= Cardinality(S)
    BY <1>1, FS_Subset
<1>3. Cardinality(S) \in Nat /\ Cardinality(T) \in Nat
    BY <1>1, <1>2, FS_CardinalityType
<1>4. Set!Cardinality(S) = Cardinality(S) /\ Set!Cardinality(T) = Cardinality(T)
    BY Zenon DEF Set!Cardinality, Cardinality
<1>5. Set!IsFiniteSet(T)
    BY Zenon, <1>2 DEF Set!IsFiniteSet, IsFiniteSet
<1> QED
    BY <1>2, <1>3, <1>4, <1>5 DEF Set!Unambiguous

\* insert adds one record, of a key that has none.
LEMMA OneMoreRecord ==
    ASSUME NEW S, NEW e, Set!Unambiguous(S), e.key \notin Set!KeysOf(S)
    PROVE  /\ Set!Unambiguous(S \cup {e})
           /\ Set!Cardinality(S) \in Nat /\ Set!Cardinality(S \cup {e}) = Set!Cardinality(S) + 1
<1>1. IsFiniteSet(S) /\ e \notin S
    BY Zenon DEF Set!Unambiguous, Set!KeysOf, Set!IsFiniteSet, IsFiniteSet
<1>2. IsFiniteSet(S \cup {e}) /\ Cardinality(S \cup {e}) = Cardinality(S) + 1
    BY <1>1, FS_AddElement
<1>3. Cardinality(S) \in Nat
    BY <1>1, FS_CardinalityType
<1>4. Set!Cardinality(S) = Cardinality(S) /\ Set!Cardinality(S \cup {e}) = Cardinality(S \cup {e})
    BY Zenon DEF Set!Cardinality, Cardinality
<1>5. Set!IsFiniteSet(S \cup {e})
    BY Zenon, <1>2 DEF Set!IsFiniteSet, IsFiniteSet
<1> QED
    BY <1>2, <1>3, <1>4, <1>5 DEF Set!Unambiguous, Set!KeysOf

\* The parts of the type invariant outside the file.
MemoryTypes ==
    /\ proc \in {"up", "down"} /\ handle \in {"open", "none"}
    /\ seen \subseteq Set!Entries
    /\ doing \in {"nothing", "append", "compact"}
    /\ proc = "down" => doing = "nothing" /\ handle = "none"
    /\ doing = "append" => entry \in Set!Entries
    /\ keep \subseteq Tags
    /\ answer \in {"none", "AlreadyPresent", "CapacityReached", "Err", "Inserted", "Dropped"}
    /\ grants \in [Keys -> Nat]

\* A content a crash may leave: it has every promised key, once, and fits.
Sound(c) ==
    /\ c \in Set!Contents /\ c.tail # "glued"
    /\ Set!Accepted \subseteq Set!KeysOf(c.lines)
    /\ Set!Unambiguous(c.lines) /\ Set!Cardinality(c.lines) <= MaxEntries

\* SetInv, told content by content.
ContentInv ==
    /\ MemoryTypes
    /\ image = [cached |-> image.cached, synced |-> image.synced, stale |-> image.stale]
    /\ \A c \in Set!Survivors(image) : Sound(c)
    /\ Set!AcceptedOnce /\ Set!MemoryMatchesFile /\ Set!CallsFit /\ Set!AppendsAreSafe
    /\ Set!Unambiguous(seen) /\ Set!Cardinality(seen) <= MaxEntries

\* It says what SetInv says.
LEMMA ContentInvSuffices == Set!SetAssumption /\ ContentInv => Set!SetInv
<1> SUFFICES ASSUME Set!SetAssumption, ContentInv PROVE Set!SetInv
    OBVIOUS
<1>1. \A c \in Set!Survivors(image) : Sound(c)
    BY DEF ContentInv
<1>2. Set!TypeOK
  <2>1. image \in Set!FileImages(Set!Contents)
      BY <1>1 DEF ContentInv, Sound, Set!Survivors, Set!FileImages
  <2> QED
      BY <2>1 DEF ContentInv, MemoryTypes, Set!TypeOK
<1>3. Set!AcceptedIsKept /\ Set!OnlyTearsBlockStart
    BY Zenon, <1>1 DEF Sound, Set!AcceptedIsKept, Set!OnlyTearsBlockStart, Set!Loads, Set!Unambiguous
<1>4. Set!WithinCapacity /\ Set!ContentsAreSets
    BY <1>1 DEF ContentInv, Sound, Set!WithinCapacity, Set!ContentsAreSets
<1> QED
    BY <1>2, <1>3, <1>4 DEF ContentInv, Set!SetInv

\* A new file is empty.
LEMMA InitSet == Set!SetAssumption /\ Set!Init => ContentInv
<1> SUFFICES ASSUME Set!SetAssumption, Set!Init PROVE ContentInv
    OBVIOUS
<1>1. Set!Unambiguous({}) /\ Set!Cardinality({}) <= MaxEntries
    BY NoRecords DEF Set!SetAssumption
<1>2. Set!Accepted = {}
    BY DEF Set!Accepted, Set!Init
<1>3. Sound(Set!NoLines)
    BY <1>1, <1>2 DEF Sound, Set!NoLines, Set!Contents
<1>4. image = [cached |-> Set!NoLines, synced |-> Set!NoLines, stale |-> {}]
    BY DEF Set!Init, Set!Settled
<1>5. \A c \in Set!Survivors(image) : Sound(c)
    BY <1>3, <1>4 DEF Set!Survivors
<1>6. MemoryTypes
    BY DEF MemoryTypes, Set!Init
<1>7. Set!AcceptedOnce /\ Set!MemoryMatchesFile /\ Set!CallsFit /\ Set!AppendsAreSafe
    BY <1>4 DEF Set!Init, Set!AcceptedOnce, Set!MemoryMatchesFile, Set!CallsFit, Set!AppendsAreSafe
<1> QED
    BY <1>1, <1>4, <1>5, <1>6, <1>7 DEF ContentInv, Set!Init

\* A content stays sound while no further key is promised.
LEMMA SoundStays ==
    ASSUME NEW c, Sound(c), Set!Accepted' \subseteq Set!Accepted
    PROVE  Sound(c)'
BY Zenon DEF Sound

\* A file call adds at most one content to those a crash may leave.
LEMMA DiskStep ==
    ASSUME ContentInv, NEW c, Sound(c)', Set!Accepted' \subseteq Set!Accepted,
           Set!Survivors(image') \subseteq Set!Survivors(image) \cup {c}
    PROVE  \A d \in Set!Survivors(image') : Sound(d)'
BY Zenon, SoundStays DEF ContentInv

\* What each file call makes of the image.
LEMMA FileCalls ==
    ASSUME ContentInv, NEW c
    PROVE  /\ Set!Written(image, c) = [cached |-> c, synced |-> image.synced, stale |-> image.stale]
           /\ Set!Synced(image) = [cached |-> image.cached, synced |-> image.cached, stale |-> image.stale]
           /\ Set!NameSynced(image) = [cached |-> image.cached, synced |-> image.synced, stale |-> {}]
           /\ Set!Replaced(image, c) =
                  [cached |-> c, synced |-> c, stale |-> image.stale \cup {image.cached, image.synced}]
           /\ Set!Settled(c) = [cached |-> c, synced |-> c, stale |-> {}]
           /\ Set!Survivors(image) = {image.cached, image.synced} \cup image.stale
BY DEF ContentInv, Set!Written, Set!Synced, Set!NameSynced, Set!Replaced, Set!Settled, Set!Survivors

\* An insertion finds the file as the memory has it.
LEMMA AdmittedFile ==
    ASSUME ContentInv, NEW k, Set!Admits(k)
    PROVE  /\ proc = "up" /\ doing = "nothing" /\ handle = "open"
           /\ k \notin Set!KeysOf(seen) /\ Set!Cardinality(seen) < MaxEntries
           /\ image.cached = [lines |-> seen, tail |-> "whole"] /\ image.synced.tail = "whole"
           /\ image.stale = {} /\ Sound(image.cached) /\ Sound(image.synced)
<1>1. /\ proc = "up" /\ doing = "nothing" /\ handle = "open"
      /\ k \notin Set!KeysOf(seen) /\ Set!Cardinality(seen) < MaxEntries
    BY Zenon DEF Set!Admits, Set!Idle
<1>2. image.cached = [lines |-> seen, tail |-> "whole"] /\ image.stale = {}
    BY Zenon, <1>1 DEF ContentInv, Set!MemoryMatchesFile, Set!AppendsAreSafe
<1>3. image.synced.tail = "whole"
    BY <1>2 DEF ContentInv, Set!AppendsAreSafe
<1>4. Sound(image.cached) /\ Sound(image.synced)
    BY FileCalls DEF ContentInv
<1> QED
    BY Zenon, <1>1, <1>2, <1>3, <1>4

\* A refusal touches nothing but the answer.
LEMMA RefuseSet ==
    ASSUME ContentInv, NEW k \in Keys, Set!Refuse(k)
    PROVE  ContentInv'
<1>1. /\ UNCHANGED <<proc, seen, handle, image, doing, entry, keep, grants>>
      /\ answer' \in {"AlreadyPresent", "CapacityReached", "Err"}
    BY Zenon DEF Set!Refuse, Set!Answer, Set!Idle
<1>2. MemoryTypes'
    BY Zenon, <1>1 DEF ContentInv, MemoryTypes
<1>3. Set!Accepted' = Set!Accepted
    BY Zenon, <1>1 DEF Set!Accepted
<1>4. \A c \in Set!Survivors(image') : Sound(c)'
    BY Zenon, <1>1, <1>3, SoundStays DEF ContentInv
<1>5. Set!AcceptedOnce' /\ Set!MemoryMatchesFile' /\ Set!CallsFit' /\ Set!AppendsAreSafe'
    BY Zenon, <1>1, <1>3 DEF ContentInv, Set!AcceptedOnce, Set!MemoryMatchesFile, Set!CallsFit,
        Set!AppendsAreSafe, Set!Kept
<1> QED
    BY Zenon, <1>1, <1>2, <1>4, <1>5 DEF ContentInv

\* insert writes the record of a new key behind complete ones.
LEMMA AppendSet ==
    ASSUME Set!SetAssumption, ContentInv, NEW e \in Set!Entries, Set!Append(e)
    PROVE  ContentInv'
<1>0. PICK c : c = [lines |-> seen \cup {e}, tail |-> "whole"]
    BY Zenon
<1>1. /\ entry' = e /\ doing' = "append" /\ UNCHANGED <<proc, seen, handle, keep, answer, grants>>
      /\ image' = Set!Written(image, Set!Appended(image.cached, e)) /\ Set!Admits(e.key)
    BY Zenon DEF Set!Append
<1>2. /\ proc = "up" /\ handle = "open"
      /\ e.key \notin Set!KeysOf(seen) /\ Set!Cardinality(seen) < MaxEntries
      /\ image.cached = [lines |-> seen, tail |-> "whole"] /\ image.synced.tail = "whole"
      /\ image.stale = {} /\ Sound(image.cached)
    BY Zenon, <1>1, AdmittedFile
<1>3. Set!Appended(image.cached, e) = c
    BY SMTT(30), <1>0, <1>2 DEF Set!Appended
<1>4. image' = [cached |-> c, synced |-> image.synced, stale |-> {}]
    BY Zenon, <1>1, <1>2, <1>3, FileCalls
<1>5. Set!Accepted' = Set!Accepted
    BY Zenon, <1>1 DEF Set!Accepted
<1>6. Set!Unambiguous(seen) /\ seen \in SUBSET Set!Entries /\ MaxEntries \in Nat
    BY Zenon DEF ContentInv, MemoryTypes, Set!SetAssumption
<1>7. Set!Unambiguous(seen \cup {e}) /\ Set!Cardinality(seen \cup {e}) <= MaxEntries
    BY <1>2, <1>6, OneMoreRecord
<1>8. Sound(c)'
  <2>1. Set!Accepted \subseteq Set!KeysOf(seen)
      BY Zenon, <1>2 DEF ContentInv, Set!MemoryMatchesFile
  <2>2. Set!Accepted' \subseteq Set!KeysOf(seen \cup {e})
      BY Zenon, <1>5, <2>1 DEF Set!KeysOf
  <2>3. c \in Set!Contents /\ c.lines = seen \cup {e} /\ c.tail # "glued"
      BY <1>0, <1>6 DEF Set!Contents
  <2> QED
      BY Zenon, <1>7, <2>2, <2>3 DEF Sound
<1>9. Set!Survivors(image') \subseteq Set!Survivors(image) \cup {c}
    BY <1>4 DEF Set!Survivors
<1>10. \A d \in Set!Survivors(image') : Sound(d)'
    BY Zenon, <1>5, <1>8, <1>9, DiskStep
<1>11. MemoryTypes'
    BY Zenon, <1>1, <1>2 DEF ContentInv, MemoryTypes
<1>12. Set!AcceptedOnce' /\ Set!MemoryMatchesFile'
    BY ZenonT(40), <1>1, <1>5 DEF ContentInv, Set!AcceptedOnce, Set!MemoryMatchesFile
<1>13. Set!CallsFit' /\ Set!AppendsAreSafe'
  <2>1. image'.cached = c /\ image'.synced = image.synced /\ image'.stale = {}
      BY Zenon, <1>4
  <2>2. Set!CallsFit'
      BY ZenonT(40), <1>0, <1>1, <1>2, <2>1 DEF Set!CallsFit
  <2> QED
      BY Zenon, <1>2, <2>1, <2>2 DEF Set!AppendsAreSafe
<1> QED
    BY <1>1, <1>4, <1>10, <1>11, <1>12, <1>13 DEF ContentInv

\* A record torn off behind complete ones leaves those as they were.
LEMMA TornIsSound ==
    ASSUME NEW c, Sound(c), c.tail = "whole"
    PROVE  Sound(Set!Torn(c))
<1>1. c = [lines |-> c.lines, tail |-> c.tail] /\ c.lines \in SUBSET Set!Entries
    BY DEF Sound, Set!Contents
<1>2. Set!Torn(c) = [lines |-> c.lines, tail |-> "torn"]
    BY <1>1 DEF Set!Torn
<1>3. Set!Torn(c) \in Set!Contents /\ Set!Torn(c).lines = c.lines /\ Set!Torn(c).tail # "glued"
    BY <1>1, <1>2 DEF Set!Contents
<1> QED
    BY Zenon, <1>3 DEF Sound

\* append_record's error path: whatever is in the page cache, nothing is appended to it.
LEMMA FailSet ==
    ASSUME ContentInv, proc = "up", NEW c, Sound(c), c = image.cached \/ image.synced.tail = "whole",
           Set!Fail(c)
    PROVE  ContentInv'
<1>1. /\ handle' = "none" /\ doing' = "nothing" /\ answer' = "Err"
      /\ UNCHANGED <<proc, seen, entry, keep, grants>>
      /\ image' = [cached |-> c, synced |-> image.synced, stale |-> image.stale]
    BY FileCalls DEF Set!Fail, Set!Answer
<1>2. Set!Accepted' = Set!Accepted
    BY ZenonT(40), <1>1 DEF Set!Accepted
<1>3. Set!Survivors(image') \subseteq Set!Survivors(image) \cup {c}
    BY <1>1 DEF Set!Survivors
<1>4. \A d \in Set!Survivors(image') : Sound(d)'
    BY Zenon, <1>2, <1>3, SoundStays, DiskStep
<1>5. MemoryTypes'
    BY Zenon, <1>1 DEF ContentInv, MemoryTypes
<1>6. Set!AcceptedOnce' /\ Set!MemoryMatchesFile' /\ Set!CallsFit'
    BY Zenon, <1>1, <1>2 DEF ContentInv, Set!AcceptedOnce, Set!MemoryMatchesFile, Set!CallsFit
<1>7. Set!AppendsAreSafe'
    BY <1>1 DEF ContentInv, Set!AppendsAreSafe
<1> QED
    BY SMTT(30), <1>1, <1>4, <1>5, <1>6, <1>7 DEF ContentInv

\* A write, an fsync or a temporary file fails.
LEMMA FailuresSet ==
    ASSUME ContentInv,
           \/ \E e \in Set!Entries : Set!AppendFails(e)
           \/ Set!FsyncFails
           \/ \E kept \in Retentions : Set!CompactFails(kept)
    PROVE  ContentInv'
<1>1. Sound(image.cached)
    BY FileCalls DEF ContentInv
<1>2. ASSUME NEW e \in Set!Entries, Set!AppendFails(e) PROVE ContentInv'
  <2>1. Set!Admits(e.key)
      BY Zenon, <1>2 DEF Set!AppendFails
  <2>2. proc = "up" /\ image.cached.tail = "whole" /\ image.synced.tail = "whole"
      BY <2>1, AdmittedFile
  <2>3. PICK c \in {image.cached, Set!Torn(image.cached)} : Set!Fail(c)
      BY Zenon, <1>2 DEF Set!AppendFails
  <2>4. Sound(c)
      BY Zenon, <1>1, <2>2, <2>3, TornIsSound
  <2> QED
      BY Zenon, <2>2, <2>3, <2>4, FailSet
<1>3. ASSUME Set!Fail(image.cached), proc = "up" PROVE ContentInv'
  <2>1. PICK c : c = image.cached
      BY Zenon
  <2> QED
      BY Zenon, <1>1, <1>3, <2>1, FailSet
<1>4. Set!FsyncFails => Set!Fail(image.cached) /\ proc = "up"
    BY DEF Set!FsyncFails, ContentInv, MemoryTypes
<1>5. \A kept \in Retentions : Set!CompactFails(kept) => Set!Fail(image.cached) /\ proc = "up"
    BY Zenon DEF Set!CompactFails, Set!Idle
<1> QED
    BY Zenon, <1>2, <1>3, <1>4, <1>5

\* The record is on the medium before the memory has it; its key was not promised.
LEMMA AcceptSet ==
    ASSUME Set!SetAssumption, ContentInv, Set!Accept
    PROVE  ContentInv'
<1>0. PICK c : c = image.cached
    BY Zenon
<1>1. /\ doing = "append" /\ doing' = "nothing" /\ answer' = "Inserted" /\ seen' = seen \cup {entry}
      /\ grants' = [grants EXCEPT ![entry.key] = @ + 1] /\ UNCHANGED <<proc, handle, entry, keep>>
      /\ image' = Set!Synced(image)
    BY Zenon DEF Set!Accept, Set!Answer
<1>2. /\ handle = "open" /\ proc = "up" /\ c = [lines |-> seen \cup {entry}, tail |-> "whole"]
      /\ entry.key \notin Set!KeysOf(seen) /\ Set!Cardinality(seen) < MaxEntries /\ image.stale = {}
      /\ entry \in Set!Entries /\ Sound(c) /\ Set!Accepted \subseteq Set!KeysOf(seen)
  <2>1. handle = "open" /\ proc = "up" /\ entry \in Set!Entries
      BY <1>1 DEF ContentInv, MemoryTypes, Set!CallsFit
  <2>2. Sound(c) /\ Set!Accepted \subseteq Set!KeysOf(seen) /\ image.stale = {}
      BY ZenonT(40), <1>0, <2>1, FileCalls DEF ContentInv, Set!MemoryMatchesFile, Set!AppendsAreSafe
  <2> QED
      BY Zenon, <1>0, <1>1, <2>1, <2>2 DEF ContentInv, Set!CallsFit
<1>3. image' = [cached |-> c, synced |-> c, stale |-> {}]
    BY <1>0, <1>1, <1>2, FileCalls
<1>4. entry.key \in Keys /\ grants \in [Keys -> Nat]
    BY <1>2 DEF Set!Entries, ContentInv, MemoryTypes
<1>5. grants[entry.key] = 0
    BY <1>2, <1>4 DEF Set!Accepted
<1>6. grants' \in [Keys -> Nat] /\ Set!AcceptedOnce' /\ Set!Accepted' = Set!Accepted \cup {entry.key}
    BY <1>1, <1>4, <1>5 DEF Set!Accepted, Set!AcceptedOnce, ContentInv
<1>7. Set!Accepted' \subseteq Set!KeysOf(seen \cup {entry})
    BY Zenon, <1>2, <1>6 DEF Set!KeysOf
<1>8. Sound(c)'
    BY ZenonT(40), <1>2, <1>7 DEF Sound
<1>9. \A d \in Set!Survivors(image') : Sound(d)'
    BY <1>3, <1>8 DEF Set!Survivors
<1>10. MemoryTypes'
    BY SMTT(30), <1>1, <1>2, <1>6 DEF ContentInv, MemoryTypes
<1>11. Set!MemoryMatchesFile' /\ Set!CallsFit' /\ Set!AppendsAreSafe'
  <2>1. image'.cached = c /\ image'.synced = c /\ image'.stale = {}
      BY Zenon, <1>3
  <2>2. Set!MemoryMatchesFile'
      BY ZenonT(40), <1>1, <1>2, <1>7, <2>1 DEF Set!MemoryMatchesFile
  <2> QED
      BY Zenon, <1>1, <2>1, <2>2 DEF Set!CallsFit, Set!AppendsAreSafe
<1>12. Set!Unambiguous(seen)' /\ Set!Cardinality(seen)' <= MaxEntries
    BY <1>1, <1>2 DEF Sound
<1> QED
    BY <1>3, <1>6, <1>9, <1>10, <1>11, <1>12 DEF ContentInv

\* The survivors go to a new file; what is dropped is no longer promised.
LEMMA CompactSet ==
    ASSUME Set!SetAssumption, ContentInv, NEW kept \in Retentions, Set!Compact(kept)
    PROVE  ContentInv'
<1>0. PICK c : c = [lines |-> Set!Kept(kept), tail |-> "whole"]
    BY Zenon
<1>1. /\ proc = "up" /\ handle' = "none" /\ keep' = kept /\ doing' = "compact"
      /\ grants' = Set!Released(seen \ Set!Kept(kept)) /\ UNCHANGED <<proc, seen, entry, answer>>
      /\ image' = Set!Replaced(image, c)
    BY Zenon, <1>0 DEF Set!Compact, Set!Idle
<1>2. image' = [cached |-> c, synced |-> c, stale |-> image.stale \cup {image.cached, image.synced}]
    BY Zenon, <1>1, FileCalls
<1>3. /\ Set!Accepted \subseteq Set!KeysOf(seen) /\ Set!Unambiguous(seen) /\ seen \subseteq Set!Entries
      /\ Set!Cardinality(seen) <= MaxEntries /\ grants \in [Keys -> Nat] /\ MaxEntries \in Nat
      /\ Set!AcceptedOnce
    BY Zenon, <1>1 DEF ContentInv, MemoryTypes, Set!MemoryMatchesFile, Set!SetAssumption
<1>4. Set!Kept(kept) \in SUBSET seen
    BY Zenon DEF Set!Kept
<1>5. grants' \in [Keys -> Nat] /\ Set!AcceptedOnce'
    BY <1>1, <1>3 DEF Set!Released, Set!AcceptedOnce
<1>6. Set!Accepted' \subseteq Set!Accepted /\ Set!Accepted' \cap Set!KeysOf(seen \ Set!Kept(kept)) = {}
    BY <1>1, <1>3 DEF Set!Released, Set!Accepted
<1>7. Set!Accepted' \subseteq Set!KeysOf(Set!Kept(kept))
    BY Zenon, <1>3, <1>6 DEF Set!KeysOf
<1>8. Set!Unambiguous(Set!Kept(kept)) /\ Set!Cardinality(Set!Kept(kept)) <= MaxEntries
    BY <1>3, <1>4, FewerRecords
<1>9. Sound(c)'
    BY <1>0, <1>3, <1>4, <1>7, <1>8 DEF Sound, Set!Contents
<1>10. \A d \in Set!Survivors(image') : Sound(d)'
  <2>1. Set!Survivors(image') \subseteq Set!Survivors(image) \cup {c}
      BY <1>2 DEF Set!Survivors
  <2> QED
      BY Zenon, <1>6, <1>9, <2>1, DiskStep
<1>11. MemoryTypes'
    BY ZenonT(40), <1>1, <1>3, <1>5 DEF ContentInv, MemoryTypes, Set!SetAssumption
<1>12. Set!MemoryMatchesFile' /\ Set!AppendsAreSafe'
    BY SMTT(30), <1>1, <1>2, <1>3, <1>6 DEF Set!MemoryMatchesFile, Set!AppendsAreSafe
<1>13. Set!CallsFit'
  <2>1. Set!Kept(keep)' = Set!Kept(kept)
      BY Zenon, <1>1 DEF Set!Kept
  <2> QED
      BY <1>0, <1>1, <1>2, <1>7, <2>1 DEF Set!CallsFit
<1> QED
    BY Zenon, <1>1, <1>2, <1>3, <1>5, <1>10, <1>11, <1>12, <1>13 DEF ContentInv

\* The memory follows a compacted file only once its name is on the medium.
LEMMA CommitSet ==
    ASSUME Set!SetAssumption, ContentInv, Set!Commit \/ Set!CommitFails
    PROVE  ContentInv'
<1>1. /\ doing = "compact" /\ proc = "up" /\ handle = "none" /\ doing' = "nothing"
      /\ image.cached = [lines |-> Set!Kept(keep), tail |-> "whole"]
      /\ Set!Accepted \subseteq Set!KeysOf(Set!Kept(keep))
      /\ UNCHANGED <<proc, entry, keep, grants>>
    BY DEF Set!Commit, Set!CommitFails, Set!Answer, ContentInv, MemoryTypes, Set!CallsFit
<1>2. Set!Accepted' = Set!Accepted
    BY Zenon, <1>1 DEF Set!Accepted
<1>3. image' \in {image, [cached |-> image.cached, synced |-> image.synced, stale |-> {}]}
    BY FileCalls DEF Set!Commit, Set!CommitFails
<1>4. image' = [cached |-> image'.cached, synced |-> image'.synced, stale |-> image'.stale]
    BY <1>3 DEF ContentInv
<1>5. \A d \in Set!Survivors(image') : Sound(d)'
  <2>1. Set!Survivors(image') \subseteq Set!Survivors(image)
      BY <1>3 DEF Set!Survivors
  <2> QED
      BY Zenon, <1>2, <2>1, SoundStays DEF ContentInv
<1>6. CASE Set!Commit
  <2>1. /\ seen' = Set!Kept(keep) /\ handle' = "open" /\ answer' = "Dropped"
        /\ image' = [cached |-> image.cached, synced |-> image.synced, stale |-> {}]
      BY <1>6, FileCalls DEF Set!Commit, Set!Answer
  <2>2. Set!Kept(keep) \in SUBSET seen /\ Set!Unambiguous(seen)
      BY Zenon DEF Set!Kept, ContentInv
  <2>3. Set!Unambiguous(seen') /\ Set!Cardinality(seen') <= MaxEntries
    <3>1. Set!Unambiguous(Set!Kept(keep)) /\ Set!Cardinality(Set!Kept(keep)) <= MaxEntries
        BY <2>2, FewerRecords DEF ContentInv, Set!SetAssumption
    <3> QED
        BY Zenon, <2>1, <3>1
  <2>4. MemoryTypes'
      BY ZenonT(40), <1>1, <2>1, <2>2 DEF ContentInv, MemoryTypes
  <2>5. Set!AcceptedOnce' /\ Set!MemoryMatchesFile' /\ Set!CallsFit' /\ Set!AppendsAreSafe'
      BY <1>1, <1>2, <2>1 DEF ContentInv, Set!AcceptedOnce, Set!MemoryMatchesFile, Set!CallsFit,
          Set!AppendsAreSafe
  <2> QED
      BY ZenonT(40), <1>4, <1>5, <2>3, <2>4, <2>5 DEF ContentInv
<1>7. CASE Set!CommitFails
  <2>1. UNCHANGED <<seen, handle>> /\ answer' = "Err"
      BY Zenon, <1>7 DEF Set!CommitFails, Set!Answer
  <2>2. MemoryTypes'
      BY Zenon, <1>1, <2>1 DEF ContentInv, MemoryTypes
  <2>3. Set!AcceptedOnce' /\ Set!MemoryMatchesFile' /\ Set!CallsFit'
      BY Zenon, <1>1, <1>2, <2>1 DEF ContentInv, Set!AcceptedOnce, Set!MemoryMatchesFile, Set!CallsFit
  <2>4. Set!AppendsAreSafe'
      BY <1>1, <1>3, <2>1 DEF ContentInv, Set!AppendsAreSafe
  <2> QED
      BY Zenon, <1>4, <1>5, <2>1, <2>2, <2>3, <2>4 DEF ContentInv
<1> QED
    BY ZenonT(40), <1>6, <1>7

\* open() reads back what it finds and syncs the directory.
LEMMA OpenSet ==
    ASSUME Set!SetAssumption, ContentInv, Set!Open
    PROVE  ContentInv'
<1>1. /\ proc' = "up" /\ handle' = "open" /\ seen' = image.cached.lines /\ answer' = "none"
      /\ doing' = "nothing" /\ UNCHANGED <<entry, keep, grants>> /\ image.cached.tail = "whole"
      /\ image' = [cached |-> image.cached, synced |-> image.synced, stale |-> {}]
    BY FileCalls DEF Set!Open, Set!Answer, Set!Loads
<1>2. Sound(image.cached)
    BY FileCalls DEF ContentInv
<1>3. Set!Accepted' = Set!Accepted
    BY Zenon, <1>1 DEF Set!Accepted
<1>4. \A d \in Set!Survivors(image') : Sound(d)'
  <2>1. Set!Survivors(image') \subseteq Set!Survivors(image)
      BY <1>1 DEF Set!Survivors
  <2> QED
      BY Zenon, <1>3, <2>1, SoundStays DEF ContentInv
<1>5. image.cached = [lines |-> seen', tail |-> "whole"] /\ seen' \subseteq Set!Entries
    BY <1>1, <1>2 DEF Sound, Set!Contents
<1>6. MemoryTypes'
    BY <1>1, <1>5 DEF ContentInv, MemoryTypes
<1>7. Set!AcceptedOnce' /\ Set!MemoryMatchesFile'
    BY <1>1, <1>2, <1>3, <1>5 DEF ContentInv, Sound, Set!AcceptedOnce, Set!MemoryMatchesFile
<1>8. Set!CallsFit' /\ Set!AppendsAreSafe'
    BY <1>1 DEF ContentInv, Set!CallsFit, Set!AppendsAreSafe
<1>9. Set!Unambiguous(seen') /\ Set!Cardinality(seen') <= MaxEntries
    BY Zenon, <1>1, <1>2 DEF Sound
<1> QED
    BY SMTT(30), <1>1, <1>4, <1>6, <1>7, <1>8, <1>9 DEF ContentInv

\* A process that is down has only the file, and any sound content will do.
LEMMA DownSet ==
    ASSUME ContentInv, Set!Down,
           image' = [cached |-> image'.cached, synced |-> image'.synced, stale |-> image'.stale],
           \A c \in Set!Survivors(image') : Sound(c),
           image'.cached # image'.synced => image'.synced.tail = "whole",
           MaxEntries \in Nat
    PROVE  ContentInv'
<1>1. /\ proc' = "down" /\ seen' = {} /\ handle' = "none" /\ answer' = "none" /\ doing' = "nothing"
      /\ UNCHANGED <<entry, keep, grants>>
    BY Zenon DEF Set!Down, Set!Answer
<1>2. Set!Accepted' = Set!Accepted
    BY Zenon, <1>1 DEF Set!Accepted
<1>3. \A c \in Set!Survivors(image') : Sound(c)'
    BY Zenon, <1>2, SoundStays
<1>4. MemoryTypes'
    BY <1>1 DEF ContentInv, MemoryTypes
<1>5. Set!AcceptedOnce' /\ Set!MemoryMatchesFile' /\ Set!CallsFit' /\ Set!AppendsAreSafe'
    BY <1>1 DEF ContentInv, Set!AcceptedOnce, Set!MemoryMatchesFile, Set!CallsFit, Set!AppendsAreSafe
<1>6. Set!Unambiguous(seen') /\ Set!Cardinality(seen') <= MaxEntries
  <2>1. Set!Cardinality({}) <= MaxEntries
      BY NoRecords
  <2> QED
      BY Zenon, <1>1, <2>1, NoRecords
<1> QED
    BY Zenon, <1>3, <1>4, <1>5, <1>6 DEF ContentInv

\* The process dies, perhaps inside the write of a record.
LEMMA KillSet ==
    ASSUME Set!SetAssumption, ContentInv, Set!Kill
    PROVE  ContentInv'
<1>0. Set!Down /\ MaxEntries \in Nat
    BY Zenon DEF Set!Kill, Set!SetAssumption
<1>1. CASE UNCHANGED image
  <2>1. /\ image' = [cached |-> image'.cached, synced |-> image'.synced, stale |-> image'.stale]
        /\ \A c \in Set!Survivors(image') : Sound(c)
        /\ image'.cached # image'.synced => image'.synced.tail = "whole"
      BY Zenon, <1>1 DEF ContentInv, Set!AppendsAreSafe
  <2> QED
      BY Zenon, <1>0, <2>1, DownSet
<1>2. ASSUME NEW k \in Keys, Set!Admits(k), image' = Set!Written(image, Set!Torn(image.cached))
      PROVE  ContentInv'
  <2>1. image.cached.tail = "whole" /\ image.synced.tail = "whole" /\ Sound(image.cached)
    <3>1. /\ image.cached = [lines |-> seen, tail |-> "whole"] /\ image.synced.tail = "whole"
          /\ Sound(image.cached)
        BY Zenon, <1>2, AdmittedFile
    <3> QED
        BY <3>1
  <2>2. Sound(Set!Torn(image.cached))
      BY Zenon, <2>1, TornIsSound
  <2>3. image' = [cached |-> Set!Torn(image.cached), synced |-> image.synced, stale |-> image.stale]
      BY Zenon, <1>2, FileCalls
  <2>4. /\ image' = [cached |-> image'.cached, synced |-> image'.synced, stale |-> image'.stale]
        /\ image'.synced.tail = "whole"
      BY <2>1, <2>3
  <2>5. Set!Survivors(image') \subseteq Set!Survivors(image) \cup {Set!Torn(image.cached)}
      BY <2>3 DEF Set!Survivors
  <2>6. \A c \in Set!Survivors(image') : Sound(c)
      BY Zenon, <2>2, <2>5 DEF ContentInv
  <2> QED
      BY Zenon, <1>0, <2>4, <2>6, DownSet
<1> QED
    BY Zenon, <1>1, <1>2 DEF Set!Kill

\* The machine dies: one of the contents is left, or a part of an unsynced record
\* behind what was synced.
LEMMA PowerSet ==
    ASSUME Set!SetAssumption, ContentInv, Set!Power
    PROVE  ContentInv'
<1>0. Set!Down /\ MaxEntries \in Nat
    BY Zenon DEF Set!Power, Set!SetAssumption
<1>1. PICK c \in Set!Survivors(image) \cup
                 (IF image.cached = image.synced THEN {} ELSE {Set!Torn(image.synced)}) :
          image' = Set!Settled(c)
    BY Zenon DEF Set!Power
<1>2. Sound(c)
  <2>1. CASE c \in Set!Survivors(image)
      BY Zenon, <2>1 DEF ContentInv
  <2>2. CASE c = Set!Torn(image.synced) /\ image.cached # image.synced
    <3>1. Sound(image.synced) /\ image.synced.tail = "whole"
        BY <2>2, FileCalls DEF ContentInv, Set!AppendsAreSafe
    <3> QED
        BY ZenonT(40), <2>2, <3>1, TornIsSound
  <2> QED
      BY Zenon, <1>1, <2>1, <2>2
<1>3. image' = [cached |-> c, synced |-> c, stale |-> {}]
    BY ZenonT(40), <1>1 DEF Set!Settled
<1>4. /\ image' = [cached |-> image'.cached, synced |-> image'.synced, stale |-> image'.stale]
      /\ image'.cached = image'.synced /\ Set!Survivors(image') = {c}
    BY <1>3 DEF Set!Survivors
<1>5. \A d \in Set!Survivors(image') : Sound(d)
    BY Zenon, <1>2, <1>4
<1> QED
    BY Zenon, <1>0, <1>4, <1>5, DownSet

\* Every step of the set keeps memory, file and medium in agreement.
LEMMA NextSet ==
    ASSUME Set!SetAssumption, ContentInv, [Set!Next]_(Set!vars)
    PROVE  ContentInv'
<1>1. ASSUME NEW k \in Keys, Set!Refuse(k) PROVE ContentInv'
    BY Zenon, <1>1, RefuseSet
<1>2. ASSUME NEW e \in Set!Entries, Set!Append(e) PROVE ContentInv'
    BY Zenon, <1>2, AppendSet
<1>3. Set!Accept => ContentInv'
    BY Zenon, AcceptSet
<1>4. ASSUME NEW kept \in Retentions, Set!Compact(kept) PROVE ContentInv'
    BY Zenon, <1>4, CompactSet
<1>5. Set!Commit \/ Set!CommitFails => ContentInv'
    BY Zenon, CommitSet
<1>6. Set!Open \/ Set!Kill \/ Set!Power => ContentInv'
    BY Zenon, OpenSet, KillSet, PowerSet

<1>7. ASSUME UNCHANGED Set!vars PROVE ContentInv'
  <2>1. UNCHANGED <<proc, seen, handle, image, doing, entry, keep, answer, grants>>
      BY Zenon, <1>7 DEF Set!vars
  <2>2. Set!Accepted' = Set!Accepted /\ Set!Kept(keep)' = Set!Kept(keep)
      BY Zenon, <2>1 DEF Set!Accepted, Set!Kept
  <2>3. \A c \in Set!Survivors(image') : Sound(c)'
      BY Zenon, <2>1, <2>2, SoundStays DEF ContentInv
  <2>4. MemoryTypes' /\ Set!AcceptedOnce' /\ Set!MemoryMatchesFile'
      BY Zenon, <2>1, <2>2 DEF ContentInv, MemoryTypes, Set!AcceptedOnce, Set!MemoryMatchesFile
  <2>5. Set!CallsFit' /\ Set!AppendsAreSafe'
      BY Zenon, <2>1, <2>2 DEF ContentInv, Set!CallsFit, Set!AppendsAreSafe
  <2> QED
      BY Zenon, <2>1, <2>3, <2>4, <2>5 DEF ContentInv
<1> QED
    BY Zenon, <1>1, <1>2, <1>3, <1>4, <1>5, <1>6, <1>7, FailuresSet DEF Set!Next

\* insert reports a key as new at most once until a compaction drops it, and everything
\* a kill or a power loss can leave of the file has every accepted key, fits, and opens
\* unless its last record is torn: for any keys, tags, retentions, capacity and faults.
THEOREM SetsAcceptOnce ==
    ASSUME Set!SetAssumption
    PROVE  Set!Spec => []Set!SetInv
<1>1. Set!Init => ContentInv
    BY InitSet
<1>2. ContentInv /\ [Set!Next]_(Set!vars) => ContentInv'
    BY NextSet
<1>3. ContentInv => Set!SetInv
    BY ContentInvSuffices
<1> QED
    BY <1>1, <1>2, <1>3, PTL DEF Set!Spec
=============================================================================
