-------------------------- MODULE PortalStoreProofs --------------------------
(***************************************************************************)
(* Proofs about the Portal's file store, for any attempts, payments and    *)
(* activations: what each change of a snapshot keeps, the inductive        *)
(* invariant, and that one-shot issuance implements RedemptionLedger.      *)
(***************************************************************************)
EXTENDS PortalStore, TLAPS

-----------------------------------------------------------------------------
(* What each change of a snapshot keeps *)

\* A snapshot whose claims are filed under their payments and whose periods do not
\* overlap.
Sound(content) == content \in ContentType /\ ClaimsFiled(content) /\ PeriodsApart(content)

\* No attempt has the name of a marker or of a refusal.
LEMMA JobNames ==
    /\ "nobody" \notin Issues /\ "free" \notin Jobs /\ "pruner" \notin Jobs
    /\ "none" \notin Issues /\ "active" \notin Refusals
    /\ \A a \in Refusals : a \notin Issues
    /\ Issues \subseteq Jobs /\ Activations \subseteq Jobs
    /\ \A j \in Issues : j \notin Activations
BY StoreAssumption DEF Jobs, Refusals

\* The parts of a snapshot.
LEMMA ContentParts ==
    ASSUME NEW c \in ContentType
    PROVE  /\ c.claims \in [Payments -> ClaimType]
           /\ \A p \in Payments : /\ c.claims[p].by \in Issues \cup {"nobody"}
                                  /\ c.claims[p].sig \in {"none", "kept"}
                                  /\ c.claims[p].until \in Expiries
           /\ c.paid \in [References -> Nat]
           /\ c.until \in Nat
BY DEF ContentType, ClaimType

\* FileState::default holds no claim and no period.
LEMMA EmptySound == Sound(Empty)
<1>1. NoClaim \in ClaimType
    BY StoreAssumption DEF NoClaim, ClaimType, Expiries
<1>2. Empty \in ContentType
    BY <1>1 DEF Empty, ContentType
<1>3. ClaimsFiled(Empty)
    BY DEF ClaimsFiled, Empty, NoClaim
<1>4. PeriodsApart(Empty)
    BY DEF PeriodsApart, Empty
<1> QED
    BY <1>2, <1>3, <1>4 DEF Sound

\* Two snapshots that differ in signatures only are equally sound.
LEMMA SigsDoNotMatter ==
    ASSUME NEW c, NEW d, Sound(c), d \in ContentType,
           \A p \in Payments : d.claims[p].by = c.claims[p].by,
           d.paid = c.paid, d.until = c.until
    PROVE  Sound(d)
BY DEF Sound, ClaimsFiled, PeriodsApart

\* prune_issuance_results drops signatures and nothing else.
LEMMA ScrubbedKeeps ==
    ASSUME NEW c, NEW t \in Nat, Sound(c)
    PROVE  /\ Sound(Scrubbed(c, t))
           /\ \A p \in Payments : Scrubbed(c, t).claims[p].by = c.claims[p].by
           /\ Scrubbed(c, t).paid = c.paid
<1> DEFINE d == Scrubbed(c, t)
<1>1. c \in ContentType
    BY DEF Sound
<1>2. \A p \in Payments : c.claims[p] \in ClaimType
    BY <1>1, ContentParts
<1>3. \A p \in Payments : [c.claims[p] EXCEPT !.sig = "none"] \in ClaimType
                          /\ [c.claims[p] EXCEPT !.sig = "none"].by = c.claims[p].by
    BY <1>2 DEF ClaimType
<1>4. d.paid = c.paid /\ d.until = c.until
    BY <1>1 DEF Scrubbed, ContentType
<1>5. \A p \in Payments : d.claims[p] \in {c.claims[p], [c.claims[p] EXCEPT !.sig = "none"]}
    BY <1>1 DEF Scrubbed, ContentType
<1>6. d \in ContentType
    BY <1>1, <1>2, <1>3 DEF Scrubbed, ContentType
<1>7. \A p \in Payments : d.claims[p].by = c.claims[p].by
    BY Zenon, <1>3, <1>5
<1> HIDE DEF d
<1>8. Sound(d)
    BY <1>4, <1>6, <1>7, SigsDoNotMatter
<1> QED
    BY <1>4, <1>7, <1>8 DEF d

\* open under another result key drops signatures and nothing else.
LEMMA UnsealedKeeps ==
    ASSUME NEW c, Sound(c)
    PROVE  /\ Sound(Unsealed(c))
           /\ \A p \in Payments : Unsealed(c).claims[p].by = c.claims[p].by
           /\ Unsealed(c).paid = c.paid
<1> DEFINE d == Unsealed(c)
<1>1. c \in ContentType
    BY DEF Sound
<1>2. \A p \in Payments : [c.claims[p] EXCEPT !.sig = "none"] \in ClaimType
                          /\ [c.claims[p] EXCEPT !.sig = "none"].by = c.claims[p].by
    BY <1>1, ContentParts DEF ClaimType
<1>3. d.paid = c.paid /\ d.until = c.until
    BY <1>1 DEF Unsealed, ContentType
<1>4. \A p \in Payments : d.claims[p] = [c.claims[p] EXCEPT !.sig = "none"]
    BY <1>1 DEF Unsealed, ContentType
<1>5. d \in ContentType
    BY <1>1, <1>2 DEF Unsealed, ContentType
<1>6. \A p \in Payments : d.claims[p].by = c.claims[p].by
    BY Zenon, <1>2, <1>4
<1> HIDE DEF d
<1>7. Sound(d)
    BY <1>3, <1>5, <1>6, SigsDoNotMatter
<1> QED
    BY <1>3, <1>6, <1>7 DEF d

\* activate_subscription starts a new period where the account's last one ends, or
\* now: no period overlaps it, and every earlier one stays.
LEMMA ExtendedKeeps ==
    ASSUME NEW c, NEW f \in References, NEW t \in Nat \ {0}, Sound(c), c.paid[f] = 0
    PROVE  /\ Sound(Extended(c, f, t))
           /\ Extended(c, f, t).claims = c.claims
           /\ \A g \in References : c.paid[g] # 0 => Extended(c, f, t).paid[g] = c.paid[g]
<1> DEFINE d == Extended(c, f, t)
           base == IF c.until > t THEN c.until ELSE t
           end == base + Period
<1>1. c \in ContentType /\ c.paid \in [References -> Nat] /\ c.until \in Nat
    BY ContentParts DEF Sound
<1>2. base \in Nat /\ base >= c.until /\ end \in Nat /\ end >= c.until + Period
      /\ end >= c.until /\ end # 0
    BY <1>1, StoreAssumption
<1>3. d = [c EXCEPT !.paid[f] = end, !.until = end]
    BY DEF Extended
<1> HIDE DEF d, base, end
<1>4. d.claims = c.claims /\ d.until = end /\ d.paid = [c.paid EXCEPT ![f] = end]
    BY <1>1, <1>3 DEF ContentType
<1>5. d \in ContentType
    BY Zenon, <1>1, <1>2, <1>3 DEF ContentType
<1>6. \A g \in References : d.paid[g] = IF g = f THEN end ELSE c.paid[g]
    BY <1>1, <1>4
<1>7. ClaimsFiled(d)
    BY <1>4 DEF Sound, ClaimsFiled
<1>8. PeriodsApart(d)
    <2>1. \A g \in References : c.paid[g] \in Nat /\ c.paid[g] <= c.until
        BY <1>1 DEF Sound, PeriodsApart
    <2>2. \A g \in References : d.paid[g] <= d.until
        BY <1>1, <1>2, <1>4, <1>6, <2>1
    <2>3. d.paid[f] = d.until
        BY <1>4, <1>6
    <2>4. ASSUME NEW g \in References, NEW h \in References, g # h,
                 d.paid[g] # 0, d.paid[h] # 0
          PROVE  d.paid[g] - d.paid[h] \notin (1 - Period)..(Period - 1)
        <3>1. CASE g = f
            BY <1>1, <1>2, <1>6, <2>1, <2>4, <3>1, StoreAssumption
        <3>2. CASE h = f
            BY <1>1, <1>2, <1>6, <2>1, <2>4, <3>2, StoreAssumption
        <3>3. CASE g # f /\ h # f
            BY <1>6, <2>4, <3>3 DEF Sound, PeriodsApart
        <3> QED
            BY <3>1, <3>2, <3>3
    <2> QED
        BY <2>2, <2>3, <2>4 DEF PeriodsApart
<1>9. Sound(d)
    BY <1>5, <1>7, <1>8 DEF Sound
<1> QED
    BY <1>4, <1>6, <1>9 DEF d

\* commit_issuance files the attempt's claim under its payment and touches no other.
LEMMA ClaimedKeeps ==
    ASSUME NEW c, NEW j \in Issues, Sound(c), at[j] \in 0..MaxClock
    PROVE  LET d == [c EXCEPT !.claims[PaymentOf[j]] = Claim(j)]
           IN  /\ Sound(d)
               /\ \A p \in Payments :
                     d.claims[p].by = IF PaymentOf[j] = p THEN j ELSE c.claims[p].by
               /\ d.paid = c.paid
<1> DEFINE d == [c EXCEPT !.claims[PaymentOf[j]] = Claim(j)]
<1>1. c \in ContentType /\ PaymentOf[j] \in Payments
    BY StoreAssumption DEF Sound
<1>2. Claim(j) \in ClaimType /\ Claim(j).by = j
    BY StoreAssumption DEF Claim, ClaimType, Expiries
<1>3. d.paid = c.paid /\ d.until = c.until
      /\ d.claims = [c.claims EXCEPT ![PaymentOf[j]] = Claim(j)]
    BY <1>1 DEF ContentType
<1>4. d \in ContentType
    BY <1>1, <1>2 DEF ContentType
<1>5. \A p \in Payments : d.claims[p].by = IF PaymentOf[j] = p THEN j ELSE c.claims[p].by
    BY <1>1, <1>2, <1>3, ContentParts
<1> HIDE DEF d
<1>6. ClaimsFiled(d)
    BY <1>5 DEF Sound, ClaimsFiled
<1>7. PeriodsApart(d)
    BY <1>3 DEF Sound, PeriodsApart
<1> QED
    BY <1>3, <1>4, <1>5, <1>6, <1>7 DEF Sound, d

-----------------------------------------------------------------------------
(* The inductive invariant *)

\* Everything on disk and in memory is sound.
AllSound == \A content \in Survivors(disk) \cup {mem} : Sound(content)

\* What an activation was told is in every recoverable snapshot.
ToldKept ==
    \A content \in Recoverable, j \in Activations :
        told[j] # 0 => content.paid[ReferenceOf[j]] = told[j]

\* StoreInv without the conjuncts that follow from the others.
Inv == /\ TypeOK /\ LockDiscipline /\ MemoryIsSnapshot /\ OwnersKnown /\ OwnersAnswer
       /\ ToldKept /\ AllSound

\* The parts of the snapshot file.
LEMMA ImageParts ==
    ASSUME TypeOK
    PROVE  /\ disk.cached \in ContentType /\ disk.synced \in ContentType
           /\ disk.stale \subseteq ContentType
           /\ disk = [cached |-> disk.cached, synced |-> disk.synced, stale |-> disk.stale]
BY DEF TypeOK, FileImages

\* The running process knows the claims and the periods of the snapshot at the path.
LEMMA MemoryKnows ==
    ASSUME Inv, proc # "down"
    PROVE  /\ \A p \in Payments : mem.claims[p].by = disk.cached.claims[p].by
           /\ mem.paid = disk.cached.paid
<1>1. Sound(disk.cached)
    BY DEF Inv, AllSound, Survivors
<1> QED
    BY <1>1, UnsealedKeeps DEF Inv, MemoryIsSnapshot

\* The snapshot at the path is always recoverable; with nothing uncertain no other is.
LEMMA CachedRecoverable ==
    /\ disk.cached \in Recoverable
    /\ Inv /\ uncertain = "no" => Recoverable = {disk.cached}
BY DEF Recoverable, Survivors, Inv, LockDiscipline

\* An owner's claim is in memory whenever there is a process.
LEMMA OwnerInMemory ==
    ASSUME Inv, proc # "down", NEW p \in Payments, owner[p] # "nobody"
    PROVE  mem.claims[p].by = owner[p]
BY MemoryKnows, CachedRecoverable DEF Inv, OwnersKnown

\* A fresh Portal over an absent file.
LEMMA InitInv == Init => Inv
<1> SUFFICES ASSUME Init PROVE Inv
    OBVIOUS
<1>1. Sound(Empty) /\ Empty \in ContentType
    BY EmptySound DEF Sound
<1>2. disk \in FileImages(ContentType) /\ Survivors(disk) = {Empty} /\ disk.stale = {}
      /\ disk.cached = Empty /\ disk.synced = Empty
    BY <1>1 DEF Init, Settled, FileImages, Survivors
<1>3. TypeOK
    BY <1>1, <1>2, StoreAssumption DEF Init, TypeOK, Refusals
<1>4. Recoverable = {Empty}
    BY <1>2 DEF Recoverable
<1>5. \A p \in Payments : mem.claims[p].by = "nobody" /\ owner[p] = "nobody"
    BY DEF Init, Empty, NoClaim
<1>6. LockDiscipline /\ MemoryIsSnapshot /\ ToldKept /\ OwnersAnswer
    BY <1>2, JobNames DEF Init, LockDiscipline, MemoryIsSnapshot, ToldKept, OwnersAnswer, Jobs
<1>7. OwnersKnown
    BY <1>4, <1>5, JobNames DEF Init, OwnersKnown
<1>8. AllSound
    BY <1>1, <1>2 DEF AllSound, Init
<1> QED
    BY <1>3, <1>6, <1>7, <1>8 DEF Inv

\* A step that leaves memory, snapshot and owners alone, and tells a job only what
\* its payment's owner or its reference's period is.
LEMMA AnswersKeep ==
    ASSUME Inv, TypeOK', UNCHANGED <<files, owner, scenario>>,
           lock' \in {lock, "free"},
           proc' = proc \/ (proc # "down" /\ proc' = "up"),
           lock' \in Jobs => pc'[lock'] # "done",
           \A j \in Jobs : pc'[j] # "done" => answer'[j] = "none",
           \A j \in Issues : answer'[j] \in Issues =>
               \/ answer'[j] = answer[j]
               \/ answer'[j] = owner[PaymentOf[j]] /\ MessageOf[answer'[j]] = MessageOf[j],
           \A j \in Activations :
               \/ told'[j] = told[j]
               \/ told'[j] = mem.paid[ReferenceOf[j]] /\ proc # "down" /\ uncertain = "no"
    PROVE  Inv'
<1>u. disk' = disk /\ mem' = mem /\ uncertain' = uncertain /\ owner' = owner /\ Faults' = Faults
    BY DEF files, Faults
<1>r. Recoverable' = Recoverable
    BY <1>u DEF Recoverable
<1>1. LockDiscipline'
    BY <1>u DEF Inv, LockDiscipline
<1>2. MemoryIsSnapshot'
    BY <1>u DEF Inv, MemoryIsSnapshot
<1>3. OwnersKnown'
    BY <1>u, <1>r, JobNames DEF Inv, OwnersKnown, LockDiscipline
<1>4. OwnersAnswer'
    BY <1>u DEF Inv, OwnersAnswer
<1>5. ToldKept'
    <2> SUFFICES ASSUME NEW c \in Recoverable, NEW j \in Activations, told'[j] # 0
                 PROVE  c.paid[ReferenceOf[j]] = told'[j]
        BY <1>r DEF ToldKept
    <2>1. CASE told'[j] = told[j]
        BY <2>1 DEF Inv, ToldKept
    <2>2. CASE told'[j] = mem.paid[ReferenceOf[j]] /\ proc # "down" /\ uncertain = "no"
        BY <2>2, CachedRecoverable, MemoryKnows
    <2> QED
        BY <2>1, <2>2
<1>6. AllSound'
    BY <1>u DEF Inv, AllSound
<1> QED
    BY <1>1, <1>2, <1>3, <1>4, <1>5, <1>6 DEF Inv

\* persist up to the rename: the new snapshot knows the old one's claims and periods,
\* and one claim more when an issuance holds the lock.
LEMMA RenameKeeps ==
    ASSUME Inv, TypeOK', NEW next, NEW holder \in Jobs \cup {"pruner"}, Rename(next, holder),
           proc # "down", lock = "free", uncertain = "no",
           UNCHANGED <<proc, job, owner, scenario>>,
           Sound(next),
           holder \in Jobs => pc[holder] # "done",
           holder \in Issues => mem.claims[PaymentOf[holder]].by = "nobody",
           \A p \in Payments : next.claims[p].by =
               IF holder \in Issues /\ PaymentOf[holder] = p THEN holder ELSE mem.claims[p].by,
           \A f \in References : mem.paid[f] # 0 => next.paid[f] = mem.paid[f]
    PROVE  Inv'
<1>u. owner' = owner /\ Faults' = Faults /\ proc' = proc /\ pc' = pc /\ answer' = answer
      /\ told' = told /\ mem' = next /\ lock' = holder /\ uncertain' = "yes"
    BY DEF Rename, Faults, job
<1>d. disk' = Replaced(disk, next)
    BY DEF Rename
<1>s. /\ disk'.cached = next /\ disk'.synced = next
      /\ Survivors(disk') \subseteq Survivors(disk) \cup {next}
    BY <1>d DEF Replaced, Survivors
<1>r. Recoverable' \subseteq Recoverable \cup {next}
    BY <1>u, <1>s DEF Recoverable
<1>o. \A p \in Payments : mem.claims[p].by = owner[p]
    BY DEF Inv, OwnersKnown
<1>p. /\ \A p \in Payments : owner[p] # "nobody" => next.claims[p].by = owner[p]
      /\ holder \in Issues => PaymentOf[holder] \in Payments
    BY <1>o, StoreAssumption
<1>1. LockDiscipline'
    BY <1>u, <1>s, JobNames DEF Inv, LockDiscipline
<1>2. MemoryIsSnapshot'
    BY <1>u, <1>s DEF MemoryIsSnapshot
<1>3. OwnersKnown'
    <2>1. \A c \in Recoverable', p \in Payments :
              owner'[p] # "nobody" => c.claims[p].by = owner'[p]
        BY <1>u, <1>r, <1>p DEF Inv, OwnersKnown
    <2>2. \A p \in Payments : mem'.claims[p].by =
              IF lock' \in Issues /\ PaymentOf[lock'] = p THEN lock' ELSE owner'[p]
        BY <1>u, <1>o
    <2>3. lock' \in Issues => owner'[PaymentOf[lock']] = "nobody"
        BY <1>u, <1>o, <1>p
    <2> QED
        BY <1>u, <2>1, <2>2, <2>3 DEF OwnersKnown
<1>4. OwnersAnswer'
    BY <1>u DEF Inv, OwnersAnswer
<1>5. ToldKept'
    <2> SUFFICES ASSUME NEW c \in Recoverable', NEW j \in Activations, told[j] # 0
                 PROVE  c.paid[ReferenceOf[j]] = told[j]
        BY <1>u DEF ToldKept
    <2>1. mem.paid[ReferenceOf[j]] = told[j] /\ ReferenceOf[j] \in References
        BY CachedRecoverable, MemoryKnows, StoreAssumption DEF Inv, ToldKept
    <2>2. next.paid[ReferenceOf[j]] = told[j]
        BY <2>1
    <2> QED
        BY <1>r, <2>2 DEF Inv, ToldKept
<1>6. AllSound'
    BY <1>u, <1>s DEF Inv, AllSound
<1> QED
    BY <1>1, <1>2, <1>3, <1>4, <1>5, <1>6 DEF Inv

\* Once a snapshot is known to be durable its claims are the owners, and no owner is
\* replaced.
LEMMA DiscoveredOwners ==
    ASSUME Inv, NEW c, \A p \in Payments : owner[p] # "nobody" => c.claims[p].by = owner[p]
    PROVE  \A p \in Payments : Discovered(c)[p] = c.claims[p].by
BY DEF Discovered

\* The directory sync, of persist or of ensure_durable.
LEMMA SyncKeeps ==
    ASSUME Inv, TypeOK', proc # "down", proc' # "down", lock' = "free",
           disk' = NameSynced(disk), uncertain' = "no", owner' = Discovered(mem), mem' = mem,
           scenario' = scenario,
           \A j \in Jobs : pc'[j] # "done" => answer'[j] = "none",
           \A j \in Issues : answer'[j] \in Issues =>
               \/ answer'[j] = answer[j]
               \/ answer'[j] = mem.claims[PaymentOf[j]].by /\ MessageOf[answer'[j]] = MessageOf[j],
           \A j \in Activations : told'[j] = told[j] \/ told'[j] = mem.paid[ReferenceOf[j]]
    PROVE  Inv'
<1>o. \A p \in Payments : owner'[p] = mem.claims[p].by
    BY OwnerInMemory, DiscoveredOwners
<1>s. /\ disk'.cached = disk.cached /\ disk'.synced = disk.cached /\ disk'.stale = {}
      /\ Survivors(disk') \subseteq Survivors(disk) /\ Recoverable' = {disk.cached}
    BY ImageParts DEF NameSynced, Survivors, Recoverable, Inv, LockDiscipline
<1>m. /\ \A p \in Payments : mem.claims[p].by = disk.cached.claims[p].by
      /\ mem.paid = disk.cached.paid
    BY MemoryKnows
<1>1. LockDiscipline'
    BY <1>s, JobNames DEF LockDiscipline
<1>2. MemoryIsSnapshot'
    BY <1>s DEF Inv, MemoryIsSnapshot
<1>3. OwnersKnown'
    BY <1>o, <1>s, <1>m, JobNames DEF OwnersKnown
<1>4. OwnersAnswer'
    <2> SUFFICES ASSUME NEW j \in Issues, answer'[j] \in Issues
                 PROVE  owner'[PaymentOf[j]] = answer'[j] /\ MessageOf[answer'[j]] = MessageOf[j]
        BY DEF OwnersAnswer
    <2>1. PaymentOf[j] \in Payments
        BY StoreAssumption
    <2>2. CASE answer'[j] = answer[j]
        <3>1. owner[PaymentOf[j]] = answer[j] /\ MessageOf[answer[j]] = MessageOf[j]
            BY <2>2 DEF Inv, OwnersAnswer
        <3> QED
            BY <1>o, <2>1, <2>2, <3>1, OwnerInMemory, JobNames
    <2> QED
        BY <1>o, <2>1, <2>2
<1>5. ToldKept'
    <2> SUFFICES ASSUME NEW j \in Activations, told'[j] # 0
                 PROVE  disk.cached.paid[ReferenceOf[j]] = told'[j]
        BY <1>s DEF ToldKept
    <2> QED
        BY <1>m, CachedRecoverable DEF Inv, ToldKept
<1>6. AllSound'
    BY <1>s DEF Inv, AllSound
<1> QED
    BY <1>1, <1>2, <1>3, <1>4, <1>5, <1>6 DEF Inv

-----------------------------------------------------------------------------
(* Syncs, refusals and lookups *)

\* Memory is sound.
LEMMA MemorySound == Inv => Sound(mem) /\ mem \in ContentType
BY DEF Inv, AllSound, Sound

\* ensure_durable when the sync succeeds.
LEMMA EnsureDurableKeeps ==
    ASSUME Inv, EnsureDurable, scenario' = scenario
    PROVE  Inv'
<1>1. disk' \in FileImages(ContentType)
    BY DEF Inv, TypeOK, EnsureDurable, NameSynced, FileImages
<1>2. owner' \in [Payments -> Issues \cup {"nobody"}]
    BY MemorySound, ContentParts DEF Inv, TypeOK, EnsureDurable, Discovered
<1>3. TypeOK'
    BY <1>1, <1>2 DEF Inv, TypeOK, EnsureDurable, job
<1>4. \A j \in Jobs : pc'[j] # "done" => answer'[j] = "none"
    BY DEF EnsureDurable, job, Inv, LockDiscipline
<1> QED
    BY <1>3, <1>4, SyncKeeps DEF EnsureDurable, job

\* ensure_durable when the sync fails again.
LEMMA RefuseUncertainKeeps ==
    ASSUME Inv, NEW j \in Jobs, RefuseUncertain(j), scenario' = scenario
    PROVE  Inv'
<1>1. /\ answer' = [answer EXCEPT ![j] = "unavailable"] /\ pc' = [pc EXCEPT ![j] = "done"]
      /\ answer \in [Jobs -> Jobs \cup Refusals \cup {"none", "active"}]
      /\ pc \in [Jobs -> {"idle", "missing", "done"}]
      /\ "unavailable" \in Refusals
    BY DEF RefuseUncertain, Told, Inv, TypeOK, Refusals
<1>2. TypeOK'
    BY <1>1 DEF Inv, TypeOK, RefuseUncertain, files
<1>3. \A i \in Jobs : pc'[i] # "done" => answer'[i] = "none"
    BY <1>1 DEF Inv, LockDiscipline
<1>4. \A i \in Issues : answer'[i] \in Issues => answer'[i] = answer[i]
    BY <1>1, JobNames
<1>5. lock' \notin Jobs
    BY JobNames DEF RefuseUncertain
<1> QED
    BY <1>2, <1>3, <1>4, <1>5, AnswersKeep DEF RefuseUncertain, files

\* What a claim answers, in a store with nothing uncertain, is the owner's.
LEMMA AnswerFromOwner ==
    ASSUME Inv, proc # "down", uncertain = "no", NEW j \in Issues,
           mem.claims[PaymentOf[j]].by # "nobody", AnswerFrom(mem.claims[PaymentOf[j]], j)
    PROVE  \E a \in Issues \cup Refusals :
               /\ Told(j, a)
               /\ a \in Issues => a = owner[PaymentOf[j]] /\ MessageOf[a] = MessageOf[j]
               /\ a = "spent" => owner[PaymentOf[j]] # "nobody"
<1> DEFINE claim == mem.claims[PaymentOf[j]]
<1>1. PaymentOf[j] \in Payments
    BY StoreAssumption
<1>2. claim.by = owner[PaymentOf[j]] /\ claim.by \in Issues
    BY <1>1, MemorySound, ContentParts DEF Inv, OwnersKnown
<1>3. CASE Replayable(claim, j)
    BY <1>2, <1>3, JobNames DEF AnswerFrom, Replayable, Refusals
<1>4. CASE ~Replayable(claim, j)
    BY <1>2, <1>4, JobNames DEF AnswerFrom, Refusals
<1> QED
    BY <1>3, <1>4

\* A job is told something by a store that is usable: only that job's state changes.
LEMMA ToldKeeps ==
    ASSUME Inv, Usable, NEW j \in Jobs, NEW a \in Issues \cup Refusals, Told(j, a),
           j \in Issues /\ a \in Issues => a = owner[PaymentOf[j]] /\ MessageOf[a] = MessageOf[j],
           UNCHANGED <<clock, proc, files, lock, told, owner, scenario>>,
           at' \in [Issues -> 0..MaxClock]
    PROVE  Inv'
<1>1. /\ answer' = [answer EXCEPT ![j] = a] /\ pc' = [pc EXCEPT ![j] = "done"]
      /\ answer \in [Jobs -> Jobs \cup Refusals \cup {"none", "active"}]
      /\ pc \in [Jobs -> {"idle", "missing", "done"}]
      /\ a \in Jobs \cup Refusals
    BY JobNames DEF Told, Inv, TypeOK
<1>2. TypeOK'
    BY <1>1 DEF Inv, TypeOK, files
<1>3. \A i \in Jobs : pc'[i] # "done" => answer'[i] = "none"
    BY <1>1 DEF Inv, LockDiscipline
<1>4. \A i \in Issues : answer'[i] \in Issues =>
          \/ answer'[i] = answer[i]
          \/ answer'[i] = owner[PaymentOf[i]] /\ MessageOf[answer'[i]] = MessageOf[i]
    BY <1>1, JobNames
<1>5. lock' \notin Jobs
    BY JobNames DEF Usable
<1> QED
    BY <1>2, <1>3, <1>4, <1>5, AnswersKeep DEF files

\* lookup_issuance, and whatever fails before the commit.
LEMMA LookupKeeps ==
    ASSUME Inv, NEW j \in Issues, Lookup(j), scenario' = scenario
    PROVE  Inv'
<1> DEFINE claim == mem.claims[PaymentOf[j]]
<1>1. at' \in [Issues -> 0..MaxClock] /\ j \in Jobs
    BY StoreAssumption, JobNames DEF Lookup, Inv, TypeOK
<1>2. /\ Usable /\ pc[j] = "idle" /\ proc # "down" /\ uncertain = "no"
      /\ UNCHANGED <<clock, proc, files, lock, told, owner, scenario>>
    BY DEF Lookup, Usable
<1>3. CASE claim.by # "nobody"
    <2>1. AnswerFrom(claim, j)
        BY <1>3 DEF Lookup
    <2>2. PICK a \in Issues \cup Refusals :
              /\ Told(j, a)
              /\ a \in Issues => a = owner[PaymentOf[j]] /\ MessageOf[a] = MessageOf[j]
        BY <1>2, <1>3, <2>1, AnswerFromOwner
    <2> QED
        BY <1>1, <1>2, <2>2, ToldKeeps
<1>4. CASE Told(j, "rejected")
    BY <1>1, <1>2, <1>4, ToldKeeps, JobNames DEF Refusals
<1>5. CASE pc' = [pc EXCEPT ![j] = "missing"] /\ UNCHANGED answer
    <2>1. TypeOK'
        BY <1>1, <1>2, <1>5 DEF Inv, TypeOK, files
    <2>2. \A i \in Jobs : pc'[i] # "done" => answer'[i] = "none"
        BY <1>2, <1>5 DEF Inv, LockDiscipline, TypeOK
    <2>3. lock' \notin Jobs
        BY <1>2, JobNames DEF Usable
    <2> QED
        BY <1>2, <1>5, <2>1, <2>2, <2>3, AnswersKeep
<1> QED
    BY <1>3, <1>4, <1>5 DEF Lookup

-----------------------------------------------------------------------------
(* One lemma per action *)

\* The rename puts a well-formed snapshot at the path.
LEMMA RenameTypes ==
    ASSUME TypeOK, NEW next \in ContentType, NEW holder \in Jobs \cup {"pruner"},
           Rename(next, holder), UNCHANGED <<clock, proc, job, owner, scenario>>
    PROVE  TypeOK'
<1>1. disk' \in FileImages(ContentType)
    BY ImageParts DEF Rename, Replaced, FileImages
<1> QED
    BY <1>1 DEF TypeOK, Rename, job

\* commit_issuance up to the rename.
LEMMA CommitKeeps ==
    ASSUME Inv, NEW j \in Issues, Commit(j), scenario' = scenario
    PROVE  Inv'
<1> DEFINE claim == mem.claims[PaymentOf[j]]
           next == [mem EXCEPT !.claims[PaymentOf[j]] = Claim(j)]
<1>1. /\ Usable /\ pc[j] = "missing" /\ proc # "down" /\ uncertain = "no" /\ lock = "free"
      /\ UNCHANGED <<clock, proc, at, told, owner, scenario>>
      /\ j \in Jobs /\ at \in [Issues -> 0..MaxClock] /\ at[j] \in 0..MaxClock
    BY JobNames DEF Commit, Usable, Inv, TypeOK
<1>2. CASE claim.by # "nobody" /\ AnswerFrom(claim, j) /\ UNCHANGED <<files, lock>>
    <2>1. PICK a \in Issues \cup Refusals :
              /\ Told(j, a)
              /\ a \in Issues => a = owner[PaymentOf[j]] /\ MessageOf[a] = MessageOf[j]
        BY <1>1, <1>2, AnswerFromOwner
    <2> QED
        BY Zenon, <1>1, <1>2, <2>1, ToldKeeps
<1>3. CASE claim.by = "nobody" /\ Rename(next, j) /\ UNCHANGED <<pc, answer>>
    <2>1. /\ Sound(next)
          /\ \A p \in Payments :
                next.claims[p].by = IF PaymentOf[j] = p THEN j ELSE mem.claims[p].by
          /\ next.paid = mem.paid
        BY Zenon, <1>1, MemorySound, ClaimedKeeps
    <2>2. Rename(next, j) /\ claim.by = "nobody" /\ UNCHANGED job
        BY <1>1, <1>3 DEF job
    <2> HIDE DEF next
    <2>3. TypeOK'
        BY <1>1, <2>1, <2>2, RenameTypes DEF Inv, Sound
    <2> QED
        BY <1>1, <2>1, <2>2, <2>3, RenameKeeps
<1>4. CASE claim.by = "nobody" /\ WriteFails(next) /\ Told(j, "unavailable")
    <2>1. UNCHANGED files
        BY <1>4 DEF WriteFails, RollBack, files
    <2> QED
        BY <1>1, <1>4, <2>1, ToldKeeps, JobNames DEF WriteFails, Refusals
<1> QED
    BY <1>2, <1>3, <1>4 DEF Commit

\* The answer an activation gets when its reference has been paid for.
LEMMA GrantedTypes ==
    ASSUME Inv, NEW j \in Activations, Granted(j)
    PROVE  /\ answer' = [answer EXCEPT ![j] = "active"] /\ pc' = [pc EXCEPT ![j] = "done"]
           /\ told' = [told EXCEPT ![j] = mem.paid[ReferenceOf[j]]]
           /\ answer' \in [Jobs -> Jobs \cup Refusals \cup {"none", "active"}]
           /\ pc' \in [Jobs -> {"idle", "missing", "done"}]
           /\ told' \in [Activations -> Nat]
           /\ \A i \in Jobs : pc'[i] # "done" => answer'[i] = "none"
           /\ \A i \in Issues : answer'[i] = answer[i]
           /\ \A i \in Activations : told'[i] = told[i] \/ told'[i] = mem.paid[ReferenceOf[i]]
<1>1. mem.paid \in [References -> Nat] /\ ReferenceOf[j] \in References
    BY MemorySound, ContentParts, StoreAssumption
<1>2. /\ answer' = [answer EXCEPT ![j] = "active"] /\ pc' = [pc EXCEPT ![j] = "done"]
      /\ told' = [told EXCEPT ![j] = mem.paid[ReferenceOf[j]]]
    BY DEF Granted, Told
<1>3. /\ answer \in [Jobs -> Jobs \cup Refusals \cup {"none", "active"}]
      /\ pc \in [Jobs -> {"idle", "missing", "done"}] /\ told \in [Activations -> Nat]
    BY DEF Inv, TypeOK
<1>4. \A i \in Jobs : pc'[i] # "done" => answer'[i] = "none"
    BY <1>2, <1>3 DEF Inv, LockDiscipline
<1>5. \A i \in Issues : answer'[i] = answer[i]
    BY Zenon, <1>2, <1>3, JobNames
<1> QED
    BY Zenon, <1>1, <1>2, <1>3, <1>4, <1>5

\* activate_subscription up to the rename.
LEMMA ActivateKeeps ==
    ASSUME Inv, NEW j \in Activations, Activate(j), scenario' = scenario
    PROVE  Inv'
<1> DEFINE f == ReferenceOf[j]
           next == Extended(mem, f, clock)
<1>1. /\ Usable /\ pc[j] = "idle" /\ proc # "down" /\ uncertain = "no" /\ lock = "free"
      /\ UNCHANGED <<clock, proc, at, owner, scenario>>
      /\ j \in Jobs /\ j \notin Issues /\ f \in References /\ clock \in Nat \ {0}
      /\ at \in [Issues -> 0..MaxClock]
    BY JobNames, StoreAssumption DEF Activate, Usable, Inv, TypeOK
<1>2. CASE Told(j, "rejected") /\ UNCHANGED <<files, lock, told>>
    BY Zenon, <1>1, <1>2, ToldKeeps DEF Refusals
<1>3. CASE mem.paid[f] # 0 /\ Granted(j) /\ UNCHANGED <<files, lock>>
    <2>1. TypeOK'
        BY SMTT(30), <1>1, <1>3, GrantedTypes DEF Inv, TypeOK, files
    <2>2. lock' \notin Jobs
        BY Zenon, <1>1, <1>3, JobNames
    <2> QED
        BY Zenon, <1>1, <1>3, <2>1, <2>2, GrantedTypes, AnswersKeep
<1>4. CASE mem.paid[f] = 0 /\ Rename(next, j) /\ UNCHANGED <<pc, answer, told>>
    <2>1. /\ Sound(next) /\ next.claims = mem.claims
          /\ \A g \in References : mem.paid[g] # 0 => next.paid[g] = mem.paid[g]
        BY <1>1, <1>4, MemorySound, ExtendedKeeps
    <2>2. Rename(next, j) /\ UNCHANGED job
        BY <1>1, <1>4 DEF job
    <2> HIDE DEF next
    <2>3. TypeOK'
        BY <1>1, <2>1, <2>2, RenameTypes DEF Inv, Sound
    <2> QED
        BY <1>1, <2>1, <2>2, <2>3, RenameKeeps
<1>5. CASE mem.paid[f] = 0 /\ WriteFails(next) /\ Told(j, "unavailable") /\ UNCHANGED told
    <2>1. UNCHANGED files
        BY <1>5 DEF WriteFails, RollBack, files
    <2> QED
        BY <1>1, <1>5, <2>1, ToldKeeps DEF WriteFails, Refusals
<1> QED
    BY <1>2, <1>3, <1>4, <1>5 DEF Activate

\* The directory sync fails: the change stays and the holder is told so.
LEMMA DirSyncFailsKeeps ==
    ASSUME Inv, DirSyncFails, scenario' = scenario
    PROVE  Inv'
<1>1. /\ lock # "free" /\ lock' = "free" /\ proc # "down" /\ proc' = "up"
      /\ UNCHANGED <<clock, files, at, told, owner, scenario>>
      /\ answer \in [Jobs -> Jobs \cup Refusals \cup {"none", "active"}]
      /\ pc \in [Jobs -> {"idle", "missing", "done"}]
      /\ lock \in Jobs \cup {"free", "pruner"} /\ lock' \notin Jobs
    BY JobNames DEF DirSyncFails, Fails, Inv, TypeOK, LockDiscipline
<1>2. \/ UNCHANGED <<pc, answer>>
      \/ /\ lock \in Jobs /\ answer' = [answer EXCEPT ![lock] = "unavailable"]
         /\ pc' = [pc EXCEPT ![lock] = "done"]
    BY <1>1 DEF DirSyncFails, Fails, Told
<1>3. TypeOK'
    BY <1>1, <1>2 DEF Inv, TypeOK, files, Refusals
<1>4. \A j \in Jobs : pc'[j] # "done" => answer'[j] = "none"
    BY <1>1, <1>2 DEF Inv, LockDiscipline
<1>5. \A j \in Issues : answer'[j] \in Issues => answer'[j] = answer[j]
    BY <1>1, <1>2, JobNames DEF Refusals
<1> QED
    BY <1>1, <1>3, <1>4, <1>5, AnswersKeep

\* The directory sync that ends persist.
LEMMA DirSyncKeeps ==
    ASSUME Inv, DirSync, scenario' = scenario
    PROVE  Inv'
<1>1. /\ lock # "free" /\ lock' = "free" /\ proc # "down" /\ proc' = "up"
      /\ UNCHANGED <<clock, mem, at, scenario>>
      /\ disk' = NameSynced(disk) /\ uncertain' = "no" /\ owner' = Discovered(mem)
      /\ lock \in Jobs \cup {"free", "pruner"}
    BY DEF DirSync, Inv, TypeOK, LockDiscipline
<1>2. disk' \in FileImages(ContentType)
    BY Zenon, <1>1 DEF Inv, TypeOK, NameSynced, FileImages
<1>3. owner' \in [Payments -> Issues \cup {"nobody"}]
    BY <1>1, MemorySound, ContentParts DEF Inv, TypeOK, Discovered
<1>4. /\ answer \in [Jobs -> Jobs \cup Refusals \cup {"none", "active"}]
      /\ pc \in [Jobs -> {"idle", "missing", "done"}] /\ told \in [Activations -> Nat]
      /\ clock \in 1..MaxClock /\ mem \in ContentType /\ at \in [Issues -> 0..MaxClock]
      /\ scenario \in Scenarios
    BY Zenon DEF Inv, TypeOK
<1>5. ASSUME answer' \in [Jobs -> Jobs \cup Refusals \cup {"none", "active"}],
             pc' \in [Jobs -> {"idle", "missing", "done"}],
             told' \in [Activations -> Nat],
             \A j \in Jobs : pc'[j] # "done" => answer'[j] = "none",
             \A j \in Issues : answer'[j] \in Issues =>
                 \/ answer'[j] = answer[j]
                 \/ answer'[j] = mem.claims[PaymentOf[j]].by
                    /\ MessageOf[answer'[j]] = MessageOf[j],
             \A j \in Activations : told'[j] = told[j] \/ told'[j] = mem.paid[ReferenceOf[j]]
      PROVE  Inv'
    <2>1. TypeOK'
        BY <1>1, <1>2, <1>3, <1>4, <1>5 DEF TypeOK
    <2> QED
        BY <1>1, <1>5, <2>1, SyncKeeps
<1>6. CASE lock \in Issues
    <2>1. /\ answer' = [answer EXCEPT ![lock] = lock] /\ pc' = [pc EXCEPT ![lock] = "done"]
          /\ told' = told /\ lock \in Jobs
        BY <1>6, JobNames DEF DirSync, Succeeds, Told
    <2>2. mem.claims[PaymentOf[lock]].by = lock
        BY <1>1, <1>6, StoreAssumption DEF Inv, OwnersKnown
    <2>3. \A j \in Jobs : pc'[j] # "done" => answer'[j] = "none"
        BY <1>4, <2>1 DEF Inv, LockDiscipline
    <2>4. \A j \in Issues : answer'[j] \in Issues =>
              \/ answer'[j] = answer[j]
              \/ answer'[j] = mem.claims[PaymentOf[j]].by /\ MessageOf[answer'[j]] = MessageOf[j]
        BY <1>4, <2>1, <2>2, JobNames
    <2> QED
        BY <1>4, <1>5, <2>1, <2>3, <2>4
<1>7. CASE lock \in Activations
    <2>1. Granted(lock)
        BY Zenon, <1>7, JobNames DEF DirSync, Succeeds
    <2> QED
        BY <1>5, <1>7, <2>1, GrantedTypes
<1>8. CASE lock \notin Jobs
    <2>1. UNCHANGED <<pc, answer, told>>
        BY <1>8, JobNames DEF DirSync, Succeeds
    <2> QED
        BY <1>4, <1>5, <2>1 DEF Inv, LockDiscipline
<1> QED
    BY <1>6, <1>7, <1>8 DEF Jobs

\* The prune at startup and every five minutes.
LEMMA PruneKeeps ==
    ASSUME Inv, Prune, scenario' = scenario
    PROVE  Inv'
<1> DEFINE next == Scrubbed(mem, clock)
<1>1. /\ proc # "down" /\ lock = "free" /\ uncertain = "no" /\ UNCHANGED <<clock, job, owner, scenario>>
      /\ clock \in Nat
  <2>1. clock \in 1..MaxClock
      BY Zenon DEF Inv, TypeOK
  <2>2. clock \in Nat
      BY <2>1, StoreAssumption
  <2> QED
      BY Zenon, <2>2 DEF Prune
<1>2. /\ Sound(next) /\ next.paid = mem.paid
      /\ \A p \in Payments : next.claims[p].by = mem.claims[p].by
    BY <1>1, MemorySound, ScrubbedKeeps
<1>3. CASE UNCHANGED <<files, lock>> /\ proc' = "up"
    <2>1. TypeOK'
        BY <1>1, <1>3 DEF Inv, TypeOK, files, job
    <2>2. lock' \notin Jobs /\ \A j \in Jobs : pc'[j] # "done" => answer'[j] = "none"
        BY <1>1, <1>3, JobNames DEF Inv, LockDiscipline, job
    <2> QED
        BY <1>1, <1>3, <2>1, <2>2, AnswersKeep DEF job
<1>4. CASE Rename(next, "pruner") /\ UNCHANGED proc
    <2> HIDE DEF next
    <2>1. TypeOK'
        BY <1>1, <1>2, <1>4, RenameTypes DEF Inv, Sound
    <2>2. "pruner" \in Jobs \cup {"pruner"} /\ "pruner" \notin Jobs /\ "pruner" \notin Issues
        BY JobNames
    <2> QED
        BY <1>1, <1>2, <1>4, <2>1, <2>2, RenameKeeps
<1>5. CASE WriteFails(next) /\ proc' = "up"
    BY <1>3, <1>5 DEF WriteFails, RollBack, files
<1> QED
    BY <1>3, <1>4, <1>5 DEF Prune

\* A restart reads what is at the path, under the same result key or another.
LEMMA OpenKeeps ==
    ASSUME Inv, Open, scenario' = scenario
    PROVE  Inv'
<1>1. PICK c \in {disk.cached, Unsealed(disk.cached)} : mem' = c /\ owner' = Discovered(c)
    BY DEF Open
<1>2. /\ proc = "down" /\ proc' = "starting" /\ uncertain = "no" /\ uncertain' = "no"
      /\ UNCHANGED <<clock, disk, lock, job, scenario>> /\ lock = "free"
      /\ Faults' = Faults
    BY DEF Open, Inv, TypeOK, LockDiscipline, Faults
<1>3. /\ Sound(disk.cached) /\ Sound(c) /\ c.paid = disk.cached.paid
      /\ \A p \in Payments : c.claims[p].by = disk.cached.claims[p].by
    <2>1. Sound(disk.cached)
        BY DEF Inv, AllSound, Survivors
    <2> QED
        BY <1>1, <2>1, UnsealedKeeps
<1>4. Recoverable = {disk.cached} /\ Recoverable' = {disk.cached}
    BY Zenon, <1>2, CachedRecoverable DEF Recoverable, Survivors
<1>5. \A p \in Payments : owner[p] # "nobody" => disk.cached.claims[p].by = owner[p]
    BY <1>4 DEF Inv, OwnersKnown
<1>6. \A p \in Payments : owner'[p] = c.claims[p].by
    BY <1>1, <1>3, <1>5, DiscoveredOwners
<1>7. TypeOK'
    <2>1. owner' \in [Payments -> Issues \cup {"nobody"}] /\ mem' \in ContentType
        BY Zenon, <1>1, <1>3, ContentParts DEF Inv, TypeOK, Discovered, Sound
    <2> QED
        BY Zenon, <1>2, <2>1 DEF Inv, TypeOK, job
<1>8. LockDiscipline'
    BY <1>2, JobNames DEF Inv, LockDiscipline, job
<1>9. MemoryIsSnapshot'
    BY Zenon, <1>1, <1>2 DEF MemoryIsSnapshot
<1>10. OwnersKnown'
    BY Zenon, <1>1, <1>2, <1>3, <1>4, <1>6, JobNames DEF OwnersKnown
<1>11. OwnersAnswer'
    <2> SUFFICES ASSUME NEW j \in Issues, answer[j] \in Issues
                 PROVE  owner'[PaymentOf[j]] = answer[j] /\ MessageOf[answer[j]] = MessageOf[j]
        BY <1>2 DEF OwnersAnswer, job
    <2>1. owner[PaymentOf[j]] = answer[j] /\ MessageOf[answer[j]] = MessageOf[j]
        BY DEF Inv, OwnersAnswer
    <2> QED
        BY Zenon, <1>3, <1>5, <1>6, <2>1, JobNames, StoreAssumption
<1>12. ToldKept'
    BY <1>2, <1>4 DEF Inv, ToldKept, job
<1>13. AllSound'
    BY <1>1, <1>2, <1>3 DEF Inv, AllSound
<1> QED
    BY <1>7, <1>8, <1>9, <1>10, <1>11, <1>12, <1>13 DEF Inv

\* A kill or a power loss: the path leads to something that was recoverable, and
\* whoever was being served gets no answer.
LEMMA HaltKeeps ==
    ASSUME Inv, OneKindOfStop, Halt, scenario' = scenario
    PROVE  Inv'
<1>1. /\ proc' = "down" /\ lock' = "free" /\ uncertain' = "no" /\ mem' = Empty
      /\ UNCHANGED <<clock, at, told, owner, scenario>> /\ Faults' = Faults
    BY DEF Halt, Faults
<1>2. /\ disk' \in FileImages(ContentType) /\ disk'.synced = disk'.cached
      /\ Recoverable' \subseteq Recoverable /\ Survivors(disk') \subseteq Survivors(disk)
      /\ "kill" \notin Faults => disk'.stale = {}
    <2>1. CASE "kill" \in Faults /\ UNCHANGED disk
        BY <1>1, <2>1 DEF Inv, TypeOK, LockDiscipline, Recoverable
    <2>2. ASSUME "power" \in Faults, NEW c \in Survivors(disk), disk' = Settled(c)
          PROVE  /\ disk' \in FileImages(ContentType) /\ disk'.synced = disk'.cached
                 /\ Recoverable' \subseteq Recoverable /\ Survivors(disk') \subseteq Survivors(disk)
                 /\ disk'.stale = {}
        <3>1. "kill" \notin Faults
            BY <2>2 DEF OneKindOfStop
        <3>2. c \in ContentType
            BY ImageParts DEF Survivors, Inv
        <3>3. /\ disk'.cached = c /\ disk'.synced = c /\ disk'.stale = {}
              /\ disk' \in FileImages(ContentType) /\ Survivors(disk') = {c}
            BY <2>2, <3>2 DEF Settled, FileImages, Survivors
        <3> QED
            BY <1>1, <3>1, <3>3 DEF Recoverable
    <2> QED
        BY <2>1, <2>2 DEF Halt
<1>3. /\ \A j \in Jobs : \/ answer'[j] = "lost" /\ pc'[j] = "done"
                         \/ answer'[j] = answer[j] /\ pc'[j] = pc[j]
      /\ answer' \in [Jobs -> Jobs \cup Refusals \cup {"none", "active"}]
      /\ pc' \in [Jobs -> {"idle", "missing", "done"}]
    BY DEF Halt, Inv, TypeOK, Refusals
<1>4. Sound(Empty) /\ Empty \in ContentType
    BY Zenon, EmptySound DEF Sound
<1>5. TypeOK'
    BY ZenonT(40), <1>1, <1>2, <1>3, <1>4 DEF Inv, TypeOK
<1>6. LockDiscipline'
    BY <1>1, <1>2, <1>3, JobNames DEF Inv, LockDiscipline
<1>7. MemoryIsSnapshot'
    BY Zenon, <1>1 DEF MemoryIsSnapshot
<1>8. OwnersKnown'
    BY <1>1, <1>2, JobNames DEF Inv, OwnersKnown
<1>9. OwnersAnswer'
    BY Zenon, <1>1, <1>3, JobNames DEF Inv, OwnersAnswer, Refusals
<1>10. ToldKept'
    BY <1>1, <1>2 DEF Inv, ToldKept
<1>11. AllSound'
    BY <1>1, <1>2, <1>4 DEF Inv, AllSound
<1> QED
    BY Zenon, <1>5, <1>6, <1>7, <1>8, <1>9, <1>10, <1>11 DEF Inv

\* Time passes.
LEMMA TickKeeps ==
    ASSUME Inv, Tick, scenario' = scenario
    PROVE  Inv'
<1>1. UNCHANGED <<proc, files, lock, job, owner, scenario>> /\ clock' \in 1..MaxClock
    BY StoreAssumption DEF Tick, Inv, TypeOK
<1>2. TypeOK'
    BY Zenon, <1>1 DEF Inv, TypeOK, files, job
<1>3. lock' \in Jobs => pc'[lock'] # "done"
    BY <1>1 DEF Inv, LockDiscipline, job
<1>4. \A j \in Jobs : pc'[j] # "done" => answer'[j] = "none"
    BY <1>1 DEF Inv, LockDiscipline, job
<1> QED
    BY Zenon, <1>1, <1>2, <1>3, <1>4, AnswersKeep DEF job

\* Every step of the store keeps the invariant.
LEMMA NextInv == Inv /\ OneKindOfStop /\ [Next]_vars => Inv' /\ OneKindOfStop'
<1> SUFFICES ASSUME Inv, OneKindOfStop, [Next]_vars PROVE Inv' /\ OneKindOfStop'
    OBVIOUS
<1>1. scenario' = scenario /\ OneKindOfStop'
    BY DEF Next, vars, OneKindOfStop, Faults
<1>2. scenario.requests \subseteq Jobs
    BY Zenon, StoreAssumption DEF Inv, TypeOK
<1>3. CASE UNCHANGED vars
    <2>1. TypeOK'
        BY <1>3 DEF Inv, TypeOK, vars, files, job
    <2>2. lock' \in Jobs => pc'[lock'] # "done"
        BY <1>3 DEF Inv, LockDiscipline, vars, job
    <2>3. \A j \in Jobs : pc'[j] # "done" => answer'[j] = "none"
        BY SMTT(30), <1>3 DEF Inv, LockDiscipline, vars, job
    <2> QED
        BY <1>1, <1>3, <2>1, <2>2, <2>3, AnswersKeep DEF vars, job
<1>4. CASE Step
    BY <1>1, <1>2, <1>4, EnsureDurableKeeps, DirSyncKeeps, DirSyncFailsKeeps, PruneKeeps,
       OpenKeeps, HaltKeeps, TickKeeps, RefuseUncertainKeeps, LookupKeeps, CommitKeeps,
       ActivateKeeps DEF Step
<1> QED
    BY <1>1, <1>3, <1>4 DEF Next

\* The invariant gives what callers rely on.
LEMMA InvImplies == Inv => StoreInv /\ OneTokenPerPayment
<1> SUFFICES ASSUME Inv PROVE StoreInv /\ OneTokenPerPayment
    OBVIOUS
<1>1. AnsweredSurvives
  <2>1. ASSUME NEW content \in Recoverable, NEW j \in Issues, answer[j] \in Issues
        PROVE  content.claims[PaymentOf[j]].by = answer[j]
    <3>1. PaymentOf[j] \in Payments
        BY StoreAssumption
    <3>2. owner[PaymentOf[j]] = answer[j] /\ answer[j] # "nobody"
        BY Zenon, <2>1, JobNames DEF Inv, OwnersAnswer
    <3> QED
        BY Zenon, <3>1, <3>2 DEF Inv, OwnersKnown
  <2> QED
      BY Zenon, <2>1 DEF Inv, AnsweredSurvives, ToldKept
<1>2. AnsweredRemembered
    <2> SUFFICES ASSUME proc # "down" PROVE AnsweredRemembered
        BY DEF AnsweredRemembered
    <2>1. /\ \A j \in Issues : answer[j] \in Issues
                                => disk.cached.claims[PaymentOf[j]].by = answer[j]
          /\ \A j \in Activations : told[j] # 0 => disk.cached.paid[ReferenceOf[j]] = told[j]
        BY Zenon, <1>1, CachedRecoverable DEF AnsweredSurvives
    <2>2. /\ \A j \in Issues : mem.claims[PaymentOf[j]].by = disk.cached.claims[PaymentOf[j]].by
          /\ mem.paid = disk.cached.paid
        BY MemoryKnows, StoreAssumption
    <2> QED
        BY Zenon, <2>1, <2>2 DEF AnsweredRemembered
<1>3. EachPaymentItsPeriod /\ \A c \in Survivors(disk) \cup {mem} : ClaimsFiled(c)
    BY DEF Inv, AllSound, Sound, EachPaymentItsPeriod
<1>4. OneTokenPerPayment
    BY DEF Inv, OwnersAnswer, OneTokenPerPayment
<1> QED
    BY <1>1, <1>2, <1>3, <1>4 DEF StoreInv, Inv

-----------------------------------------------------------------------------
(* The theorems *)

\* The invariant holds throughout, when machines fail in one way.
LEMMA AlwaysInv == Spec /\ OneKindOfStop => []Inv /\ []OneKindOfStop
BY InitInv, NextInv, PTL DEF Spec

\* FileStore: memory, snapshot and what callers were told agree after every failed or
\* completed write, kill and restart, or power loss and restart; what was answered is
\* in everything a stop can leave, and every paid reference has a period of its own.
THEOREM StoreIsConsistent == Spec /\ OneKindOfStop => []StoreInv
<1>1. Inv => StoreInv
    BY InvImplies
<1> QED
    BY <1>1, AlwaysInv, PTL

\* issue_logic never sends two signatures for one payment with different messages.
THEOREM TokenPerPayment == Spec /\ OneKindOfStop => []OneTokenPerPayment
<1>1. Inv => OneTokenPerPayment
    BY InvImplies
<1> QED
    BY <1>1, AlwaysInv, PTL

-----------------------------------------------------------------------------
(* One-shot issuance implements the redemption ledger *)

\* The answers the ledger is about: those of issuance attempts.
IssueAnswers == [j \in Issues |-> answer[j]]

\* An answer to an attempt by its payment's owner is an answer of the ledger.
LEMMA ToldSimulates ==
    ASSUME Inv, NEW j \in Issues, pc[j] # "done", NEW a \in Issues \cup Refusals, Told(j, a),
           owner' = owner,
           a \in Issues => a = owner[PaymentOf[j]],
           a = "spent" => owner[PaymentOf[j]] # "nobody"
    PROVE  Ledger!LedgerNext
<1>1. answer[j] = "none" /\ answer \in [Jobs -> Jobs \cup Refusals \cup {"none", "active"}]
    BY JobNames DEF Inv, LockDiscipline, TypeOK
<1>2. IssueAnswers' = [IssueAnswers EXCEPT ![j] = a] /\ IssueAnswers[j] = "none"
    BY Zenon, <1>1, JobNames DEF Told, IssueAnswers
<1>3. Ledger!Told(j, a)
    BY <1>2 DEF Ledger!Told, IssueAnswers
<1> QED
    BY Zenon, <1>3 DEF Ledger!Answer, Ledger!LedgerNext, Ledger!Refusals, Refusals

\* What activations are told is not the ledger's concern.
LEMMA ActivationsStutter ==
    ASSUME Inv, NEW j \in Activations, NEW a, Told(j, a)
    PROVE  IssueAnswers' = IssueAnswers
BY Zenon, JobNames DEF Told, IssueAnswers, Inv, TypeOK

\* A snapshot that is found to be durable makes owners of its claims.
LEMMA DiscoverSimulates ==
    ASSUME Inv, NEW c, Sound(c), \A p \in Payments : owner[p] # "nobody" => c.claims[p].by = owner[p],
           owner' = Discovered(c), IssueAnswers' = IssueAnswers
    PROVE  Ledger!LedgerNext
<1>1. DOMAIN owner' = Payments
    BY Zenon DEF Discovered
<1>2. \A p \in Payments : \/ owner'[p] = owner[p]
                          \/ owner[p] = "nobody" /\ owner'[p] \in {r \in Issues : PaymentOf[r] = p}
    BY Zenon, ContentParts DEF Discovered, Sound, ClaimsFiled
<1> QED
    BY ZenonT(40), <1>1, <1>2 DEF Ledger!Discover, Ledger!LedgerNext, IssueAnswers

\* The holder's own sync is the moment its payment is spent.
LEMMA DirSyncSimulates ==
    ASSUME Inv, DirSync
    PROVE  [Ledger!LedgerNext]_<<owner, IssueAnswers>>
<1>1. lock # "free" /\ proc # "down" /\ lock \in Jobs \cup {"pruner"} /\ owner' = Discovered(mem)
      /\ answer \in [Jobs -> Jobs \cup Refusals \cup {"none", "active"}]
      /\ owner \in [Payments -> Issues \cup {"nobody"}]
    BY ZenonT(40) DEF DirSync, Inv, LockDiscipline, TypeOK
<1>2. owner' \in [Payments -> Issues \cup {"nobody"}] /\ \A p \in Payments : owner'[p] = mem.claims[p].by
    BY ZenonT(40), <1>1, OwnerInMemory, DiscoveredOwners, MemorySound, ContentParts DEF Discovered
<1>3. ASSUME NEW j \in Issues, lock = j
      PROVE  Ledger!LedgerNext
    <2>1. PaymentOf[j] \in Payments /\ owner[PaymentOf[j]] = "nobody"
        BY <1>3, StoreAssumption DEF Inv, OwnersKnown
    <2>2. \A p \in Payments : mem.claims[p].by = IF PaymentOf[j] = p THEN j ELSE owner[p]
        BY <1>1, <1>3 DEF Inv, OwnersKnown
    <2>3. owner' = [owner EXCEPT ![PaymentOf[j]] = j]
        BY <1>1, <1>2, <2>1, <2>2
    <2>4. Told(j, j)
        BY <1>3, JobNames DEF DirSync, Succeeds
    <2>5. answer[j] = "none"
        BY <1>3, JobNames DEF Inv, LockDiscipline
    <2>6. IssueAnswers' = [IssueAnswers EXCEPT ![j] = j] /\ IssueAnswers[j] = "none"
        BY Zenon, <1>1, <1>3, <2>4, <2>5, JobNames DEF Told, IssueAnswers
    <2>7. owner'[PaymentOf[j]] = j /\ j # "spent"
        BY <1>1, <1>3, <2>1, <2>3, JobNames DEF Refusals
    <2>8. Ledger!Commit(j) /\ Ledger!Told(j, j)
        BY <2>1, <2>3, <2>6, <2>7 DEF Ledger!Commit, Ledger!Told, IssueAnswers
    <2> QED
        BY Zenon, <1>3, <2>8 DEF Ledger!Spend, Ledger!LedgerNext
<1>4. CASE lock \notin Issues
    <2>1. owner' = owner
        BY <1>1, <1>2, <1>4 DEF Inv, OwnersKnown
    <2>2. CASE lock \in Activations
        BY <2>1, <2>2, ActivationsStutter, JobNames DEF DirSync, Succeeds, Granted
    <2>3. CASE lock \notin Activations
        BY <1>4, <2>1, <2>3 DEF DirSync, Succeeds, IssueAnswers
    <2> QED
        BY <2>2, <2>3
<1> QED
    BY Zenon, <1>3, <1>4

\* Every step of the store is a step of the ledger or none.
LEMMA StepSimulates ==
    ASSUME Inv, [Next]_vars
    PROVE  [Ledger!LedgerNext]_<<owner, IssueAnswers>>
<1>j. scenario.requests \subseteq Jobs
    BY StoreAssumption DEF Inv, TypeOK
<1>s. ASSUME owner' = owner, answer' = answer PROVE UNCHANGED <<owner, IssueAnswers>>
    BY <1>s DEF IssueAnswers
<1>1. CASE UNCHANGED vars \/ Tick \/ Prune
    BY <1>1, <1>s DEF vars, Tick, Prune, job
<1>2. CASE EnsureDurable
    <2>1. IssueAnswers' = IssueAnswers /\ owner' = Discovered(mem) /\ proc # "down"
        BY <1>2 DEF EnsureDurable, job, IssueAnswers
    <2> QED
        BY <2>1, OwnerInMemory, MemorySound, DiscoverSimulates
<1>3. CASE DirSync
    BY <1>3, DirSyncSimulates
<1>4. CASE DirSyncFails
    <2>1. owner' = owner /\ lock \in Jobs \cup {"pruner"}
        BY Zenon, <1>4 DEF DirSyncFails, Inv, TypeOK
    <2>2. ASSUME NEW j \in Issues, lock = j PROVE Ledger!LedgerNext
        <3>1. Told(j, "unavailable") /\ pc[j] # "done"
            BY <1>4, <2>2, JobNames DEF DirSyncFails, Fails, Inv, LockDiscipline
        <3> QED
            BY <2>1, <3>1, ToldSimulates, JobNames DEF Refusals
    <2>3. CASE lock \in Activations
        <3>1. Told(lock, "unavailable")
            BY <1>4, <2>3, JobNames DEF DirSyncFails, Fails
        <3> QED
            BY <2>1, <2>3, <3>1, ActivationsStutter
    <2>4. CASE lock = "pruner"
        BY SMTT(30), <1>4, <1>s, <2>1, <2>4 DEF DirSyncFails, Fails
    <2> QED
        BY <2>1, <2>2, <2>3, <2>4 DEF Jobs
<1>5. CASE Open
    <2>1. PICK c \in {disk.cached, Unsealed(disk.cached)} : owner' = Discovered(c)
        BY <1>5 DEF Open
    <2>2. Sound(disk.cached)
        BY DEF Inv, AllSound, Survivors
    <2>3. Sound(c) /\ \A p \in Payments : c.claims[p].by = disk.cached.claims[p].by
        BY SMTT(30), <2>1, <2>2, UnsealedKeeps
    <2>4. \A p \in Payments : owner[p] # "nobody" => c.claims[p].by = owner[p]
        BY <2>3, CachedRecoverable DEF Inv, OwnersKnown
    <2>5. IssueAnswers' = IssueAnswers
        BY Zenon, <1>5 DEF Open, job, IssueAnswers
    <2> QED
        BY <2>1, <2>3, <2>4, <2>5, DiscoverSimulates
<1>6. CASE Halt
    <2>1. \A j \in Issues : IssueAnswers'[j] # IssueAnswers[j]
                               => IssueAnswers[j] = "none" /\ IssueAnswers'[j] = "lost"
        <3> SUFFICES ASSUME NEW j \in Issues, answer'[j] # answer[j]
                     PROVE  answer[j] = "none" /\ answer'[j] = "lost"
            BY DEF IssueAnswers
        <3>1. answer'[j] = IF pc[j] = "missing" \/ lock = j THEN "lost" ELSE answer[j]
            BY <1>6, JobNames DEF Halt
        <3>2. pc[j] # "done"
            BY SMTT(30), <3>1, JobNames DEF Inv, LockDiscipline
        <3> QED
            BY <3>1, <3>2, JobNames DEF Inv, LockDiscipline
    <2>2. owner' = owner /\ DOMAIN IssueAnswers' = Issues
        BY <1>6 DEF Halt, IssueAnswers
    <2> QED
        BY <2>1, <2>2 DEF Ledger!Drop, Ledger!LedgerNext, IssueAnswers
<1>7. ASSUME NEW j \in Jobs, RefuseUncertain(j)
      PROVE  [Ledger!LedgerNext]_<<owner, IssueAnswers>>
    <2>1. Told(j, "unavailable") /\ owner' = owner /\ pc[j] # "done"
        BY <1>7 DEF RefuseUncertain
    <2>2. CASE j \in Issues
        BY <2>1, <2>2, ToldSimulates, JobNames DEF Refusals
    <2>3. CASE j \in Activations
        BY Zenon, <2>1, <2>3, ActivationsStutter
    <2> QED
        BY <2>2, <2>3 DEF Jobs
<1>8. ASSUME NEW j \in Issues, Lookup(j)
      PROVE  [Ledger!LedgerNext]_<<owner, IssueAnswers>>
    <2>1. owner' = owner /\ pc[j] # "done" /\ proc # "down" /\ uncertain = "no"
        BY Zenon, <1>8 DEF Lookup, Usable
    <2>2. CASE mem.claims[PaymentOf[j]].by # "nobody"
        BY ZenonT(40), <1>8, <2>1, <2>2, AnswerFromOwner, ToldSimulates DEF Lookup
    <2>3. CASE Told(j, "rejected")
        BY <2>1, <2>3, ToldSimulates, JobNames DEF Refusals
    <2>4. CASE UNCHANGED answer
        BY <1>s, <2>1, <2>4
    <2> QED
        BY Zenon, <1>8, <2>2, <2>3, <2>4 DEF Lookup
<1>9. ASSUME NEW j \in Issues, Commit(j)
      PROVE  [Ledger!LedgerNext]_<<owner, IssueAnswers>>
    <2>1. owner' = owner /\ pc[j] # "done" /\ proc # "down" /\ uncertain = "no"
        BY <1>9 DEF Commit, Usable
    <2>2. CASE mem.claims[PaymentOf[j]].by # "nobody"
        BY <1>9, <2>1, <2>2, AnswerFromOwner, ToldSimulates DEF Commit
    <2>3. CASE Told(j, "unavailable")
        BY <2>1, <2>3, ToldSimulates, JobNames DEF Refusals
    <2>4. CASE UNCHANGED answer
        BY <1>s, <2>1, <2>4
    <2> QED
        BY <1>9, <2>2, <2>3, <2>4 DEF Commit
<1>10. ASSUME NEW j \in Activations, Activate(j)
       PROVE  UNCHANGED <<owner, IssueAnswers>>
    <2>1. owner' = owner /\ (UNCHANGED answer \/ \E a : Told(j, a))
        BY <1>10 DEF Activate, Granted
    <2> QED
        BY Zenon, <1>s, <2>1, ActivationsStutter
<1> QED
    BY <1>j, <1>1, <1>2, <1>3, <1>4, <1>5, <1>6, <1>7, <1>8, <1>9, <1>10 DEF Next, Step

\* One-shot issuance implements the redemption ledger: a payment gets one owner for
\* good, only the owner's signature answers an attempt, and "already claimed" is said
\* only of a payment that has an owner.
THEOREM IssuanceImplementsLedger == Spec /\ OneKindOfStop => KeepsPromise
<1>1. Init => Ledger!LedgerInit
    BY JobNames DEF Init, Ledger!LedgerInit
<1>2. Inv /\ [Next]_vars => [Ledger!LedgerNext]_<<owner, [j \in Issues |-> answer[j]]>>
    BY StepSimulates DEF IssueAnswers
<1> QED
    BY <1>1, <1>2, AlwaysInv, PTL DEF Spec, KeepsPromise, Ledger!LedgerSpec
=============================================================================
