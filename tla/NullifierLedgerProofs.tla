-------------------------- MODULE NullifierLedgerProofs --------------------------
(***************************************************************************)
(* Proofs about the file ledger, for any requests, passes and clocks: type *)
(* correctness, the inductive invariant under tolerated faults, and that   *)
(* it implements RedemptionLedger.                                         *)
(***************************************************************************)
EXTENDS NullifierLedger, TLAPS

-----------------------------------------------------------------------------
(* What the proofs use of the constants *)

\* Every request presents one pass.
LEMMA KeyTypes == KeyOf \in [Requests -> Keys] /\ LegacyKeys \subseteq Keys
  BY LedgerAssumption

\* No request is named like a lock holder, an owner or a refusal.
LEMMA NoRequest ==
    ASSUME NEW r \in Requests
    PROVE  /\ r # "nobody" /\ r # "legacy" /\ r # "none"
           /\ r # "free" /\ r # "sweeper" /\ r # "opener"
           /\ r # "spent" /\ r # "unavailable" /\ r # "rejected" /\ r # "lost"
  BY LedgerAssumption

-----------------------------------------------------------------------------
(* Records and contents *)

\* The three shapes of a ledger line are records.
LEMMA RecordShapes ==
    ASSUME TypeOK, NEW r \in Requests
    PROVE  /\ Absent \in Record
           /\ SpentOnly \in Record
           /\ Sealed(r) \in Record
  BY LedgerAssumption DEF TypeOK, Sealed, Record, ReplayUntil

\* Scrubbing keeps the shape of a ledger, and which passes it marks and for whom.
LEMMA ScrubKeeps ==
    ASSUME NEW records \in Content, NEW now
    PROVE  /\ Scrubbed(records, now) \in Content
           /\ \A k \in Keys :
                /\ Scrubbed(records, now)[k] \in {records[k], SpentOnly}
                /\ Scrubbed(records, now)[k].state = "absent" <=> records[k].state = "absent"
                /\ \A o : Marks(records[k], o) => Marks(Scrubbed(records, now)[k], o)
                /\ Scrubbed(records, now)[k] # records[k] => records[k].state = "sealed"
  <1>1. SpentOnly \in Record
    BY DEF Record
  <1>2. Scrubbed(records, now) \in Content
    BY <1>1 DEF Scrubbed, Content
  <1>3. ASSUME NEW k \in Keys
        PROVE  /\ Scrubbed(records, now)[k] \in {records[k], SpentOnly}
               /\ Scrubbed(records, now)[k].state = "absent" <=> records[k].state = "absent"
               /\ \A o : Marks(records[k], o) => Marks(Scrubbed(records, now)[k], o)
               /\ Scrubbed(records, now)[k] # records[k] => records[k].state = "sealed"
    BY DEF Scrubbed, SpentOnly, Marks
  <1> QED BY <1>2, <1>3

\* Folding the flat ledger in keeps the shape, and only adds spent-only lines for
\* passes of the flat ledger that had none.
LEMMA FoldKeeps ==
    ASSUME NEW records \in Content
    PROVE  /\ Folded(records) \in Content
           /\ \A k \in Keys :
                \/ Folded(records)[k] = records[k]
                \/ /\ k \in legacy
                   /\ records[k].state = "absent"
                   /\ Folded(records)[k] = SpentOnly
           /\ \A k \in Keys \cap legacy : Folded(records)[k].state # "absent"
  <1>1. SpentOnly \in Record
    BY DEF Record
  <1> QED BY <1>1, LedgerAssumption DEF Folded, Content, SpentOnly
-----------------------------------------------------------------------------
(* Type correctness *)

\* Every variable of the ledger starts with its type.
LEMMA InitType == Init => TypeOK
  <1> SUFFICES ASSUME Init PROVE TypeOK
    OBVIOUS
  <1>1. [k \in Keys |-> Absent] \in Content
    BY DEF Record, Content
  <1>2. disk \in FileImages(Content)
    BY <1>1 DEF Init, Settled, FileImages
  <1>3. mem \in Content
    BY <1>1 DEF Init
  <1>4. /\ clock \in 0..MaxClock /\ at \in [Requests -> 0..MaxClock]
        /\ proc \in {"down", "opening", "up"} /\ cipher \in CipherKeys
        /\ handle \in {"open", "none"} /\ legacy \subseteq LegacyKeys /\ lock \in Holders
    BY LedgerAssumption DEF Init, Holders
  <1>5. /\ pc \in [Requests -> {"idle", "proposed", "appended", "syncing", "done"}]
        /\ answer \in [Requests -> Requests \cup Refusals \cup {"none"}]
        /\ owner \in [Keys -> Requests \cup {"nobody", "legacy"}]
        /\ faults \subseteq FaultKinds
    BY LedgerAssumption DEF Init
  <1> QED BY <1>2, <1>3, <1>4, <1>5 DEF TypeOK

\* Every step keeps the types.
LEMMA NextType == TypeOK /\ [Next]_vars => TypeOK'
  <1> SUFFICES ASSUME TypeOK, [Next]_vars PROVE TypeOK'
    OBVIOUS
  <1> USE LedgerAssumption
  <1>f. faults' = faults
    BY DEF Next, vars
  <1> USE <1>f
  <1>a. ASSUME NEW r \in Requests, NEW a \in Requests \cup Refusals, Reply(r, a)
        PROVE  /\ pc' \in [Requests -> {"idle", "proposed", "appended", "syncing", "done"}]
               /\ answer' \in [Requests -> Requests \cup Refusals \cup {"none"}]
    BY <1>a DEF Reply, TypeOK, Refusals
  <1>b. ASSUME NEW who \in Holders, NEW records \in Content, Rename(who, records)
        PROVE  /\ mem' \in Content /\ disk' \in FileImages(Content)
               /\ handle' \in {"open", "none"} /\ lock' \in Holders
    BY <1>b DEF Rename, TypeOK, Replaced, FileImages
  <1>c. SpentOnly \in Record /\ Absent \in Record
    BY DEF Record
  <1>1. ASSUME NEW r \in Requests, Propose(r) PROVE TypeOK'
    BY <1>1 DEF Propose, TypeOK, store
  <1>2. ASSUME NEW r \in Requests, Reject(r) PROVE TypeOK'
    BY <1>2, <1>a DEF Reject, TypeOK, store, Refusals
  <1>3. ASSUME NEW r \in Requests, Replay(r) PROVE TypeOK'
    <2>1. mem[KeyOf[r]].resp \in Requests
      BY <1>3 DEF Replay, Live, TypeOK, Content, Record, Absent, SpentOnly
    <2> QED BY <1>3, <1>a, <2>1 DEF Replay, TypeOK, store, Refusals
  <1>4. ASSUME NEW r \in Requests, RefuseSpent(r) PROVE TypeOK'
    BY <1>4, <1>a DEF RefuseSpent, TypeOK, store, Refusals
  <1>5. ASSUME NEW r \in Requests, ScrubOne(r) PROVE TypeOK'
    <2>1. [mem EXCEPT ![KeyOf[r]] = SpentOnly] \in Content
      BY <1>c DEF TypeOK, Content
    <2>2. CASE /\ Rename(r, [mem EXCEPT ![KeyOf[r]] = SpentOnly])
               /\ IF handle' = "open" THEN pc' = [pc EXCEPT ![r] = "syncing"] /\ UNCHANGED answer
                                      ELSE Reply(r, "unavailable")
               /\ UNCHANGED <<clock, proc, cipher, legacy, owner, at>>
      <3>1. /\ mem' \in Content /\ disk' \in FileImages(Content)
            /\ handle' \in {"open", "none"} /\ lock' \in Holders
        BY <1>b, <2>1, <2>2 DEF Holders
      <3> QED BY <3>1, <2>2 DEF TypeOK, Reply, Refusals
    <2>3. CASE Reply(r, "unavailable") /\ UNCHANGED <<clock, proc, store, lock, at>>
      BY <2>3, <1>a DEF TypeOK, store, Refusals
    <2> QED BY <1>5, <2>2, <2>3 DEF ScrubOne
  <1>6. ASSUME NEW r \in Requests, Append(r) PROVE TypeOK'
    <2>1. [disk.cached EXCEPT ![KeyOf[r]] = Sealed(r)] \in Content
      BY RecordShapes DEF TypeOK, FileImages, Content
    <2>2. disk' \in FileImages(Content)
      BY <1>6, <2>1 DEF Append, Written, TypeOK, FileImages
    <2> QED BY <1>6, <2>2 DEF Append, TypeOK, Holders
  <1>7. ASSUME NEW r \in Requests, RefuseNoHandle(r) PROVE TypeOK'
    BY <1>7, <1>a DEF RefuseNoHandle, TypeOK, store, Refusals
  <1>8. ASSUME NEW r \in Requests, Accept(r) PROVE TypeOK'
    <2>1. mem' \in Content
      BY <1>8, RecordShapes DEF Accept, TypeOK, Content
    <2>2. disk' \in FileImages(Content)
      BY <1>8 DEF Accept, Synced, TypeOK, FileImages
    <2>3. owner' \in [Keys -> Requests \cup {"nobody", "legacy"}]
      BY <1>8 DEF Accept, TypeOK
    <2> QED BY <1>8, <1>a, <2>1, <2>2, <2>3 DEF Accept, TypeOK, Holders
  <1>9. ASSUME NEW r \in Requests, RollBack(r) PROVE TypeOK'
    <2>1. [disk.cached EXCEPT ![KeyOf[r]] = Absent] \in Content
      BY <1>c DEF TypeOK, FileImages, Content
    <2>2. disk' \in FileImages(Content)
      <3>1. Written(disk, [disk.cached EXCEPT ![KeyOf[r]] = Absent]) \in FileImages(Content)
        BY <2>1 DEF Written, TypeOK, FileImages
      <3> QED BY <1>9, <3>1 DEF RollBack, Synced, FileImages
    <2> QED BY <1>9, <1>a, <2>2 DEF RollBack, TypeOK, Holders, Refusals
  <1>10. ASSUME NEW r \in Requests, Poison(r) PROVE TypeOK'
    BY <1>10, <1>a DEF Poison, TypeOK, Holders, Refusals
  <1>11. ASSUME NEW r \in Requests, ScrubSynced(r) PROVE TypeOK'
    <2>1. disk' \in FileImages(Content)
      BY <1>11 DEF ScrubSynced, NameSynced, TypeOK, FileImages
    <2> QED BY <1>11, <1>a, <2>1 DEF ScrubSynced, TypeOK, Holders, Refusals
  <1>12. ASSUME Sweep PROVE TypeOK'
    <2>1. Scrubbed(mem, clock) \in Content
      BY ScrubKeeps DEF TypeOK
    <2>2. /\ mem' \in Content /\ disk' \in FileImages(Content)
          /\ handle' \in {"open", "none"} /\ lock' \in Holders
      BY <1>12, <1>b, <2>1 DEF Sweep, Holders
    <2> QED BY <1>12, <2>2 DEF Sweep, TypeOK
  <1>13. ASSUME SweepSynced PROVE TypeOK'
    <2>1. disk' \in FileImages(Content)
      BY <1>13 DEF SweepSynced, NameSynced, TypeOK, FileImages
    <2> QED BY <1>13, <2>1 DEF SweepSynced, TypeOK, Holders
  <1>14. ASSUME Open PROVE TypeOK'
    <2>1. disk.cached \in Content /\ NameSynced(disk) \in FileImages(Content)
      BY DEF TypeOK, FileImages, NameSynced
    <2>2. /\ Folded(disk.cached) \in Content
          /\ Scrubbed(Folded(disk.cached), clock) \in Content
      BY <2>1, FoldKeeps, ScrubKeeps
    <2>3. Replaced(NameSynced(disk), Scrubbed(Folded(disk.cached), clock)) \in FileImages(Content)
      BY <2>1, <2>2 DEF Replaced, FileImages
    <2>4. disk' \in FileImages(Content)
      BY <1>14, <2>1, <2>3 DEF Open
    <2>5. owner' \in [Keys -> Requests \cup {"nobody", "legacy"}]
      <3>1. ASSUME NEW k \in Keys, Folded(disk.cached)[k].state = "sealed"
            PROVE  Folded(disk.cached)[k].resp \in Requests
        BY <2>2, <3>1 DEF Content, Record, Absent, SpentOnly
      <3> QED BY <1>14, <3>1 DEF Open, Discovered, TypeOK
    <2>6. /\ cipher' \in CipherKeys /\ mem' \in Content /\ handle' \in {"open", "none"}
          /\ proc' \in {"down", "opening", "up"} /\ legacy' \subseteq LegacyKeys
          /\ lock' \in Holders
      BY <1>14, <2>2 DEF Open, TypeOK, Holders
    <2> QED BY <1>14, <2>4, <2>5, <2>6 DEF Open, TypeOK
  <1>15. ASSUME OpenSynced PROVE TypeOK'
    <2>1. disk' \in FileImages(Content)
      BY <1>15 DEF OpenSynced, NameSynced, TypeOK, FileImages
    <2>2. mem' \in Content
      BY <1>15, <1>c DEF OpenSynced, TypeOK, Content
    <2> QED BY <1>15, <2>1, <2>2 DEF OpenSynced, TypeOK, Holders
  <1>16. ASSUME Halt PROVE /\ proc' \in {"down", "opening", "up"} /\ handle' \in {"open", "none"}
                          /\ mem' \in Content /\ lock' \in Holders
                          /\ pc' \in [Requests -> {"idle", "proposed", "appended", "syncing", "done"}]
                          /\ answer' \in [Requests -> Requests \cup Refusals \cup {"none"}]
    BY <1>16, <1>c DEF Halt, TypeOK, Content, Holders, Refusals
  <1>17. ASSUME Kill PROVE TypeOK'
    BY <1>17, <1>16 DEF Kill, Halt, TypeOK
  <1>18. ASSUME PowerLoss PROVE TypeOK'
    <2>1. disk' \in FileImages(Content)
      BY <1>18 DEF PowerLoss, Survivors, Settled, TypeOK, FileImages
    <2> QED BY <1>18, <1>16, <2>1 DEF PowerLoss, Halt, TypeOK
  <1>19. ASSUME Tick PROVE TypeOK'
    BY <1>19, LedgerAssumption DEF Tick, store, TypeOK
  <1>20. ASSUME UNCHANGED vars PROVE TypeOK'
    BY <1>20 DEF vars, TypeOK
  <1> QED
    BY <1>1, <1>2, <1>3, <1>4, <1>5, <1>6, <1>7, <1>8, <1>9, <1>10, <1>11, <1>12, <1>13,
       <1>14, <1>15, <1>17, <1>18, <1>19, <1>20 DEF Next, Step, Serve, Commit

\* FileNullifierStore and redeem_logic: in every behaviour, under any failures, every
\* variable of the ledger keeps its type; a line is absent, spent-only or sealed with
\* the response of a request, under a key and with an expiry.
THEOREM TypeCorrect == Spec => []TypeOK
  <1>1. TypeOK /\ [Next]_vars => TypeOK'
    BY NextType
  <1> QED BY InitType, <1>1, PTL DEF Spec

-----------------------------------------------------------------------------
(* The inductive invariant *)

\* A request between two file operations holds the mutex of a running process alone.
LEMMA HolderAlone ==
    ASSUME LedgerInv, NEW r \in Requests, pc[r] \in {"appended", "syncing"}
    PROVE  /\ proc = "up" /\ lock = r /\ handle = "open"
           /\ \A q \in Requests \ {r} : pc[q] \notin {"appended", "syncing"}
  BY LedgerAssumption DEF LedgerInv, LockInv, TypeOK

\* The map of a running process says who owns each pass.
LEMMA MapTells ==
    ASSUME LedgerInv, proc # "down", NEW k \in Keys
    PROVE  /\ mem[k].state \in {"absent", "spent", "sealed"}
           /\ mem[k].state = "absent" <=> owner[k] = "nobody"
           /\ mem[k].state = "absent" => mem[k] = Absent
           /\ mem[k].state = "sealed" =>
                /\ mem[k].resp \in Requests /\ mem[k].resp = owner[k]
                /\ KeyOf[mem[k].resp] = k /\ k \notin LegacyKeys
  <1>1. mem[k] \in Record
    BY DEF LedgerInv, TypeOK, Content
  <1>2. /\ mem[k].state \in {"absent", "spent", "sealed"}
        /\ mem[k].state = "absent" => mem[k] = Absent
        /\ mem[k].state = "sealed" => mem[k].resp \in Requests
    BY <1>1 DEF Record, Absent, SpentOnly
  <1>3. mem[k].state = "absent" <=> owner[k] = "nobody"
    BY <1>2 DEF LedgerInv, MapInv, Marks
  <1>4. mem[k].state = "sealed" => mem[k].resp = owner[k]
    BY <1>2, <1>3 DEF LedgerInv, MapInv, Marks
  <1> QED BY <1>2, <1>3, <1>4, LedgerAssumption DEF LedgerInv, StrayInv

\* What the name can lead to never includes more than the image's own contents.
LEMMA ImageFacts ==
    ASSUME LedgerInv
    PROVE  /\ CrashImages \subseteq Content
           /\ disk.cached \in CrashImages
           /\ disk.cached \in Content
  BY DEF LedgerInv, TypeOK, FileImages, CrashImages, Survivors

\* The empty ledger satisfies the invariant.
LEMMA InitLedger == Init => LedgerInv
  <1> SUFFICES ASSUME Init PROVE LedgerInv
    OBVIOUS
  <1>1. TypeOK
    BY InitType
  <1>2. CrashImages = {[k \in Keys |-> Absent]}
    BY DEF Init, CrashImages, Survivors, Settled
  <1>3. LockInv /\ AnswerInv
    BY LedgerAssumption DEF Init, LockInv, AnswerInv
  <1>4. FileFollowsMap /\ MapInv
    BY DEF Init, FileFollowsMap, MapInv
  <1>5. StrayInv
    BY <1>2, LedgerAssumption DEF Init, StrayInv, Absent
  <1>6. NameInv
    BY DEF Init, NameInv, Settled
  <1>7. SpentSurvivesCrash
    BY DEF Init, SpentSurvivesCrash
  <1> QED BY <1>1, <1>3, <1>4, <1>5, <1>6, <1>7 DEF LedgerInv

\* A step that answers a waiting request, or lets one in, and leaves the store alone.
LEMMA QuietStep ==
    ASSUME LedgerInv, TypeOK', faults' = faults, UNCHANGED <<proc, store, lock>>,
           NEW r \in Requests, pc[r] \in {"idle", "proposed"},
           \A q \in Requests \ {r} : pc'[q] = pc[q] /\ at'[q] = at[q] /\ answer'[q] = answer[q],
           pc'[r] \in {"proposed", "done"},
           pc'[r] # "done" => answer'[r] = answer[r],
           answer'[r] \in Requests => answer'[r] = owner[KeyOf[r]],
           answer'[r] = "spent" => owner[KeyOf[r]] # "nobody"
    PROVE  LedgerInv'
  <1>1. LockInv'
    BY DEF LedgerInv, LockInv, store
  <1>2. FileFollowsMap'
    <2>1. pc'[r] # "appended" /\ pc[r] # "appended" /\ UNCHANGED <<proc, handle, mem, disk>>
      BY DEF store
    <2>2. ASSUME NEW q \in Requests \ {r} PROVE WithLine(q)' = WithLine(q) /\ pc'[q] = pc[q]
      <3>1. UNCHANGED <<mem, cipher>> /\ at'[q] = at[q] /\ pc'[q] = pc[q]
        BY DEF store
      <3>2. Sealed(q)' = Sealed(q)
        BY <3>1 DEF Sealed
      <3> QED BY <3>1, <3>2 DEF WithLine
    <2> QED BY <2>1, <2>2 DEF LedgerInv, FileFollowsMap
  <1>3. CrashImages' = CrashImages
    BY DEF store, CrashImages
  <1>4. MapInv' /\ StrayInv' /\ SpentSurvivesCrash'
    BY <1>3 DEF LedgerInv, MapInv, StrayInv, SpentSurvivesCrash, store
  <1>5. NameInv'
    BY DEF LedgerInv, NameInv, store
  <1>6. AnswerInv'
    BY DEF LedgerInv, AnswerInv, store
  <1> QED BY <1>1, <1>2, <1>4, <1>5, <1>6 DEF LedgerInv

\* The answers given without touching the file.
LEMMA QuietActions ==
    ASSUME LedgerInv, TypeOK', faults' = faults, NEW r \in Requests,
           Propose(r) \/ Reject(r) \/ Replay(r) \/ RefuseSpent(r) \/ RefuseNoHandle(r)
    PROVE  LedgerInv'
  <1>0. pc \in [Requests -> {"idle", "proposed", "appended", "syncing", "done"}]
        /\ at \in [Requests -> 0..MaxClock]
        /\ answer \in [Requests -> Requests \cup Refusals \cup {"none"}]
    BY DEF LedgerInv, TypeOK
  <1>1. CASE Propose(r)
    <2>1. answer'[r] = "none"
      BY <1>0, <1>1 DEF Propose, LedgerInv, AnswerInv
    <2> QED BY <1>0, <1>1, <2>1, QuietStep, LedgerAssumption DEF Propose
  <1>2. CASE Reject(r)
    BY <1>0, <1>2, QuietStep, LedgerAssumption DEF Reject, Reply
  <1>3. CASE Replay(r)
    <2>1. /\ mem[KeyOf[r]].resp = owner[KeyOf[r]]
          /\ owner[KeyOf[r]] # "nobody"
      BY <1>3, MapTells, LedgerAssumption DEF Replay, Enter, Live
    <2> QED BY SMTT(30), <1>0, <1>3, <2>1, QuietStep, LedgerAssumption DEF Replay, Reply, Enter
  <1>4. CASE RefuseSpent(r)
    <2>1. owner[KeyOf[r]] # "nobody"
      BY <1>4, MapTells, LedgerAssumption DEF RefuseSpent, Enter
    <2> QED BY Zenon, <1>0, <1>4, <2>1, QuietStep, LedgerAssumption DEF RefuseSpent, Reply, Enter
  <1>5. CASE RefuseNoHandle(r)
    BY <1>0, <1>5, QuietStep, LedgerAssumption DEF RefuseNoHandle, Reply, Enter
  <1> QED BY <1>1, <1>2, <1>3, <1>4, <1>5

\* append_and_sync before its fsync: the new line is seen by nobody but its writer.
LEMMA AppendKeeps ==
    ASSUME LedgerInv, TypeOK', faults' = faults, NEW r \in Requests, Append(r)
    PROVE  LedgerInv'
  <1> USE KeyTypes, NoRequest
  <1>a. /\ proc = "up" /\ lock = "free" /\ handle = "open" /\ pc[r] = "proposed"
        /\ mem[KeyOf[r]].state = "absent"
        /\ \A q \in Requests : pc[q] \notin {"appended", "syncing"}
    BY DEF Append, Enter, LedgerInv, LockInv
  <1>b. owner[KeyOf[r]] = "nobody" /\ KeyOf[r] \notin LegacyKeys
    BY <1>a, MapTells DEF LedgerInv, StrayInv
  <1>c. disk.cached = mem
    BY <1>a DEF LedgerInv, FileFollowsMap
  <1>d. disk' = [disk EXCEPT !.cached = WithLine(r)]
    BY <1>c DEF Append, Written, WithLine
  <1>e. /\ disk'.cached = WithLine(r)
        /\ disk'.synced = disk.synced /\ disk'.stale = disk.stale
    BY <1>d DEF LedgerInv, TypeOK, FileImages
  <1>f. CrashImages' \subseteq CrashImages \cup {WithLine(r)}
    BY <1>e DEF CrashImages, Survivors
  <1>g. mem \in CrashImages
    BY <1>c, ImageFacts
  <1>h. mem \in [Keys -> Record]
    BY DEF LedgerInv, TypeOK, Content
  <1>1. LockInv'
    BY <1>a DEF Append, LedgerInv, LockInv, TypeOK
  <1>2. FileFollowsMap'
    <2>1. WithLine(r)' = WithLine(r)
      BY SMTT(30) DEF Append, Sealed, WithLine
    <2>2. /\ pc'[r] = "appended" /\ mem' = mem /\ proc' = "up"
          /\ \A q \in Requests \ {r} : pc'[q] # "appended"
      BY <1>a DEF Append, LedgerInv, TypeOK
    <2> QED BY Zenon, <1>a, <1>e, <2>1, <2>2 DEF FileFollowsMap
  <1>3. MapInv' /\ AnswerInv'
    BY <1>a DEF Append, LedgerInv, MapInv, AnswerInv, TypeOK
  <1>4. StrayInv'
    <2> SUFFICES ASSUME NEW content \in CrashImages', NEW k \in Keys
                 PROVE  /\ content[k].state = "sealed" =>
                              KeyOf[content[k].resp] = k /\ k \notin LegacyKeys
                        /\ content[k].state = "spent" => owner[k] # "nobody"
      BY DEF StrayInv, LedgerInv, Append
    <2>1. CASE content \in CrashImages
      BY <2>1 DEF LedgerInv, StrayInv
    <2>2. CASE content = WithLine(r)
      BY <2>2, <1>b, <1>g, <1>h DEF LedgerInv, StrayInv, WithLine, Sealed
    <2> QED BY SMTT(30), <1>f, <2>1, <2>2
  <1>5. NameInv'
    BY Zenon, <1>a, <1>e DEF Append, LedgerInv, NameInv, TypeOK
  <1>6. SpentSurvivesCrash'
    <2> SUFFICES ASSUME NEW k \in Keys, owner[k] # "nobody", k \notin legacy,
                        NEW content \in CrashImages'
                 PROVE  Marks(content[k], owner[k])
      BY DEF SpentSurvivesCrash, Append
    <2>1. CASE content \in CrashImages
      BY <2>1 DEF LedgerInv, SpentSurvivesCrash
    <2>2. CASE content = WithLine(r)
      BY <2>2, <1>b, <1>g, <1>h DEF LedgerInv, SpentSurvivesCrash, WithLine
    <2> QED BY Zenon, <1>f, <2>1, <2>2
  <1> QED BY <1>1, <1>2, <1>3, <1>4, <1>5, <1>6 DEF LedgerInv

\* The fsync returned: the line is on the medium before the map and the client know.
LEMMA AcceptKeeps ==
    ASSUME LedgerInv, TypeOK', faults' = faults, NEW r \in Requests, Accept(r)
    PROVE  LedgerInv'
  <1> USE KeyTypes, NoRequest
  <1>a. /\ proc = "up" /\ lock = r /\ handle = "open" /\ pc[r] = "appended"
        /\ \A q \in Requests \ {r} : pc[q] \notin {"appended", "syncing"}
    BY HolderAlone DEF Accept
  <1>b. /\ mem[KeyOf[r]].state = "absent"
        /\ disk.cached = WithLine(r)
    BY <1>a DEF LedgerInv, FileFollowsMap
  <1>c. owner[KeyOf[r]] = "nobody" /\ KeyOf[r] \notin LegacyKeys
    BY <1>a, <1>b, MapTells DEF LedgerInv, StrayInv
  <1>d. disk'.cached = mem' /\ disk'.synced = mem' /\ disk'.stale = disk.stale
    BY <1>b DEF Accept, Synced, WithLine, LedgerInv, TypeOK, FileImages
  <1>e. "power" \in faults => disk.stale = {}
    BY <1>a DEF LedgerInv, NameInv
  <1>f. CrashImages' = {mem'}
    BY <1>d, <1>e DEF CrashImages, Survivors
  <1>g. /\ mem' = [mem EXCEPT ![KeyOf[r]] = Sealed(r)] /\ mem \in [Keys -> Record]
        /\ owner' = [owner EXCEPT ![KeyOf[r]] = r]
        /\ owner \in [Keys -> Requests \cup {"nobody", "legacy"}]
        /\ proc' = "up" /\ handle' = "open" /\ lock' = "free" /\ UNCHANGED <<at, cipher, legacy>>
        /\ pc' = [pc EXCEPT ![r] = "done"] /\ answer' = [answer EXCEPT ![r] = r]
        /\ pc \in [Requests -> {"idle", "proposed", "appended", "syncing", "done"}]
        /\ answer \in [Requests -> Requests \cup Refusals \cup {"none"}]
    BY <1>a DEF Accept, Reply, LedgerInv, TypeOK, Content
  <1>1. LockInv'
    BY Zenon, <1>a, <1>g DEF LedgerInv, LockInv
  <1>2. FileFollowsMap'
    BY Zenon, <1>a, <1>d, <1>g DEF FileFollowsMap
  <1>3. MapInv'
    <2> SUFFICES ASSUME NEW k \in Keys
                 PROVE  IF owner'[k] = "nobody" THEN mem'[k].state = "absent"
                                               ELSE Marks(mem'[k], owner'[k])
      BY DEF MapInv
    <2>1. CASE k = KeyOf[r]
      BY <2>1, <1>g DEF Marks, Sealed
    <2>2. CASE k # KeyOf[r]
      BY <2>2, <1>a, <1>g DEF LedgerInv, MapInv
    <2> QED BY <2>1, <2>2
  <1>4. StrayInv'
    <2>1. ASSUME NEW k \in Keys
          PROVE  /\ mem'[k].state = "sealed" => KeyOf[mem'[k].resp] = k /\ k \notin LegacyKeys
                 /\ mem'[k].state = "spent" => owner'[k] # "nobody"
      <3>1. CASE k = KeyOf[r]
        BY <3>1, <1>c, <1>g DEF Sealed
      <3>2. CASE k # KeyOf[r]
        BY SMTT(30), <3>2, <1>a, <1>g, MapTells
      <3> QED BY <3>1, <3>2
    <2>2. ASSUME NEW k \in Keys
          PROVE  /\ owner'[k] \in Requests => KeyOf[owner'[k]] = k
                 /\ k \in LegacyKeys <=> owner'[k] = "legacy"
      BY Zenon, <1>c, <1>g DEF LedgerInv, StrayInv
    <2> QED BY <1>f, <2>1, <2>2 DEF StrayInv
  <1>5. NameInv'
    BY <1>d, <1>e, <1>g DEF NameInv
  <1>6. SpentSurvivesCrash'
    BY <1>3, <1>f, <1>g DEF SpentSurvivesCrash, MapInv
  <1>7. AnswerInv'
    BY <1>c, <1>g DEF LedgerInv, AnswerInv
  <1> QED BY <1>1, <1>2, <1>3, <1>4, <1>5, <1>6, <1>7 DEF LedgerInv

\* A failed append leaves the file as the map knows it, or no handle to append with.
LEMMA FailedAppendKeeps ==
    ASSUME LedgerInv, TypeOK', faults' = faults, NEW r \in Requests, RollBack(r) \/ Poison(r)
    PROVE  LedgerInv'
  <1> USE KeyTypes, NoRequest
  <1>a. /\ proc = "up" /\ lock = r /\ handle = "open" /\ pc[r] = "appended"
        /\ \A q \in Requests \ {r} : pc[q] \notin {"appended", "syncing"}
    BY Zenon, HolderAlone DEF RollBack, Poison
  <1>b. /\ mem[KeyOf[r]].state = "absent"
        /\ disk.cached = WithLine(r)
    BY Zenon, <1>a DEF LedgerInv, FileFollowsMap
  <1>g. /\ proc' = "up" /\ lock' = "free" /\ UNCHANGED <<at, cipher, legacy, mem, owner>>
        /\ pc' = [pc EXCEPT ![r] = "done"] /\ answer' = [answer EXCEPT ![r] = "unavailable"]
        /\ pc \in [Requests -> {"idle", "proposed", "appended", "syncing", "done"}]
        /\ answer \in [Requests -> Requests \cup Refusals \cup {"none"}]
        /\ mem \in [Keys -> Record]
    BY Zenon, <1>a DEF RollBack, Poison, Reply, LedgerInv, TypeOK, Content
  <1>1. LockInv'
    BY <1>a, <1>g DEF LedgerInv, LockInv
  <1>2. MapInv' /\ AnswerInv'
    BY <1>a, <1>g DEF LedgerInv, MapInv, AnswerInv
  <1>3. CASE RollBack(r)
    <2>1. mem[KeyOf[r]] = Absent
      BY ZenonT(40), <1>a, <1>b, MapTells
    <2>2. [disk.cached EXCEPT ![KeyOf[r]] = Absent] = mem
      <3>1. [WithLine(r) EXCEPT ![KeyOf[r]] = Absent] \in [Keys -> Record \cup {Absent, Sealed(r)}]
        BY <1>g DEF WithLine
      <3>2. ASSUME NEW k \in Keys
            PROVE  [WithLine(r) EXCEPT ![KeyOf[r]] = Absent][k] = mem[k]
        BY <1>g, <2>1 DEF WithLine
      <3> QED BY Zenon, <1>b, <1>g, <3>1, <3>2
    <2>3. disk'.cached = mem /\ disk'.synced = mem /\ disk'.stale = disk.stale
      BY <1>3, <2>2 DEF RollBack, Synced, Written, LedgerInv, TypeOK, FileImages
    <2>4. "power" \in faults => disk.stale = {}
      BY <1>a DEF LedgerInv, NameInv
    <2>5. CrashImages' = {mem}
      BY <2>3, <2>4 DEF CrashImages, Survivors
    <2>6. FileFollowsMap'
      BY Zenon, <1>a, <1>g, <2>3 DEF FileFollowsMap
    <2>7. StrayInv'
      BY ZenonT(40), <1>a, <1>g, <2>5, MapTells DEF LedgerInv, StrayInv
    <2>8. NameInv'
      BY Zenon, <1>g, <2>3, <2>4 DEF NameInv
    <2>9. SpentSurvivesCrash'
      BY <1>2, <1>g, <2>5 DEF SpentSurvivesCrash, MapInv
    <2> QED BY Zenon, <1>1, <1>2, <2>6, <2>7, <2>8, <2>9 DEF LedgerInv
  <1>4. CASE Poison(r)
    <2>1. disk' = disk /\ handle' = "none"
      BY <1>4 DEF Poison
    <2>2. CrashImages' = CrashImages
      BY <2>1 DEF CrashImages
    <2>3. FileFollowsMap' /\ NameInv'
      BY Zenon, <1>g, <2>1 DEF FileFollowsMap, NameInv
    <2>o. owner' = owner /\ legacy' = legacy
      BY Zenon, <1>g
    <2>4. StrayInv'
      BY ZenonT(40), <2>o, <2>2 DEF LedgerInv, StrayInv
    <2>5. SpentSurvivesCrash'
      BY ZenonT(40), <2>o, <2>2 DEF LedgerInv, SpentSurvivesCrash
    <2> QED BY Zenon, <1>1, <1>2, <2>3, <2>4, <2>5 DEF LedgerInv
  <1> QED BY Zenon, <1>3, <1>4

-----------------------------------------------------------------------------
(* Rewriting the file *)

\* rewrite_locked up to its directory sync, when it only scrubs sealed lines: both the
\* old and the new file keep every spent pass.
LEMMA RenameKeeps ==
    ASSUME LedgerInv, faults' = faults, NEW who, NEW records \in Content, Rename(who, records),
           proc = "up", lock = "free", UNCHANGED <<proc, legacy, owner>>,
           \A k \in Keys : records[k] = mem[k] \/ (mem[k].state = "sealed" /\ records[k] = SpentOnly)
    PROVE  /\ MapInv' /\ StrayInv' /\ SpentSurvivesCrash'
           /\ disk'.cached = mem' /\ disk'.synced = mem' /\ mem' = records
  <1>1. disk'.cached = mem' /\ disk'.synced = mem' /\ mem' = records
    BY DEF Rename, Replaced
  <1>2. CrashImages' \subseteq CrashImages \cup {records}
    BY DEF Rename, Replaced, CrashImages, Survivors
  <1>3. ASSUME NEW k \in Keys
        PROVE  /\ records[k].state = "sealed" => KeyOf[records[k].resp] = k /\ k \notin LegacyKeys
               /\ records[k].state = "spent" => owner[k] # "nobody"
               /\ IF owner[k] = "nobody" THEN records[k].state = "absent"
                                         ELSE Marks(records[k], owner[k])
    <2>1. CASE records[k] = mem[k]
      BY <2>1, MapTells DEF LedgerInv, MapInv
    <2>2. CASE mem[k].state = "sealed" /\ records[k] = SpentOnly
      BY <2>2, MapTells DEF SpentOnly, Marks
    <2> QED BY <2>1, <2>2
  <1>4. MapInv'
    BY ZenonT(40), <1>1, <1>3 DEF MapInv
  <1>5. StrayInv'
    BY <1>2, <1>3 DEF LedgerInv, StrayInv
  <1>6. SpentSurvivesCrash'
    <2> SUFFICES ASSUME NEW k \in Keys, owner[k] # "nobody", k \notin legacy,
                        NEW content \in CrashImages'
                 PROVE  Marks(content[k], owner[k])
      BY DEF SpentSurvivesCrash
    <2>1. CASE content \in CrashImages
      BY <2>1 DEF LedgerInv, SpentSurvivesCrash
    <2>2. CASE content = records
      BY <2>2, <1>3
    <2> QED BY <1>2, <2>1, <2>2
  <1> QED BY Zenon, <1>1, <1>4, <1>5, <1>6

\* The directory sync only takes away contents the name could have fallen back to.
LEMMA FewerImages ==
    ASSUME LedgerInv, UNCHANGED <<owner, legacy, faults>>,
           disk' = NameSynced(disk) \/ disk' = disk
    PROVE  /\ StrayInv' /\ SpentSurvivesCrash'
           /\ disk'.cached = disk.cached /\ disk'.synced = disk.synced
           /\ disk' = NameSynced(disk) => disk'.stale = {}
  <1>1. /\ disk'.cached = disk.cached /\ disk'.synced = disk.synced
        /\ disk'.stale \subseteq disk.stale
        /\ disk' = NameSynced(disk) => disk'.stale = {}
    BY DEF NameSynced, LedgerInv, TypeOK, FileImages
  <1>2. CrashImages' \subseteq CrashImages
    BY <1>1 DEF CrashImages, Survivors
  <1> QED BY <1>1, <1>2 DEF LedgerInv, StrayInv, SpentSurvivesCrash

\* A redemption that meets an expired result scrubs it.
LEMMA ScrubOneKeeps ==
    ASSUME LedgerInv, TypeOK', faults' = faults, NEW r \in Requests, ScrubOne(r)
    PROVE  LedgerInv'
  <1> USE KeyTypes, NoRequest
  <1>t. /\ pc \in [Requests -> {"idle", "proposed", "appended", "syncing", "done"}]
        /\ answer \in [Requests -> Requests \cup Refusals \cup {"none"}]
        /\ mem \in Content
    BY DEF LedgerInv, TypeOK
  <1>a. /\ proc = "up" /\ lock = "free" /\ pc[r] = "proposed"
        /\ mem[KeyOf[r]].state = "sealed"
        /\ \A q \in Requests : pc[q] \notin {"appended", "syncing"}
    BY DEF ScrubOne, Enter, LedgerInv, LockInv
  <1>1. CASE /\ Rename(r, [mem EXCEPT ![KeyOf[r]] = SpentOnly])
             /\ IF handle' = "open" THEN pc' = [pc EXCEPT ![r] = "syncing"] /\ UNCHANGED answer
                                    ELSE Reply(r, "unavailable")
             /\ UNCHANGED <<clock, proc, cipher, legacy, owner, at>>
    <2>1. [mem EXCEPT ![KeyOf[r]] = SpentOnly] \in Content
      BY <1>t DEF Content, Record
    <2>2. \A k \in Keys : \/ [mem EXCEPT ![KeyOf[r]] = SpentOnly][k] = mem[k]
                          \/ /\ mem[k].state = "sealed"
                            /\ [mem EXCEPT ![KeyOf[r]] = SpentOnly][k] = SpentOnly
      BY <1>a, <1>t DEF Content
    <2>3. /\ MapInv' /\ StrayInv' /\ SpentSurvivesCrash'
          /\ disk'.cached = mem' /\ mem' = [mem EXCEPT ![KeyOf[r]] = SpentOnly]
      BY <1>1, <1>a, <2>1, <2>2, RenameKeeps, Zenon
    <2>4. mem'[KeyOf[r]].state = "spent"
      BY <1>t, <2>3 DEF SpentOnly, Content
    <2>5. \/ handle' = "open" /\ lock' = r /\ pc' = [pc EXCEPT ![r] = "syncing"] /\ answer' = answer
          \/ /\ handle' = "none" /\ lock' = "free" /\ pc' = [pc EXCEPT ![r] = "done"]
             /\ answer' = [answer EXCEPT ![r] = "unavailable"]
      BY <1>1, <1>a DEF Rename, Reply
    <2>p. UNCHANGED <<proc, owner>>
      BY <1>1
    <2>6. CASE /\ handle' = "open" /\ lock' = r
               /\ pc' = [pc EXCEPT ![r] = "syncing"] /\ answer' = answer
      <3>1. pc'[r] = "syncing" /\ \A q \in Requests \ {r} : pc'[q] = pc[q]
        BY <1>t, <2>6
      <3>2. LockInv'
        BY Zenon, <1>a, <2>4, <2>6, <2>p, <3>1 DEF LockInv
      <3>3. FileFollowsMap' /\ NameInv'
        BY <1>a, <2>3, <2>6, <2>p, <3>1 DEF FileFollowsMap, NameInv
      <3>4. AnswerInv'
        BY <1>a, <2>6, <2>p, <3>1 DEF LedgerInv, AnswerInv
      <3> QED BY <2>3, <3>2, <3>3, <3>4 DEF LedgerInv
    <2>7. CASE /\ handle' = "none" /\ lock' = "free" /\ pc' = [pc EXCEPT ![r] = "done"]
               /\ answer' = [answer EXCEPT ![r] = "unavailable"]
      <3>1. /\ pc'[r] = "done" /\ \A q \in Requests \ {r} : pc'[q] = pc[q] /\ answer'[q] = answer[q]
            /\ answer'[r] = "unavailable"
        BY <1>t, <2>7
      <3>2. LockInv'
        BY Zenon, <1>a, <2>7, <2>p, <3>1 DEF LockInv
      <3>3. FileFollowsMap' /\ NameInv'
        BY Zenon, <1>a, <2>7, <2>p DEF FileFollowsMap, NameInv
      <3>4. AnswerInv'
        BY <1>a, <2>p, <3>1 DEF LedgerInv, AnswerInv
      <3> QED BY <2>3, <3>2, <3>3, <3>4 DEF LedgerInv
    <2> QED BY <2>5, <2>6, <2>7
  <1>2. CASE Reply(r, "unavailable") /\ UNCHANGED <<clock, proc, store, lock, at>>
    BY SMTT(30), <1>2, <1>a, <1>t, QuietStep DEF Reply
  <1> QED BY <1>1, <1>2 DEF ScrubOne

\* The directory sync of a scrub; under tolerated faults it fails only where the
\* power cannot.
LEMMA ScrubSyncedKeeps ==
    ASSUME ToleratedFaults, LedgerInv, TypeOK', faults' = faults, NEW r \in Requests, ScrubSynced(r)
    PROVE  LedgerInv'
  <1> USE KeyTypes, NoRequest
  <1>a. /\ proc = "up" /\ lock = r /\ handle = "open" /\ pc[r] = "syncing"
        /\ \A q \in Requests \ {r} : pc[q] \notin {"appended", "syncing"}
        /\ mem[KeyOf[r]].state = "spent"
    BY HolderAlone DEF ScrubSynced, LedgerInv, LockInv
  <1>b. owner[KeyOf[r]] # "nobody"
    BY <1>a, MapTells
  <1>c. /\ UNCHANGED <<proc, cipher, mem, handle, legacy, at, owner>> /\ lock' = "free"
        /\ pc'[r] = "done" /\ \A q \in Requests \ {r} : pc'[q] = pc[q] /\ answer'[q] = answer[q]
        /\ answer'[r] \in {"spent", "unavailable"}
        /\ disk' = NameSynced(disk) \/ (disk' = disk /\ "dirsync" \in faults)
    <2>1. /\ pc \in [Requests -> {"idle", "proposed", "appended", "syncing", "done"}]
          /\ answer \in [Requests -> Requests \cup Refusals \cup {"none"}]
      BY DEF LedgerInv, TypeOK
    <2>2. CASE disk' = NameSynced(disk) /\ Reply(r, "spent")
      BY <2>1, <2>2 DEF ScrubSynced, Reply
    <2>3. CASE "dirsync" \in faults /\ disk' = disk /\ Reply(r, "unavailable")
      BY Zenon, <2>1, <2>3 DEF ScrubSynced, Reply
    <2> QED BY <2>2, <2>3 DEF ScrubSynced
  <1>d. /\ StrayInv' /\ SpentSurvivesCrash'
        /\ disk'.cached = disk.cached /\ disk'.synced = disk.synced
        /\ disk' = NameSynced(disk) => disk'.stale = {}
    BY <1>c, FewerImages
  <1>1. LockInv'
    BY Zenon, <1>a, <1>c DEF LedgerInv, LockInv
  <1>2. FileFollowsMap'
    BY <1>a, <1>c, <1>d DEF LedgerInv, FileFollowsMap
  <1>3. MapInv'
    BY Zenon, <1>c DEF LedgerInv, MapInv
  <1>4. NameInv'
    BY Zenon, <1>a, <1>c, <1>d DEF NameInv, ToleratedFaults
  <1>5. AnswerInv'
    BY <1>b, <1>c DEF LedgerInv, AnswerInv
  <1> QED BY <1>1, <1>2, <1>3, <1>4, <1>5, <1>d DEF LedgerInv

-----------------------------------------------------------------------------
(* The steps of the sweeper, of open and of the machine *)

\* The sweeper's rewrite of the whole ledger, also of one whose handle was dropped.
LEMMA SweepKeeps ==
    ASSUME LedgerInv, TypeOK', faults' = faults, Sweep
    PROVE  LedgerInv'
  <1> USE KeyTypes, NoRequest
  <1>a. /\ proc = "up" /\ lock = "free" /\ UNCHANGED <<proc, cipher, legacy, pc, at, answer, owner>>
        /\ \A q \in Requests : pc[q] \notin {"appended", "syncing"}
        /\ mem \in Content
    BY Zenon DEF Sweep, LedgerInv, LockInv, TypeOK
  <1>b. /\ Scrubbed(mem, clock) \in Content
        /\ \A k \in Keys : \/ Scrubbed(mem, clock)[k] = mem[k]
                           \/ mem[k].state = "sealed" /\ Scrubbed(mem, clock)[k] = SpentOnly
    <2>1. mem \in Content
      BY Zenon, <1>a
    <2>2. Scrubbed(mem, clock) \in Content
      BY Zenon, <2>1, ScrubKeeps
    <2>3. ASSUME NEW k \in Keys
          PROVE  /\ Scrubbed(mem, clock)[k] \in {mem[k], SpentOnly}
                 /\ Scrubbed(mem, clock)[k] # mem[k] => mem[k].state = "sealed"
      BY Zenon DEF Scrubbed
    <2> QED BY Zenon, <2>2, <2>3
  <1>c. /\ MapInv' /\ StrayInv' /\ SpentSurvivesCrash' /\ disk'.cached = mem'
    BY <1>a, <1>b, RenameKeeps DEF Sweep
  <1>d. \/ handle' = "open" /\ lock' = "sweeper"
        \/ handle' = "none" /\ lock' = "free"
    BY <1>a DEF Sweep, Rename
  <1>1. LockInv'
    BY <1>a, <1>d DEF LedgerInv, LockInv
  <1>2. FileFollowsMap' /\ NameInv'
    BY <1>a, <1>c, <1>d DEF FileFollowsMap, NameInv
  <1>3. AnswerInv'
    BY Zenon, <1>a DEF LedgerInv, AnswerInv
  <1> QED BY Zenon, <1>1, <1>2, <1>3, <1>c DEF LedgerInv

\* The sweeper's directory sync.
LEMMA SweepSyncedKeeps ==
    ASSUME ToleratedFaults, LedgerInv, TypeOK', faults' = faults, SweepSynced
    PROVE  LedgerInv'
  <1> USE KeyTypes, NoRequest
  <1>a. /\ proc = "up" /\ handle = "open" /\ lock' = "free"
        /\ UNCHANGED <<proc, cipher, mem, handle, legacy, pc, at, answer, owner>>
        /\ \A q \in Requests : pc[q] \notin {"appended", "syncing"}
        /\ disk' = NameSynced(disk) \/ (disk' = disk /\ "dirsync" \in faults)
    BY SMTT(30) DEF SweepSynced, LedgerInv, LockInv, TypeOK
  <1>b. /\ StrayInv' /\ SpentSurvivesCrash'
        /\ disk'.cached = disk.cached /\ disk'.synced = disk.synced
        /\ disk' = NameSynced(disk) => disk'.stale = {}
    BY Zenon, <1>a, FewerImages
  <1>1. LockInv'
    BY <1>a DEF LedgerInv, LockInv
  <1>2. FileFollowsMap'
    BY <1>a, <1>b DEF LedgerInv, FileFollowsMap
  <1>3. MapInv' /\ AnswerInv'
    BY <1>a DEF LedgerInv, MapInv, AnswerInv
  <1>4. NameInv'
    BY <1>a, <1>b DEF NameInv, ToleratedFaults
  <1> QED BY Zenon, <1>1, <1>2, <1>3, <1>4, <1>b DEF LedgerInv

\* FileNullifierStore::open: whatever content the crash left, the new map marks every
\* owned pass, and every line it finds has an owner from now on.
LEMMA OpenKeeps ==
    ASSUME LedgerInv, TypeOK', faults' = faults, Open
    PROVE  LedgerInv'
  <1> USE KeyTypes, NoRequest
  <1> DEFINE old    == disk.cached
             loaded == Folded(old)
             kept   == Scrubbed(loaded, clock)
  <1>a. /\ proc = "down" /\ lock = "free" /\ UNCHANGED <<pc, at, answer>>
        /\ \A q \in Requests : pc[q] \notin {"appended", "syncing"}
        /\ mem' = kept /\ handle' = "open" /\ owner' = Discovered(loaded)
    BY SMTT(30) DEF Open, LedgerInv, LockInv
  <1>b. old \in Content /\ loaded \in Content /\ kept \in Content /\ old \in CrashImages
    BY ImageFacts, FoldKeeps, ScrubKeeps
  <1>fold. ASSUME NEW k \in Keys
           PROVE  /\ \/ loaded[k] = old[k]
                     \/ k \in legacy /\ old[k].state = "absent" /\ loaded[k] = SpentOnly
                  /\ k \in legacy => loaded[k].state # "absent"
    BY Zenon, <1>b, FoldKeeps
  <1>scrub. ASSUME NEW k \in Keys
            PROVE  /\ kept[k] \in {loaded[k], SpentOnly}
                   /\ kept[k].state = "absent" <=> loaded[k].state = "absent"
                   /\ \A o : Marks(loaded[k], o) => Marks(kept[k], o)
    BY ZenonT(40) DEF Scrubbed, SpentOnly, Marks
  <1>step. IF kept = old
           THEN /\ proc' = "up" /\ legacy' = {} /\ lock' = lock /\ disk' = NameSynced(disk)
           ELSE /\ proc' = "opening" /\ legacy' = legacy /\ lock' = "opener"
                /\ disk' = Replaced(NameSynced(disk), kept)
    BY DEF Open
  <1>own. ASSUME NEW k \in Keys
          PROVE  owner'[k] = IF owner[k] = "nobody" /\ loaded[k].state = "sealed"
                             THEN loaded[k].resp ELSE owner[k]
    BY <1>a DEF Discovered
  <1> HIDE DEF loaded, kept
  <1>t. /\ owner \in [Keys -> Requests \cup {"nobody", "legacy"}] /\ legacy \subseteq LegacyKeys
    BY Zenon DEF LedgerInv, TypeOK
  <1>c. ASSUME NEW k \in Keys
        PROVE  /\ old[k].state \in {"absent", "spent", "sealed"}
               /\ old[k].state = "sealed" => /\ old[k].resp \in Requests
                                            /\ KeyOf[old[k].resp] = k /\ k \notin LegacyKeys
               /\ old[k].state = "spent" => owner[k] # "nobody"
               /\ owner[k] # "nobody" => k \in legacy \/ Marks(old[k], owner[k])
    <2>1. old[k] \in Record
      BY <1>b DEF Content
    <2>2. /\ old[k].state \in {"absent", "spent", "sealed"}
          /\ old[k].state = "sealed" => old[k].resp \in Requests
      BY SMTT(30), <2>1 DEF Record, Absent, SpentOnly
    <2> QED BY SMTT(30), <2>2, <1>b DEF LedgerInv, StrayInv, SpentSurvivesCrash
  <1>d. ASSUME NEW k \in Keys
        PROVE  /\ loaded[k].state \in {"absent", "spent", "sealed"}
               /\ loaded[k].state = "sealed" => loaded[k] = old[k]
               /\ loaded[k].state = "spent" => owner[k] # "nobody"
               /\ owner[k] # "nobody" => Marks(loaded[k], owner[k])
               /\ loaded[k] # old[k] => k \in legacy
    <2>1. k \in legacy => owner[k] = "legacy"
      BY Zenon, <1>t DEF LedgerInv, StrayInv
    <2> QED BY <1>c, <1>t, <1>fold, <2>1 DEF SpentOnly, Marks
  <1>e. ASSUME NEW k \in Keys
        PROVE  /\ owner'[k] = IF owner[k] = "nobody" /\ loaded[k].state = "sealed"
                              THEN loaded[k].resp ELSE owner[k]
               /\ owner'[k] = "nobody" <=> loaded[k].state = "absent"
               /\ owner'[k] # "nobody" => Marks(loaded[k], owner'[k])
    BY SMTT(30), <1>own, <1>c, <1>d DEF Marks
  <1>f. ASSUME NEW k \in Keys
        PROVE  /\ kept[k].state = "sealed" => kept[k] = old[k]
               /\ owner'[k] = "nobody" <=> kept[k].state = "absent"
               /\ owner'[k] # "nobody" => Marks(kept[k], owner'[k])
    <2>1. kept[k].state = "sealed" => kept[k] = loaded[k]
      BY <1>scrub DEF SpentOnly
    <2>2. kept[k].state = "sealed" => loaded[k].state = "sealed" /\ loaded[k] = old[k]
      BY Zenon, <1>d, <2>1
    <2> QED BY Zenon, <1>e, <1>scrub, <2>1, <2>2
  <1>g. /\ disk'.cached = kept
        /\ \/ proc' = "up" /\ lock' = "free" /\ legacy' = {} /\ kept = old
              /\ disk'.synced = disk.synced /\ disk'.stale = {}
           \/ proc' = "opening" /\ lock' = "opener" /\ legacy' = legacy
              /\ disk'.synced = kept /\ disk'.stale = {old, disk.synced}
    <2>1. disk \in FileImages(Content)
      BY DEF LedgerInv, TypeOK
    <2>2. CASE kept = old
      BY <1>a, <1>step, <2>1, <2>2 DEF NameSynced, FileImages
    <2>3. CASE kept # old
      <3>1. disk' = Replaced(NameSynced(disk), kept) /\ proc' = "opening" /\ lock' = "opener"
            /\ legacy' = legacy
        BY <1>step, <2>3
      <3>2. /\ disk'.cached = kept /\ disk'.synced = kept
            /\ disk'.stale = NameSynced(disk).stale \cup {NameSynced(disk).cached, NameSynced(disk).synced}
        BY <3>1 DEF Replaced
      <3>3. NameSynced(disk).stale = {} /\ NameSynced(disk).cached = old
            /\ NameSynced(disk).synced = disk.synced
        BY <2>1 DEF NameSynced, FileImages
      <3> QED BY <3>1, <3>2, <3>3
    <2> QED BY <2>2, <2>3
  <1>h. "power" \in faults => disk.synced = old
    BY <1>a DEF LedgerInv, NameInv
  <1>i. CrashImages' \subseteq IF proc' = "up" THEN {kept} ELSE {kept, old}
    <2>1. CASE proc' = "up"
      BY <2>1, <1>g, <1>h DEF CrashImages, Survivors
    <2>2. CASE proc' # "up"
      BY <2>2, <1>g, <1>h DEF CrashImages, Survivors
    <2> QED BY <2>1, <2>2
  <1>1. LockInv'
    BY <1>a, <1>g DEF LockInv
  <1>2. FileFollowsMap' /\ NameInv'
    BY Zenon, <1>a, <1>g, <1>h DEF FileFollowsMap, NameInv
  <1>3. MapInv'
    BY <1>a, <1>f DEF MapInv
  <1>4. StrayInv'
    <2>1. ASSUME NEW k \in Keys
          PROVE  /\ kept[k].state = "sealed" => KeyOf[kept[k].resp] = k /\ k \notin LegacyKeys
                 /\ kept[k].state = "spent" => owner'[k] # "nobody"
                 /\ old[k].state = "spent" => owner'[k] # "nobody"
      BY ZenonT(40), <1>c, <1>f, <1>own
    <2>2. ASSUME NEW k \in Keys
          PROVE  /\ owner'[k] \in Requests => KeyOf[owner'[k]] = k
                 /\ k \in LegacyKeys <=> owner'[k] = "legacy"
      <3>1. CASE owner[k] = "nobody" /\ loaded[k].state = "sealed"
        <4>1. loaded[k] = old[k] /\ old[k].state = "sealed" /\ owner'[k] = old[k].resp
          BY Zenon, <1>d, <1>own, <3>1
        <4>2. old[k].resp \in Requests /\ KeyOf[old[k].resp] = k /\ k \notin LegacyKeys
          BY Zenon, <1>c, <4>1
        <4>3. old[k].resp # "legacy"
          BY Zenon, <4>2, NoRequest
        <4> QED BY Zenon, <4>1, <4>2, <4>3
      <3>2. CASE ~(owner[k] = "nobody" /\ loaded[k].state = "sealed")
        BY Zenon, <1>own, <3>2 DEF LedgerInv, StrayInv
      <3> QED BY Zenon, <3>1, <3>2
    <2>3. ASSUME NEW content \in CrashImages', NEW k \in Keys
          PROVE  /\ content[k].state = "sealed" =>
                        KeyOf[content[k].resp] = k /\ k \notin LegacyKeys
                 /\ content[k].state = "spent" => owner'[k] # "nobody"
      <3>1. content \in {kept, old}
        BY Zenon, <1>i
      <3> QED BY <1>c, <2>1, <3>1
    <2> QED BY Zenon, <2>2, <2>3 DEF StrayInv
  <1>5. SpentSurvivesCrash'
    <2>1. ASSUME NEW k \in Keys, owner'[k] # "nobody", k \notin legacy
          PROVE  Marks(old[k], owner'[k])
      BY ZenonT(40), <2>1, <1>d, <1>e
    <2> QED BY Zenon, <1>f, <1>g, <1>i, <2>1 DEF SpentSurvivesCrash
  <1>6. AnswerInv'
    <2>1. \A k \in Keys : owner[k] # "nobody" => owner'[k] = owner[k]
      BY <1>e
    <2> QED BY ZenonT(40), <1>a, <2>1 DEF LedgerInv, AnswerInv
  <1> QED BY Zenon, <1>1, <1>2, <1>3, <1>4, <1>5, <1>6 DEF LedgerInv

\* The directory sync that ends open, or its failure, which closes the store again.
LEMMA OpenSyncedKeeps ==
    ASSUME LedgerInv, TypeOK', faults' = faults, OpenSynced
    PROVE  LedgerInv'
  <1> USE KeyTypes, NoRequest
  <1>a. /\ proc = "opening" /\ lock' = "free"
        /\ UNCHANGED <<cipher, pc, at, answer, owner>>
        /\ \A q \in Requests : pc[q] \notin {"appended", "syncing"}
        /\ disk.cached = mem /\ disk.synced = mem
        /\ disk \in FileImages(Content)
    BY Zenon DEF OpenSynced, LedgerInv, LockInv, TypeOK, FileFollowsMap
  <1>b. AnswerInv'
    BY Zenon, <1>a DEF LedgerInv, AnswerInv
  <1>1. CASE disk' = NameSynced(disk) /\ proc' = "up" /\ legacy' = {} /\ UNCHANGED <<mem, handle>>
    <2>1. disk'.cached = mem /\ disk'.synced = mem /\ disk'.stale = {}
      BY <1>1, <1>a DEF NameSynced, FileImages
    <2>2. CrashImages' = {mem}
      BY <2>1 DEF CrashImages, Survivors
    <2>3. MapInv'
      BY Zenon, <1>1, <1>a DEF LedgerInv, MapInv
    <2>4. SpentSurvivesCrash'
      BY Zenon, <1>1, <1>a, <2>2, <2>3 DEF SpentSurvivesCrash, MapInv
    <2>5. StrayInv'
      BY Zenon, <1>a, <2>2, MapTells DEF LedgerInv, StrayInv
    <2>6. LockInv' /\ FileFollowsMap' /\ NameInv'
      BY <1>1, <1>a, <2>1 DEF LockInv, FileFollowsMap, NameInv
    <2> QED BY <1>b, <2>3, <2>4, <2>5, <2>6 DEF LedgerInv
  <1>2. CASE /\ disk' = disk /\ proc' = "down" /\ legacy' = legacy
             /\ mem' = [k \in Keys |-> Absent] /\ handle' = "none"
    <2>1. CrashImages' = CrashImages
      BY Zenon, <1>2 DEF CrashImages
    <2>2. StrayInv' /\ SpentSurvivesCrash'
      BY ZenonT(40), <1>2, <1>a, <2>1 DEF LedgerInv, StrayInv, SpentSurvivesCrash
    <2>3. LockInv' /\ FileFollowsMap' /\ NameInv' /\ MapInv'
      BY <1>2, <1>a DEF LockInv, FileFollowsMap, NameInv, MapInv
    <2> QED BY <1>b, <2>2, <2>3 DEF LedgerInv
  <1> QED BY Zenon, <1>1, <1>2 DEF OpenSynced

\* The process or the machine stops between any two file operations.
LEMMA HaltKeeps ==
    ASSUME ToleratedFaults, LedgerInv, TypeOK', faults' = faults, Kill \/ PowerLoss
    PROVE  LedgerInv'
  <1> USE KeyTypes, NoRequest
  <1>a. /\ proc' = "down" /\ lock' = "free" /\ handle' = "none" /\ owner' = owner
        /\ \A q \in Requests : pc'[q] \in {"idle", "done"} /\ (pc'[q] = "idle" => pc[q] = "idle")
        /\ \A q \in Requests : answer'[q] # answer[q] =>
                answer'[q] = "lost" /\ pc[q] \notin {"idle", "done"}
    BY Zenon DEF Kill, PowerLoss, Halt
  <1>1. LockInv' /\ FileFollowsMap' /\ MapInv'
    BY <1>a DEF LockInv, FileFollowsMap, MapInv
  <1>2. AnswerInv'
    <2>1. \A q \in Requests : answer'[q] = answer[q] \/ answer'[q] = "lost"
      BY Zenon, <1>a
    <2> QED BY <1>a, <2>1 DEF LedgerInv, AnswerInv
  <1>3. CASE Kill
    <2>1. "power" \notin faults
      BY <1>3 DEF Kill, ToleratedFaults
    <2>2. CrashImages' = CrashImages
      BY <1>3 DEF Kill, CrashImages
    <2> QED BY Zenon, <1>1, <1>2, <1>3, <1>a, <2>1, <2>2
            DEF LedgerInv, Kill, StrayInv, SpentSurvivesCrash, NameInv
  <1>4. CASE PowerLoss
    <2>1. PICK content \in Survivors(disk) : disk' = Settled(content)
      BY <1>4 DEF PowerLoss
    <2>2. disk'.cached = content /\ disk'.synced = content /\ disk'.stale = {}
      BY <2>1 DEF Settled
    <2>3. CrashImages' = {content} /\ content \in CrashImages
      BY Zenon, <1>4, <2>2 DEF PowerLoss, CrashImages, Survivors
    <2>4. legacy \subseteq legacy'
      BY Zenon, <1>4 DEF PowerLoss, LedgerInv, TypeOK
    <2>5. StrayInv' /\ SpentSurvivesCrash'
      <3>1. StrayInv'
        <4>1. \A c \in CrashImages' : c \in CrashImages
          BY Zenon, <2>3
        <4>2. owner' = owner /\ StrayInv
          BY Zenon, <1>a DEF LedgerInv
        <4> QED BY SMTT(30), <4>1, <4>2 DEF StrayInv
      <3>2. SpentSurvivesCrash'
        BY Zenon, <1>a, <2>3, <2>4 DEF LedgerInv, SpentSurvivesCrash
      <3> QED BY <3>1, <3>2
    <2>6. NameInv'
      <3>1. proc' = "down" /\ disk'.synced = disk'.cached
        BY <1>a, <2>2
      <3> QED BY <3>1 DEF NameInv
    <2> QED BY <1>1, <1>2, <2>5, <2>6 DEF LedgerInv
  <1> QED BY <1>3, <1>4

\* Time passes, or nothing happens.
LEMMA IdleKeeps ==
    ASSUME LedgerInv, TypeOK', faults' = faults, Tick \/ UNCHANGED vars
    PROVE  LedgerInv'
  <1>1. UNCHANGED <<proc, cipher, mem, handle, disk, legacy, owner, lock, pc, at, answer>>
    BY DEF Tick, vars, store
  <1>2. CrashImages' = CrashImages
    BY <1>1 DEF CrashImages
  <1>3. FileFollowsMap'
    <2>1. ASSUME NEW r \in Requests PROVE WithLine(r)' = WithLine(r)
      BY <1>1 DEF WithLine, Sealed
    <2> QED BY Zenon, <1>1, <2>1 DEF LedgerInv, FileFollowsMap
  <1>4. LockInv' /\ AnswerInv'
    BY Zenon, <1>1 DEF LedgerInv, LockInv, AnswerInv
  <1>5. MapInv' /\ NameInv'
    BY Zenon, <1>1 DEF LedgerInv, MapInv, NameInv
  <1>6. StrayInv' /\ SpentSurvivesCrash'
    BY <1>1, <1>2 DEF LedgerInv, StrayInv, SpentSurvivesCrash
  <1> QED BY <1>3, <1>4, <1>5, <1>6 DEF LedgerInv

\* Every step of the ledger keeps the invariant, under tolerated faults.
LEMMA NextLedger ==
    ASSUME ToleratedFaults, LedgerInv, [Next]_vars
    PROVE  LedgerInv'
  <1>1. TypeOK' /\ faults' = faults
    BY NextType DEF LedgerInv, Next, vars
  <1> QED
    BY <1>1, QuietActions, AppendKeeps, AcceptKeeps, FailedAppendKeeps, ScrubOneKeeps,
       ScrubSyncedKeeps, SweepKeeps, SweepSyncedKeeps, OpenKeeps, OpenSyncedKeeps,
       HaltKeeps, IdleKeeps
    DEF Next, Step, Serve, Commit

\* What may happen in a behaviour is settled at its start.
LEMMA StaysTolerated == ToleratedFaults /\ [Next]_vars => ToleratedFaults'
  BY DEF ToleratedFaults, Next, vars

\* FileNullifierStore: the inductive invariant holds in every behaviour with tolerated
\* faults.
THEOREM LedgerInvariant == Spec /\ ToleratedFaults => []LedgerInv
  <1>1. ToleratedFaults /\ LedgerInv /\ [Next]_vars => LedgerInv'
    BY NextLedger
  <1> QED BY InitLedger, StaysTolerated, <1>1, PTL DEF Spec

\* redeem_logic over FileNullifierStore: however many requests race for a pass, however
\* often appends fail, expired results are scrubbed and the process restarts, at most
\* one path is ever answered for the pass.
THEOREM OneResponse == Spec /\ ToleratedFaults => []OneResponsePerPass
  <1>1. LedgerInv => OneResponsePerPass
    BY DEF LedgerInv, AnswerInv, OneResponsePerPass
  <1> QED BY LedgerInvariant, <1>1, PTL

\* FileNullifierStore: a pass that was ever spent is marked spent in every content a
\* crash can leave behind, at every moment of every file operation.
THEOREM SpentIsForever == Spec /\ ToleratedFaults => []SpentSurvivesCrash
  <1>1. LedgerInv => SpentSurvivesCrash
    BY DEF LedgerInv
  <1> QED BY LedgerInvariant, <1>1, PTL

\* append_and_sync and rewrite_locked: the map is the file whenever the mutex is free
\* and the handle open.
THEOREM MapMatchesFile == Spec /\ ToleratedFaults => []MapIsFile
  <1>1. LedgerInv => MapIsFile
    BY LedgerAssumption DEF LedgerInv, MapIsFile, FileFollowsMap, LockInv
  <1> QED BY LedgerInvariant, <1>1, PTL

-----------------------------------------------------------------------------
(* The file ledger implements RedemptionLedger *)

\* An answer to a waiting request that agrees with the owner is an abstract Answer.
LEMMA ReplyIsAnswer ==
    ASSUME LedgerInv, NEW r \in Requests, pc[r] # "done",
           NEW a \in Requests \cup Refusals, Reply(r, a), owner' = owner,
           a \in Requests => a = owner[KeyOf[r]],
           a = "spent" => owner[KeyOf[r]] # "nobody"
    PROVE  Ledger!LedgerNext
  <1>1. answer[r] = "none" /\ answer' = [answer EXCEPT ![r] = a]
    BY Zenon DEF Reply, LedgerInv, AnswerInv
  <1>2. Ledger!Told(r, a)
    BY Zenon, <1>1 DEF Ledger!Told
  <1>3. Ledger!Answer(r)
    BY Zenon, <1>2 DEF Ledger!Answer, Ledger!Refusals, Refusals
  <1> QED BY <1>3 DEF Ledger!LedgerNext

\* Every step of the file ledger is a step of the abstract one, or a stutter.
LEMMA StepSimulation ==
    ASSUME LedgerInv, [Next]_vars
    PROVE  [Ledger!LedgerNext]_<<owner, answer>>
  <1> USE KeyTypes, NoRequest
  <1>1. ASSUME NEW r \in Requests,
               Reject(r) \/ RefuseNoHandle(r) \/ RollBack(r) \/ Poison(r)
        PROVE  Ledger!LedgerNext
    <2>1. \E a \in {"rejected", "unavailable"} : Reply(r, a) /\ owner' = owner /\ pc[r] # "done"
      BY Zenon, <1>1 DEF Reject, RefuseNoHandle, RollBack, Poison, Enter, store
    <2> QED BY Zenon, <2>1, ReplyIsAnswer DEF Refusals
  <1>2. ASSUME NEW r \in Requests, Replay(r) PROVE Ledger!LedgerNext
    <2>1. /\ mem[KeyOf[r]].resp \in Requests /\ mem[KeyOf[r]].resp = owner[KeyOf[r]]
          /\ owner[KeyOf[r]] # "nobody" /\ pc[r] # "done" /\ owner' = owner
          /\ Reply(r, mem[KeyOf[r]].resp) \/ Reply(r, "spent")
      BY <1>2, MapTells DEF Replay, Enter, Live, store
    <2> QED BY SMTT(30), <2>1, ReplyIsAnswer DEF Refusals
  <1>3. ASSUME NEW r \in Requests, RefuseSpent(r) PROVE Ledger!LedgerNext
    <2>1. /\ owner[KeyOf[r]] # "nobody" /\ pc[r] # "done" /\ owner' = owner /\ Reply(r, "spent")
      BY <1>3, MapTells DEF RefuseSpent, Enter, store
    <2> QED BY Zenon, <2>1, ReplyIsAnswer DEF Refusals
  <1>4. ASSUME NEW r \in Requests, ScrubOne(r) PROVE [Ledger!LedgerNext]_<<owner, answer>>
    <2>1. /\ pc[r] # "done" /\ owner' = owner
          /\ answer' = answer \/ Reply(r, "unavailable")
      BY <1>4 DEF ScrubOne, Enter, store
    <2> QED BY <2>1, ReplyIsAnswer DEF Refusals
  <1>5. ASSUME NEW r \in Requests, ScrubSynced(r) PROVE Ledger!LedgerNext
    <2>1. owner[KeyOf[r]] # "nobody"
      BY <1>5, HolderAlone, MapTells DEF ScrubSynced, LedgerInv, LockInv
    <2>2. /\ pc[r] # "done" /\ owner' = owner
          /\ Reply(r, "spent") \/ Reply(r, "unavailable")
      BY <1>5 DEF ScrubSynced
    <2> QED BY Zenon, <2>1, <2>2, ReplyIsAnswer DEF Refusals
  <1>6. ASSUME NEW r \in Requests, Accept(r) PROVE Ledger!LedgerNext
    <2>1. owner[KeyOf[r]] = "nobody"
      <3>1. pc[r] = "appended"
        BY <1>6 DEF Accept
      <3>2. proc = "up" /\ handle = "open"
        BY <3>1, HolderAlone
      <3>3. mem[KeyOf[r]].state = "absent"
        BY <3>1, <3>2 DEF LedgerInv, FileFollowsMap
      <3> QED BY <3>2, <3>3, MapTells
    <2>2. /\ owner' = [owner EXCEPT ![KeyOf[r]] = r] /\ answer[r] = "none"
          /\ answer' = [answer EXCEPT ![r] = r]
      BY <1>6 DEF Accept, Reply, LedgerInv, AnswerInv
    <2>3. owner'[KeyOf[r]] = r
      BY <2>2 DEF LedgerInv, TypeOK
    <2>4. Ledger!Commit(r) /\ Ledger!Told(r, r)
      BY <2>1, <2>2, <2>3 DEF Ledger!Commit, Ledger!Told
    <2> QED BY <2>4 DEF Ledger!Spend, Ledger!LedgerNext
  <1>7. ASSUME Open PROVE Ledger!LedgerNext
    <2>1. answer' = answer /\ owner' = Discovered(Folded(disk.cached))
      BY Zenon, <1>7 DEF Open
    <2>2. ASSUME NEW k \in Keys, Folded(disk.cached)[k].state = "sealed"
          PROVE  /\ Folded(disk.cached)[k].resp \in Requests
                 /\ KeyOf[Folded(disk.cached)[k].resp] = k
      <3>1. Folded(disk.cached)[k] = disk.cached[k]
        BY <2>2, ImageFacts, FoldKeeps DEF SpentOnly
      <3>2. disk.cached[k] \in Record
        BY Zenon, ImageFacts DEF Content
      <3>3. disk.cached[k].resp \in Requests
        BY SMTT(30), <2>2, <3>1, <3>2 DEF Record, Absent, SpentOnly
      <3>4. disk.cached[k].state = "sealed" /\ disk.cached \in CrashImages
        BY Zenon, <2>2, <3>1, ImageFacts
      <3>5. KeyOf[disk.cached[k].resp] = k
        BY Zenon, <3>4 DEF LedgerInv, StrayInv
      <3> QED BY Zenon, <3>1, <3>3, <3>5
    <2>3. Ledger!Discover
      BY <2>1, <2>2 DEF Discovered, Ledger!Discover
    <2> QED BY <2>3 DEF Ledger!LedgerNext
  <1>8. ASSUME Kill \/ PowerLoss PROVE Ledger!LedgerNext
    <2>1. /\ owner' = owner
          /\ answer' = [r \in Requests |-> IF pc[r] \in {"idle", "done"} THEN answer[r] ELSE "lost"]
      BY <1>8 DEF Kill, PowerLoss, Halt
    <2>2. Ledger!Drop
      BY <2>1 DEF Ledger!Drop, LedgerInv, AnswerInv
    <2> QED BY <2>2 DEF Ledger!LedgerNext
  <1>9. ASSUME \/ \E r \in Requests : Propose(r) \/ Append(r)
               \/ Sweep \/ SweepSynced \/ OpenSynced \/ Tick \/ UNCHANGED vars
        PROVE  UNCHANGED <<owner, answer>>
    <2>1. ASSUME NEW r \in Requests, Propose(r) \/ Append(r) PROVE UNCHANGED <<owner, answer>>
      BY <2>1 DEF Propose, Append, store
    <2>2. ASSUME Sweep \/ SweepSynced \/ OpenSynced \/ Tick PROVE UNCHANGED <<owner, answer>>
      BY <2>2 DEF Sweep, SweepSynced, OpenSynced, Tick, store
    <2> QED BY SMTT(30), <1>9, <2>1, <2>2 DEF vars
  <1> QED BY <1>1, <1>2, <1>3, <1>4, <1>5, <1>6, <1>7, <1>8, <1>9 DEF Next, Step, Serve, Commit

\* FileNullifierStore implements the promise of the ledger: one owner per pass, never
\* taken away, and every answer in agreement with it.
THEOREM Implements == Spec /\ ToleratedFaults => KeepsPromise
  <1>1. Init => Ledger!LedgerInit
    BY LedgerAssumption DEF Init, Ledger!LedgerInit
  <1>2. LedgerInv /\ [Next]_vars => [Ledger!LedgerNext]_<<owner, answer>>
    BY StepSimulation
  <1> QED BY <1>1, <1>2, LedgerInvariant, PTL DEF Spec, KeepsPromise, Ledger!LedgerSpec
=============================================================================
