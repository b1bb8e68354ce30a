------------------------- MODULE CoordinatorProofs -------------------------
(***************************************************************************)
(* Proofs about nil-coordinator.  The path selector is sound and complete, *)
(* for every registry, number of hops, order of candidates and behaviour   *)
(* of the health checker; replicas over one nullifier table spend a pass   *)
(* once, for any replicas, requests, passes, key lists, lifetimes and      *)
(* limits.                                                                 *)
(***************************************************************************)
EXTENDS PathSelection, CoordinatorCluster, FiniteSetTheorems, TLAPS

-----------------------------------------------------------------------------
(* Redemption by replicas: constants, keys and rows *)

Rows == [by : Requests \cup {"nobody"}, until : Nat]

\* No request has the name of a marker or of a refusal.
LEMMA RequestNames ==
    /\ "nobody" \notin Requests /\ "rejected" \notin Requests
    /\ \A a \in Refusals : a \notin Requests
BY FleetAssumption

\* Whatever the spelling, the key of a request is the lowercase one of its pass.
LEMMA KeyOfRequest ==
    ASSUME NEW r \in Requests
    PROVE  /\ NullifierKey(r) = <<PassOf[r], "lower">> /\ NullifierKey(r) \in KeyNames
           /\ NullifierKey(r)[1] = PassOf[r] /\ PassOf[r] \in Passes
<1>1. PassOf[r] \in Passes
    BY FleetAssumption
<1>2. NullifierKey(r) = <<PassOf[r], "lower">>
    BY DEF NullifierKey, Canonical
<1> QED
    BY <1>1, <1>2 DEF KeyNames

\* COMMIT_SQL leaves a row whose owner is the first request for the pass; a live answer
\* is its owner's and is kept, a dead one is cleared.
LEMMA UpsertedRow ==
    ASSUME TypeOK, RowsAndAnswers, NEW r \in Requests
    PROVE  LET row == rows[NullifierKey(r)]
               new == Upserted(r)
           IN  /\ new \in Rows /\ new.by \in Requests
               /\ new.by = IF row.by = "nobody" THEN r ELSE row.by
               /\ new.until \in {0, now[new.by] + GrantTtl}
               /\ row.by = "nobody" => new.until = now[r] + GrantTtl /\ new.until > now[r]
<1> DEFINE row == rows[NullifierKey(r)]
           new == Upserted(r)
<1>1. row \in Rows /\ NullifierKey(r) \in KeyNames
    BY KeyOfRequest DEF TypeOK, Rows
<1>2. now[r] \in Nat /\ now[r] + GrantTtl \in Nat /\ now[r] + GrantTtl > now[r]
    BY FleetAssumption DEF TypeOK
<1>3. row.by # "nobody" => row.by \in Requests /\ row.until \in {0, now[row.by] + GrantTtl}
    BY <1>1 DEF RowsAndAnswers, Rows
<1>4. CASE row.by = "nobody"
    <2>1. new = [by |-> r, until |-> now[r] + GrantTtl]
        BY <1>4 DEF Upserted
    <2>2. new \in Rows /\ new.by = r /\ new.until = now[r] + GrantTtl
        BY <1>2, <2>1 DEF Rows
    <2> QED
        BY <1>2, <1>4, <2>2
<1>5. CASE row.by # "nobody" /\ row.until > now[r]
    <2>1. new = row
        BY <1>5 DEF Upserted
    <2> QED
        BY <1>1, <1>3, <1>5, <2>1
<1>6. CASE row.by # "nobody" /\ ~(row.until > now[r])
    <2>1. new = [row EXCEPT !.until = 0]
        BY <1>6 DEF Upserted
    <2>2. new \in Rows /\ new.by = row.by /\ new.until = 0
        BY <1>1, <2>1 DEF Rows
    <2> QED
        BY <1>3, <1>6, <2>2
<1> QED
    BY <1>4, <1>5, <1>6

\* The conjuncts of ClusterInv beside the types.
SafetyInv == WaitingWasAdmitted /\ RowsAndAnswers /\ AnswersAreLive /\ SpentWhileValid

-----------------------------------------------------------------------------
(* Types *)

Buckets == [start : 0..MaxClock, used : Nat]

\* An empty table, idle requests and no hits.
LEMMA InitTypes == ASSUME Init PROVE TypeOK
<1>1. NoBucket \in Buckets /\ NoRow \in Rows
    BY FleetAssumption DEF NoBucket, NoRow, Buckets, Rows
<1> QED
    BY <1>1, FleetAssumption DEF Init, TypeOK, Refusals, Rows, Buckets

\* redeem up to the ledger: one request starts, at one replica's limiter.
LEMMA AdmitTypes ==
    ASSUME TypeOK, NEW r \in Requests, Admit(r)
    PROVE  TypeOK'
<1>1. /\ UNCHANGED <<clock, generation, rows, scenario>>
      /\ now' = [now EXCEPT ![r] = clock]
      /\ \E a \in {"commit", "done"} : pc' = [pc EXCEPT ![r] = a]
      /\ answer' = answer \/ \E a \in Refusals : answer' = [answer EXCEPT ![r] = a]
    BY DEF Admit, Finish, Refusals
<1>2. hits' \in [Replicas -> [Clients -> Buckets]]
    <2>1. hits \in [Replicas -> [Clients -> Buckets]] /\ clock \in 0..MaxClock
        BY DEF TypeOK, Buckets
    <2>2. CASE hits' = hits
        BY <2>1, <2>2
    <2>3. CASE Attributed(r) /\ hits' = [hits EXCEPT ![ReplicaOf[r]][ClientOf(r)] =
                                            Hit(hits[ReplicaOf[r]][ClientOf(r)])]
        <3> DEFINE p == ReplicaOf[r]
                   c == ClientOf(r)
                   b == Hit(hits[p][c])
        <3>1. p \in Replicas /\ c \in Clients
            BY <2>3, FleetAssumption DEF Attributed, ClientOf
        <3>2. hits' = [hits EXCEPT ![p][c] = b]
            BY <2>3
        <3> HIDE DEF p, c
        <3>3. hits[p][c] \in Buckets
            BY <2>1, <3>1
        <3>4. b \in Buckets
            BY <2>1, <3>3 DEF Hit, Buckets
        <3> HIDE DEF b
        <3> QED
            BY <2>1, <3>1, <3>2, <3>4
    <2> QED
        BY <2>2, <2>3 DEF Admit
<1> QED
    BY Zenon, <1>1, <1>2 DEF TypeOK, Buckets

\* Every other step.
LEMMA OtherTypes ==
    ASSUME TypeOK, RowsAndAnswers,
           \/ \E r \in Requests : Upsert(r) \/ TimesOut(r) \/ ArrivesLate(r)
           \/ \E p \in Replicas : Prune(p) \/ Redeploy(p)
           \/ Tick \/ UNCHANGED vars
    PROVE  TypeOK'
<1>r. \A r \in Requests : /\ Upserted(r) \in Rows /\ NullifierKey(r) \in KeyNames
                          /\ Outcome(Upserted(r), r) \in Requests \cup Refusals
    BY UpsertedRow, KeyOfRequest DEF Outcome, Refusals
<1>1. ASSUME NEW r \in Requests, Upsert(r) PROVE TypeOK'
    BY <1>1, <1>r DEF Upsert, Finish, TypeOK, Rows
<1>2. ASSUME NEW r \in Requests, TimesOut(r) PROVE TypeOK'
    BY <1>2 DEF TimesOut, TypeOK, Refusals
<1>3. ASSUME NEW r \in Requests, ArrivesLate(r) PROVE TypeOK'
    BY Zenon, <1>3, <1>r DEF ArrivesLate, TypeOK, Rows
<1>4. ASSUME NEW p \in Replicas, Prune(p) PROVE TypeOK'
    <2>1. \A k \in KeyNames : Cleared(p, k) \in Rows
        BY Zenon DEF Cleared, TypeOK, Rows
    <2> QED
        BY <1>4, <2>1 DEF Prune, TypeOK, Rows
<1>5. ASSUME NEW p \in Replicas, Redeploy(p) PROVE TypeOK'
    <2>1. NoBucket \in Buckets
        BY FleetAssumption DEF NoBucket, Buckets
    <2>2. hits' \in [Replicas -> [Clients -> Buckets]]
        BY <1>5, <2>1 DEF Redeploy, TypeOK, Buckets
    <2>3. generation' \in [Replicas -> 1..Len(Rollout)]
        BY <1>5, FleetAssumption DEF Redeploy, TypeOK
    <2>4. /\ pc' \in [Requests -> {"idle", "commit", "late", "done"}]
          /\ answer' \in [Requests -> Requests \cup Refusals]
        BY <1>5 DEF Redeploy, TypeOK, Refusals
    <2> QED
        BY <1>5, <2>2, <2>3, <2>4 DEF Redeploy, TypeOK, Buckets
<1>6. CASE Tick \/ UNCHANGED vars
    BY <1>6, FleetAssumption DEF Tick, vars, TypeOK
<1> QED
    BY <1>1, <1>2, <1>3, <1>4, <1>5, <1>6

-----------------------------------------------------------------------------
(* Safety, one lemma per kind of step *)

\* Nothing has been asked, nothing is spent.
LEMMA InitSafety == ASSUME Init PROVE SafetyInv
BY RequestNames
   DEF Init, SafetyInv, WaitingWasAdmitted, RowsAndAnswers, AnswersAreLive, SpentWhileValid, NoRow,
       Refusals

\* redeem up to the ledger: the request that starts owns no row and no answer yet.
LEMMA AdmitKeeps ==
    ASSUME TypeOK, SafetyInv, NEW r \in Requests, Admit(r)
    PROVE  SafetyInv'
<1>1. /\ pc[r] = "idle" /\ answer[r] = "none" /\ rows' = rows
      /\ now' = [now EXCEPT ![r] = clock]
    BY DEF Admit, SafetyInv, WaitingWasAdmitted
<1>2. \/ /\ pc' = [pc EXCEPT ![r] = "commit"] /\ answer' = answer
         /\ Attributed(r) /\ Current(PassOf[r], clock)
      \/ /\ pc' = [pc EXCEPT ![r] = "done"]
         /\ \E a \in Refusals : answer' = [answer EXCEPT ![r] = a]
    BY DEF Admit, Finish, Refusals
<1>3. \A s \in Requests : s # r => /\ pc'[s] = pc[s] /\ answer'[s] = answer[s] /\ now'[s] = now[s]
    BY <1>1, <1>2 DEF TypeOK
<1>4. now'[r] = clock /\ answer'[r] \in Refusals
      /\ \/ pc'[r] = "commit" /\ answer'[r] = "none" /\ Attributed(r) /\ Current(PassOf[r], clock)
         \/ pc'[r] = "done"
    BY <1>1, <1>2 DEF TypeOK, Refusals
<1>5. \A k \in KeyNames : rows[k].by # r
    BY <1>1, RequestNames DEF SafetyInv, RowsAndAnswers
<1>6. \A s \in Requests : answer[s] # r
    BY <1>1, <1>5, KeyOfRequest DEF SafetyInv, RowsAndAnswers
<1>7. WaitingWasAdmitted'
    BY <1>3, <1>4 DEF SafetyInv, WaitingWasAdmitted, Attributed
<1>8. \A k \in KeyNames : rows[k] \in Rows
    BY DEF TypeOK, Rows
<1>9. RowsAndAnswers'
    <2>1. ASSUME NEW k \in KeyNames
          PROVE  IF rows[k].by = "nobody" THEN rows[k].until = 0
                 ELSE /\ k = NullifierKey(rows[k].by) /\ pc'[rows[k].by] = "done"
                      /\ rows[k].until \in {0, now'[rows[k].by] + GrantTtl}
        BY <1>3, <1>5, <1>8 DEF SafetyInv, RowsAndAnswers, Rows
    <2>2. ASSUME NEW s \in Requests, answer'[s] \in Requests
          PROVE  pc'[s] = "done" /\ rows[NullifierKey(s)].by = answer'[s]
        BY <1>3, <1>4, <2>2, RequestNames DEF SafetyInv, RowsAndAnswers
    <2> QED
        BY <1>1, <2>1, <2>2 DEF RowsAndAnswers, NullifierKey, Canonical
<1>10. AnswersAreLive'
    BY <1>3, <1>4, <1>6, RequestNames DEF SafetyInv, AnswersAreLive
<1>11. SpentWhileValid'
    <2> SUFFICES ASSUME NEW k \in KeyNames, rows[k].by # "nobody"
                 PROVE  Current(k[1], now'[rows[k].by]) /\ Attributed(rows[k].by)
                        /\ answer'[rows[k].by] \in {rows[k].by, "unavailable", "lost"}
        BY <1>1 DEF SpentWhileValid, Attributed, Current
    <2> QED
        BY <1>3, <1>5, <1>8 DEF SafetyInv, SpentWhileValid, Rows
<1> QED
    BY <1>7, <1>9, <1>10, <1>11 DEF SafetyInv

\* The statement of r runs, for a caller that is told the outcome or is gone: the row
\* gets an owner once, and only its key changes.
LEMMA StatementKeeps ==
    ASSUME TypeOK, SafetyInv, NEW r \in Requests, pc[r] \in {"commit", "late"},
           rows' = [rows EXCEPT ![NullifierKey(r)] = Upserted(r)],
           pc' = [pc EXCEPT ![r] = "done"], now' = now,
           \/ answer' = [answer EXCEPT ![r] = Outcome(Upserted(r), r)]
           \/ answer' = answer /\ pc[r] = "late"
    PROVE  SafetyInv'
<1> DEFINE key == NullifierKey(r)
           row == rows[key]
           new == Upserted(r)
<1>k. key \in KeyNames /\ key[1] = PassOf[r]
    BY KeyOfRequest
<1>n. /\ new \in Rows /\ new.by \in Requests
      /\ new.by = IF row.by = "nobody" THEN r ELSE row.by
      /\ new.until \in {0, now[new.by] + GrantTtl}
      /\ row.by = "nobody" => new.until = now[r] + GrantTtl /\ new.until > now[r]
    BY UpsertedRow DEF SafetyInv
<1>o. \/ answer'[r] = IF new.until > now[r] /\ Opens(new, r) THEN new.by ELSE "spent"
      \/ answer'[r] = answer[r] /\ answer[r] \in {"unavailable", "lost"}
    <2>1. answer \in [Requests -> Requests \cup Refusals]
        BY DEF TypeOK
    <2>2. CASE answer' = [answer EXCEPT ![r] = Outcome(new, r)]
        BY <2>1, <2>2 DEF Outcome
    <2>3. CASE answer' = answer /\ pc[r] = "late"
        BY <2>3 DEF SafetyInv, WaitingWasAdmitted
    <2> QED
        BY <2>2, <2>3
<1>own. row.by = "nobody" => Opens(new, r)
    BY <1>n DEF Opens
<1> HIDE DEF key, row, new
<1>r. rows' = [rows EXCEPT ![key] = new] /\ row = rows[key] /\ new.by # "nobody"
    BY <1>n, RequestNames DEF key, row, new
<1>1. \A k \in KeyNames : rows'[k] = IF k = key THEN new ELSE rows[k]
    BY <1>r DEF TypeOK
<1>2. \A s \in Requests : s # r => pc'[s] = pc[s] /\ answer'[s] = answer[s]
    BY DEF TypeOK
<1>3. pc'[r] = "done" /\ answer[r] \notin Requests
    BY Zenon, RequestNames DEF TypeOK, SafetyInv, WaitingWasAdmitted, Refusals
<1>4. row.by # "nobody" => /\ row.by \in Requests /\ row.by # r /\ key = NullifierKey(row.by)
                           /\ pc[row.by] = "done"
    BY <1>k, <1>n, <1>r DEF SafetyInv, RowsAndAnswers
<1>5. key = NullifierKey(new.by) /\ pc'[new.by] = "done" /\ PassOf[new.by] = PassOf[r]
    BY <1>2, <1>3, <1>4, <1>n, <1>k, KeyOfRequest DEF key
<1>6. \A k \in KeyNames : k # key => rows[k].by # r
    BY RequestNames DEF SafetyInv, RowsAndAnswers
<1>w. WaitingWasAdmitted'
    BY <1>2, <1>3 DEF SafetyInv, WaitingWasAdmitted, Attributed
<1>8. \A k \in KeyNames : rows[k] \in Rows
    BY Zenon DEF TypeOK, Rows
<1>9. RowsAndAnswers'
    <2>1. ASSUME NEW k \in KeyNames
          PROVE  IF rows'[k].by = "nobody" THEN rows'[k].until = 0
                 ELSE /\ k = NullifierKey(rows'[k].by) /\ pc'[rows'[k].by] = "done"
                      /\ rows'[k].until \in {0, now[rows'[k].by] + GrantTtl}
        <3>1. CASE k = key
            BY <1>1, <1>n, <1>r, <1>5, <3>1
        <3>2. CASE k # key
            BY <1>1, <1>2, <1>6, <1>8, <3>2 DEF SafetyInv, RowsAndAnswers, Rows
        <3> QED
            BY SMTT(30), <3>1, <3>2
    <2>2. ASSUME NEW s \in Requests, answer'[s] \in Requests
          PROVE  pc'[s] = "done" /\ rows'[NullifierKey(s)].by = answer'[s]
        <3>1. CASE s = r
            BY <1>1, <1>3, <1>k, <1>o, <2>2, <3>1, RequestNames DEF Refusals, key
        <3>2. CASE s # r
            <4>1. pc[s] = "done" /\ rows[NullifierKey(s)].by = answer[s] /\ NullifierKey(s) \in KeyNames
                BY <1>2, <2>2, <3>2, KeyOfRequest DEF SafetyInv, RowsAndAnswers
            <4>2. rows[NullifierKey(s)].by # "nobody"
                BY <1>2, <2>2, <3>2, <4>1, RequestNames
            <4> QED
                BY <1>1, <1>2, <1>n, <1>r, <3>2, <4>1, <4>2
        <3> QED
            BY <3>1, <3>2
    <2> QED
        BY <2>1, <2>2 DEF RowsAndAnswers, NullifierKey, Canonical
<1>10. AnswersAreLive'
    <2> SUFFICES ASSUME NEW s \in Requests, answer'[s] \in Requests
                 PROVE  PassOf[answer'[s]] = PassOf[s] /\ now[s] < now[answer'[s]] + GrantTtl
        BY DEF AnswersAreLive
    <2>1. CASE s = r
        <3>1. answer'[r] = new.by /\ new.until > now[r]
            BY <1>o, <2>1, RequestNames DEF Refusals
        <3>2. now[r] \in Nat
            BY DEF TypeOK
        <3> QED
            BY <1>n, <1>5, <2>1, <3>1, <3>2
    <2>2. CASE s # r
        BY <1>2, <2>2 DEF SafetyInv, AnswersAreLive
    <2> QED
        BY <2>1, <2>2
<1>11. SpentWhileValid'
    <2> SUFFICES ASSUME NEW k \in KeyNames, rows'[k].by # "nobody"
                 PROVE  Current(k[1], now[rows'[k].by]) /\ Attributed(rows'[k].by)
                        /\ answer'[rows'[k].by] \in {rows'[k].by, "unavailable", "lost"}
        BY DEF SpentWhileValid, Attributed, Current
    <2>1. CASE rows'[k].by = rows[k].by
        <3>1. rows[k].by # r /\ rows[k].by \in Requests
            BY Zenon, <1>4, <1>6, <1>8, <1>r, <2>1 DEF Rows
        <3> QED
            BY <1>2, <2>1, <3>1 DEF SafetyInv, SpentWhileValid
    <2>2. CASE rows'[k].by # rows[k].by
        <3>1. k = key /\ row.by = "nobody" /\ new.by = r /\ rows'[k].by = r
            BY <1>1, <1>n, <1>r, <2>2
        <3>2. answer'[r] \in {r, "unavailable", "lost"}
            BY <1>n, <1>o, <1>own, <3>1
        <3> QED
            BY <1>k, <3>1, <3>2 DEF SafetyInv, WaitingWasAdmitted
    <2> QED
        BY Zenon, <2>1, <2>2
<1> QED
    BY <1>w, <1>9, <1>10, <1>11 DEF SafetyInv

\* A step that runs no statement and admits no request: answers of requests in flight
\* become "unavailable" or "lost", and rows lose nothing but an answer.
LEMMA OthersKeep ==
    ASSUME TypeOK, TypeOK', SafetyInv, now' = now,
           \A k \in KeyNames : rows'[k].by = rows[k].by /\ rows'[k].until \in {0, rows[k].until},
           \A r \in Requests :
               \/ pc'[r] = pc[r] /\ answer'[r] = answer[r]
               \/ pc[r] = "commit" /\ pc'[r] = "late" /\ answer'[r] \in {"unavailable", "lost"}
               \/ pc[r] = "late" /\ pc'[r] = "done" /\ answer'[r] = answer[r]
    PROVE  SafetyInv'
<1>1. \A k \in KeyNames : rows[k] \in Rows
    BY DEF TypeOK, Rows
<1>2. \A r \in Requests : answer'[r] \in Requests => answer'[r] = answer[r]
    BY RequestNames DEF Refusals
<1>3. \A r \in Requests : pc[r] = "done" => pc'[r] = "done" /\ answer'[r] = answer[r]
    OBVIOUS
<1>4. WaitingWasAdmitted'
    BY DEF SafetyInv, WaitingWasAdmitted, Attributed
<1>5. RowsAndAnswers'
    <2>1. ASSUME NEW k \in KeyNames
          PROVE  IF rows'[k].by = "nobody" THEN rows'[k].until = 0
                 ELSE /\ k = NullifierKey(rows'[k].by) /\ pc'[rows'[k].by] = "done"
                      /\ rows'[k].until \in {0, now[rows'[k].by] + GrantTtl}
        BY <1>1, <1>3 DEF SafetyInv, RowsAndAnswers, Rows
    <2>2. ASSUME NEW r \in Requests, answer'[r] \in Requests
          PROVE  pc'[r] = "done" /\ rows'[NullifierKey(r)].by = answer'[r]
        BY SMTT(30), <1>2, <1>3, <2>2, KeyOfRequest DEF SafetyInv, RowsAndAnswers
    <2> QED
        BY Zenon, <2>1, <2>2 DEF RowsAndAnswers, NullifierKey, Canonical
<1>6. AnswersAreLive'
    BY <1>2 DEF SafetyInv, AnswersAreLive
<1>7. SpentWhileValid'
    <2> SUFFICES ASSUME NEW k \in KeyNames, rows[k].by # "nobody"
                 PROVE  Current(k[1], now[rows[k].by]) /\ Attributed(rows[k].by)
                        /\ answer'[rows[k].by] \in {rows[k].by, "unavailable", "lost"}
        BY SMTT(30) DEF SpentWhileValid, Attributed, Current
    <2>1. pc[rows[k].by] = "done" /\ rows[k].by \in Requests
        BY <1>1 DEF SafetyInv, RowsAndAnswers, Rows
    <2> QED
        BY Zenon, <1>3, <2>1 DEF SafetyInv, SpentWhileValid
<1> QED
    BY <1>4, <1>5, <1>6, <1>7 DEF SafetyInv

\* Every step of the fleet keeps the invariant.
LEMMA NextInv ==
    ASSUME ClusterInv, [Next]_vars
    PROVE  ClusterInv'
<1>1. TypeOK /\ SafetyInv /\ RowsAndAnswers
    BY DEF ClusterInv, SafetyInv
<1>2. scenario.requests \subseteq Requests
    BY <1>1, FleetAssumption DEF TypeOK
<1>3. TypeOK'
    BY <1>1, <1>2, AdmitTypes, OtherTypes DEF Next
<1>4. SafetyInv'
    <2>1. ASSUME NEW r \in Requests, Admit(r) PROVE SafetyInv'
        BY <1>1, <2>1, AdmitKeeps
    <2>2. ASSUME NEW r \in Requests, Upsert(r) PROVE SafetyInv'
        BY Zenon, <1>1, <2>2, StatementKeeps DEF Upsert, Finish
    <2>3. ASSUME NEW r \in Requests, TimesOut(r) PROVE SafetyInv'
        BY <1>1, <1>3, <2>3, OthersKeep DEF TimesOut, TypeOK
    <2>4. ASSUME NEW r \in Requests, ArrivesLate(r) PROVE SafetyInv'
        <3>1. CASE rows' = [rows EXCEPT ![NullifierKey(r)] = Upserted(r)]
            BY Zenon, <1>1, <2>4, <3>1, StatementKeeps DEF ArrivesLate
        <3>2. CASE rows' = rows
            BY <1>1, <1>3, <2>4, <3>2, OthersKeep DEF ArrivesLate, TypeOK
        <3> QED
            BY <2>4, <3>1, <3>2 DEF ArrivesLate
    <2>5. ASSUME NEW p \in Replicas, Prune(p) PROVE SafetyInv'
        <3>1. \A k \in KeyNames : rows'[k].by = rows[k].by /\ rows'[k].until \in {0, rows[k].until}
            BY <1>1, <2>5 DEF Prune, Cleared, TypeOK
        <3> QED
            BY <1>1, <1>3, <2>5, <3>1, OthersKeep DEF Prune
    <2>6. ASSUME NEW p \in Replicas, Redeploy(p) PROVE SafetyInv'
        BY <1>1, <1>3, <2>6, OthersKeep DEF Redeploy
    <2>7. CASE Tick \/ UNCHANGED vars
        BY <1>1, <1>3, <2>7, OthersKeep DEF Tick, vars
    <2> QED
        BY <1>2, <2>1, <2>2, <2>3, <2>4, <2>5, <2>6, <2>7 DEF Next
<1> QED
    BY <1>3, <1>4 DEF ClusterInv, SafetyInv

\* An empty table satisfies it.
LEMMA InitInv == ASSUME Init PROVE ClusterInv
BY InitTypes, InitSafety DEF ClusterInv, SafetyInv

\* Replicas with different key lists over one table: a path is answered only while its
\* grants live, and a pass is spent only while it is valid, by a request that was let
\* through.
THEOREM ClusterIsSafe == Spec => []ClusterInv
<1>1. Init => ClusterInv
    BY InitInv
<1>2. ClusterInv /\ [Next]_vars => ClusterInv'
    BY NextInv
<1> QED
    BY <1>1, <1>2, PTL DEF Spec

-----------------------------------------------------------------------------
(* The fleet implements the redemption ledger *)

\* The owners and the answers of the ledger.
Owners == [p \in Passes |-> rows[<<p, "lower">>].by]
Answers == [r \in Requests |->
               IF answer[r] \in {"refused", "limited", "bad"} THEN "rejected" ELSE answer[r]]

\* An answer that agrees with the owner is an answer of the ledger.
LEMMA AnswerSimulates ==
    ASSUME TypeOK, NEW r \in Requests, answer[r] = "none",
           NEW a \in Requests \cup (Refusals \ {"none"}), answer' = [answer EXCEPT ![r] = a],
           Owners' = Owners,
           a \in Requests => a = Owners[PassOf[r]],
           a = "spent" => Owners[PassOf[r]] # "nobody"
    PROVE  Ledger!LedgerNext
<1> DEFINE b == IF a \in {"refused", "limited", "bad"} THEN "rejected" ELSE a
<1>1. b \in Requests \cup Ledger!Refusals /\ (b \in Requests => b = a) /\ (b = "spent" => b = a)
    BY RequestNames DEF Refusals, Ledger!Refusals
<1>2. Answers' = [Answers EXCEPT ![r] = b] /\ Answers[r] = "none"
    BY Zenon DEF Answers, TypeOK
<1> HIDE DEF b
<1>3. Ledger!Told(r, b)
    BY Zenon, <1>1, <1>2 DEF Ledger!Told, Answers, Owners
<1> QED
    BY <1>1, <1>3 DEF Ledger!Answer, Ledger!LedgerNext, Owners

\* A statement that runs spends the pass or finds it spent.
LEMMA StatementSimulates ==
    ASSUME TypeOK, RowsAndAnswers, NEW r \in Requests,
           rows' = [rows EXCEPT ![NullifierKey(r)] = Upserted(r)]
    PROVE  \/ /\ Owners[PassOf[r]] = "nobody" /\ Upserted(r).by = r
              /\ Owners' = [Owners EXCEPT ![PassOf[r]] = r]
           \/ /\ Owners[PassOf[r]] # "nobody" /\ Upserted(r).by = Owners[PassOf[r]]
              /\ Owners' = Owners
<1> DEFINE new == Upserted(r)
           key == <<PassOf[r], "lower">>
<1>1. /\ NullifierKey(r) = key /\ key \in KeyNames /\ PassOf[r] \in Passes
      /\ new.by = IF rows[key].by = "nobody" THEN r ELSE rows[key].by
    BY KeyOfRequest, UpsertedRow
<1>2. rows' = [rows EXCEPT ![key] = new] /\ rows \in [KeyNames -> Rows]
    BY <1>1 DEF TypeOK, Rows
<1> HIDE DEF new
<1>3. \A p \in Passes : /\ <<p, "lower">> \in KeyNames
                        /\ rows'[<<p, "lower">>].by = IF p = PassOf[r] THEN new.by ELSE rows[<<p, "lower">>].by
    BY <1>1, <1>2 DEF KeyNames
<1>4. Owners[PassOf[r]] = rows[key].by
    BY <1>1 DEF Owners
<1>5. Owners' = [Owners EXCEPT ![PassOf[r]] = new.by]
    BY Zenon, <1>1, <1>3 DEF Owners
<1> QED
    BY Zenon, <1>1, <1>4, <1>5 DEF new, Owners

\* The upsert with an answer to its caller.
LEMMA UpsertSimulates ==
    ASSUME ClusterInv, NEW r \in Requests, Upsert(r)
    PROVE  Ledger!LedgerNext
<1>1. /\ answer[r] = "none" /\ TypeOK /\ RowsAndAnswers
      /\ answer' = [answer EXCEPT ![r] = Outcome(Upserted(r), r)]
      /\ rows' = [rows EXCEPT ![NullifierKey(r)] = Upserted(r)]
    BY DEF ClusterInv, WaitingWasAdmitted, Upsert, Finish
<1>2. CASE /\ Owners[PassOf[r]] = "nobody" /\ Upserted(r).by = r
           /\ Owners' = [Owners EXCEPT ![PassOf[r]] = r]
    <2>1. Outcome(Upserted(r), r) = r
        <3>1. Owners[PassOf[r]] = rows[NullifierKey(r)].by
            BY KeyOfRequest DEF Owners
        <3>2. Upserted(r).until > now[r]
            BY <1>1, <1>2, <3>1, UpsertedRow
        <3> QED
            BY <1>2, <3>2 DEF Outcome, Opens
    <2>2. Answers' = [Answers EXCEPT ![r] = r] /\ Answers[r] = "none"
        BY Zenon, <1>1, <2>1, RequestNames DEF Answers, TypeOK, Refusals
    <2>3. Owners'[PassOf[r]] = r /\ r # "spent"
        BY Zenon, <1>2, KeyOfRequest, RequestNames DEF Owners, Refusals
    <2>4. Ledger!Commit(r) /\ Ledger!Told(r, r)
        BY <1>2, <2>2, <2>3 DEF Ledger!Commit, Ledger!Told, Owners, Answers
    <2> QED
        BY <2>4 DEF Ledger!Spend, Ledger!LedgerNext
<1>3. CASE /\ Owners[PassOf[r]] # "nobody" /\ Upserted(r).by = Owners[PassOf[r]]
           /\ Owners' = Owners
    <2> DEFINE a == Outcome(Upserted(r), r)
    <2>1. a \in {Owners[PassOf[r]], "spent"} /\ Owners[PassOf[r]] \in Requests
        BY <1>1, <1>3, UpsertedRow DEF Outcome
    <2>2. a \in Requests \cup (Refusals \ {"none"})
        BY <2>1 DEF Refusals
    <2>3. a \in Requests => a = Owners[PassOf[r]]
        BY <2>1, RequestNames DEF Refusals
    <2> HIDE DEF a
    <2>4. answer' = [answer EXCEPT ![r] = a]
        BY <1>1 DEF a
    <2> QED
        BY Zenon, <1>1, <1>3, <2>2, <2>3, <2>4, AnswerSimulates
<1> QED
    BY Zenon, <1>1, <1>2, <1>3, StatementSimulates

\* Every step of the fleet is a step of the ledger or none.
LEMMA StepSimulates ==
    ASSUME ClusterInv, [Next]_vars
    PROVE  [Ledger!LedgerNext]_<<Owners, Answers>>
<1>t. TypeOK /\ RowsAndAnswers /\ WaitingWasAdmitted
    BY DEF ClusterInv
<1>i. scenario.requests \subseteq Requests
    BY <1>t, FleetAssumption DEF TypeOK
<1>1. ASSUME NEW r \in Requests, Admit(r) PROVE [Ledger!LedgerNext]_<<Owners, Answers>>
    <2>1. answer[r] = "none" /\ Owners' = Owners
        BY <1>1, <1>t DEF Admit, WaitingWasAdmitted, Owners
    <2>2. \/ answer' = answer
          \/ \E a \in {"refused", "limited", "bad", "unavailable"} : answer' = [answer EXCEPT ![r] = a]
        BY <1>1 DEF Admit, Finish
    <2>3. CASE answer' = answer
        BY <2>1, <2>3 DEF Answers
    <2>4. ASSUME NEW a \in {"refused", "limited", "bad", "unavailable"},
                 answer' = [answer EXCEPT ![r] = a]
          PROVE  Ledger!LedgerNext
        <3>1. a \in Refusals \ {"none"} /\ a # "spent" /\ a \notin Requests
            BY RequestNames DEF Refusals
        <3> QED
            BY Zenon, <1>t, <2>1, <2>4, <3>1, AnswerSimulates
    <2> QED
        BY <2>2, <2>3, <2>4
<1>2. ASSUME NEW r \in Requests, Upsert(r) PROVE Ledger!LedgerNext
    BY <1>2, UpsertSimulates
<1>3. ASSUME NEW r \in Requests, TimesOut(r) PROVE Ledger!LedgerNext
    <2>1. answer[r] = "none" /\ Owners' = Owners /\ answer' = [answer EXCEPT ![r] = "unavailable"]
        BY <1>3, <1>t DEF TimesOut, WaitingWasAdmitted, Owners
    <2> QED
        BY Zenon, <1>t, <2>1, AnswerSimulates, RequestNames DEF Refusals
<1>4. ASSUME NEW r \in Requests, ArrivesLate(r) PROVE [Ledger!LedgerNext]_<<Owners, Answers>>
    <2>1. Answers' = Answers
        BY <1>4 DEF ArrivesLate, Answers
    <2>2. CASE rows' = rows
        BY <2>1, <2>2 DEF Owners
    <2>3. CASE rows' = [rows EXCEPT ![NullifierKey(r)] = Upserted(r)]
        <3>1. \/ /\ Owners[PassOf[r]] = "nobody" /\ Upserted(r).by = r
                 /\ Owners' = [Owners EXCEPT ![PassOf[r]] = r]
              \/ /\ Owners[PassOf[r]] # "nobody" /\ Upserted(r).by = Owners[PassOf[r]]
                 /\ Owners' = Owners
            BY Zenon, <1>t, <2>3, StatementSimulates
        <3>2. Owners[PassOf[r]] = "nobody" /\ Owners' = [Owners EXCEPT ![PassOf[r]] = r]
              => Ledger!Commit(r)
            BY DEF Ledger!Commit, Owners
        <3> QED
            BY <2>1, <3>1, <3>2 DEF Ledger!Spend, Ledger!LedgerNext, Answers
    <2> QED
        BY <1>4, <2>2, <2>3 DEF ArrivesLate
<1>5. ASSUME NEW p \in Replicas, Prune(p) PROVE UNCHANGED <<Owners, Answers>>
    <2>1. \A q \in Passes : rows'[<<q, "lower">>].by = rows[<<q, "lower">>].by
        BY SMTT(30), <1>5, <1>t DEF Prune, Cleared, TypeOK, KeyNames
    <2> QED
        BY <1>5, <2>1 DEF Prune, Owners, Answers
<1>6. ASSUME NEW p \in Replicas, Redeploy(p) PROVE Ledger!LedgerNext
    <2>1. \A r \in Requests : answer'[r] # answer[r] => answer[r] = "none" /\ answer'[r] = "lost"
        <3>1. \A r \in Requests :
                  answer'[r] = IF ReplicaOf[r] = p /\ pc[r] = "commit" THEN "lost" ELSE answer[r]
            BY <1>6 DEF Redeploy
        <3> QED
            BY Zenon, <1>t, <3>1 DEF WaitingWasAdmitted
    <2>2. Owners' = Owners /\ DOMAIN Answers' = Requests
        BY Zenon, <1>6 DEF Redeploy, Owners, Answers
    <2>3. \A r \in Requests : Answers'[r] # Answers[r] => Answers[r] = "none" /\ Answers'[r] = "lost"
        BY <2>1 DEF Answers
    <2> QED
        BY Zenon, <2>2, <2>3 DEF Ledger!Drop, Ledger!LedgerNext, Owners, Answers
<1>7. CASE Tick \/ UNCHANGED vars
    BY <1>7 DEF Tick, vars, Owners, Answers
<1> QED
    BY <1>i, <1>1, <1>2, <1>3, <1>4, <1>5, <1>6, <1>7 DEF Next

\* The clustered ledger implements the promise of the file ledger: across replicas,
\* spellings of the message, late statements, sweeps and key lists in rotation, a pass
\* has one owner for good and only the owner's path is answered for it.
THEOREM ClusterImplementsLedger == Spec => ClusterKeepsPromise
<1>1. Init => Ledger!LedgerInit
    BY DEF Init, Ledger!LedgerInit, NoRow, KeyNames
<1>2. ClusterInv /\ [Next]_vars
      => [Ledger!LedgerNext]_<<[p \in Passes |-> rows[<<p, "lower">>].by],
                               [r \in Requests |-> IF answer[r] \in {"refused", "limited", "bad"}
                                                   THEN "rejected" ELSE answer[r]]>>
    BY StepSimulates DEF Owners, Answers
<1> QED
    BY <1>1, <1>2, ClusterIsSafe, PTL DEF Spec, ClusterKeepsPromise, Ledger!LedgerSpec

-----------------------------------------------------------------------------
(* Path selection *)

\* A snapshot of live nodes is finite.
LEMMA LiveCount ==
    ASSUME NEW nodes, nodes \subseteq Registry
    PROVE  IsFiniteSet(nodes) /\ Cardinality(nodes) \in Nat
BY RegistryAssumption, FS_Subset, FS_CardinalityType DEF FromFile

\* extend_path compares operators and jurisdictions, in either order.
LEMMA CompatibleSymmetric ==
    ASSUME NEW x, NEW y, Compatible(x, y) PROVE Compatible(y, x)
BY DEF Compatible

\* Nothing is chosen before the first selection.
LEMMA InitSearch == SearchInit => SearchInv
<1> SUFFICES ASSUME SearchInit PROVE SearchInv
    OBVIOUS
<1>1. Hops \in Nat /\ live = {} /\ depth = 0 /\ at = "idle" /\ dead = {}
    BY RegistryAssumption DEF SearchInit
<1>2. Cardinality(live) = 0
    BY <1>1, FS_EmptySet
<1>3. candidates \in Shuffles(live)
    <2>1. candidates = <<>> /\ 1..0 = {}
        BY DEF SearchInit
    <2> QED
        BY <1>1, <1>2, <2>1 DEF Shuffles
<1>4. SearchTypeOK
    BY <1>1, <1>2, <1>3 DEF SearchInit, SearchTypeOK, Levels
<1>5. LeftBehind
    BY <1>1, <1>2 DEF LeftBehind, Levels
<1> QED
    BY <1>1, <1>4, <1>5 DEF SearchInv, PrefixFits, EndsRight

\* A new selection starts at the first candidate of the first level.
LEMMA SelectInv == SearchInv /\ Select => SearchInv'
<1> SUFFICES ASSUME SearchInv, Select PROVE SearchInv'
    OBVIOUS
<1>1. Hops \in Nat /\ live' = LiveNodes /\ live' \subseteq Registry
    BY RegistryAssumption DEF Select, LiveNodes
<1>2. Cardinality(live') \in Nat
    BY <1>1, LiveCount
<1>3. depth' = 0 /\ cursor' = [l \in Levels |-> 1] /\ dead' = dead
      /\ candidates' \in Shuffles(live') /\ at' = IF Hops = 0 THEN "found" ELSE "search"
    BY DEF Select
<1>4. SearchTypeOK'
    BY <1>1, <1>2, <1>3 DEF SearchInv, SearchTypeOK, Levels
<1>5. LeftBehind'
    BY <1>1, <1>2, <1>3 DEF LeftBehind, Levels
<1> QED
    BY <1>1, <1>3, <1>4, <1>5 DEF SearchInv, PrefixFits, EndsRight

\* What every step of a search starts from.
LEMMA Searching ==
    ASSUME SearchInv, at = "search"
    PROVE  /\ Hops \in Nat /\ Cardinality(live) \in Nat
           /\ depth \in Nat /\ depth < Hops /\ depth + 1 \in Levels
           /\ cursor \in [Levels -> 1..(Cardinality(live) + 1)]
           /\ cursor[depth + 1] \in 1..(Cardinality(live) + 1)
<1>1. Hops \in Nat /\ Cardinality(live) \in Nat
    BY RegistryAssumption, LiveCount DEF SearchInv, SearchTypeOK
<1> QED
    BY <1>1 DEF SearchInv, SearchTypeOK, Levels

\* An admissible candidate extends the prefix; the new level starts afresh.
LEMMA PushInv == SearchInv /\ Push => SearchInv'
<1> SUFFICES ASSUME SearchInv, Push PROVE SearchInv'
    OBVIOUS
<1> DEFINE n == Cardinality(live)
<1>1. at = "search" /\ cursor[depth + 1] <= n /\ Admissible(Chosen(depth + 1))
    <2>1. at = "search" /\ ~Exhausted /\ Admissible(Chosen(depth + 1))
        BY DEF Push
    <2> QED
        BY <2>1, Searching DEF Exhausted
<1>2. /\ Hops \in Nat /\ n \in Nat /\ depth \in Nat /\ depth < Hops
      /\ cursor \in [Levels -> 1..(n + 1)]
    BY <1>1, Searching
<1>3. /\ UNCHANGED <<dead, live, candidates>> /\ depth' = depth + 1
      /\ at' = IF depth + 1 = Hops THEN "found" ELSE "search"
      /\ cursor' = [l \in Levels |-> IF l = depth + 2 THEN 1 ELSE cursor[l]]
    BY <1>2 DEF Push
<1>4. n' = n /\ Cardinality(live') = n
    BY <1>3
<1>5. \A i \in 1..(depth + 1) : cursor'[i] = cursor[i] /\ Chosen(i)' = Chosen(i)
    BY <1>2, <1>3 DEF Chosen, Levels
<1>6. SearchTypeOK'
    BY <1>2, <1>3, <1>4 DEF SearchInv, SearchTypeOK, Levels
<1>7. PrefixFits'
    <2>1. \A i \in 1..(depth + 1) : cursor[i] <= n /\ RoleOf[Chosen(i)] = RoleAt(i)
        BY <1>1, <1>2 DEF SearchInv, PrefixFits, Admissible
    <2>2. \A i \in 1..depth : /\ Compatible(Chosen(i), Chosen(depth + 1))
                              /\ Compatible(Chosen(depth + 1), Chosen(i))
        BY <1>1, CompatibleSymmetric DEF Admissible
    <2>3. \A i, j \in 1..(depth + 1) : i # j => Compatible(Chosen(i), Chosen(j))
        BY <1>2, <2>2 DEF SearchInv, PrefixFits
    <2> QED
        BY Zenon, <1>3, <1>4, <1>5, <2>1, <2>3 DEF PrefixFits
<1>8. LeftBehind'
    <2> SUFFICES ASSUME NEW l \in Levels, l <= depth' + 1,
                        NEW path \in [Levels -> 1..n],
                        Diverse([i \in Levels |-> candidates[path[i]]]),
                        \A i \in 1..(l - 1) : path[i] = cursor'[i]
                 PROVE  path[l] >= cursor'[l]
        BY <1>3, <1>4 DEF LeftBehind, Diverse
    <2>1. CASE l = depth + 2
        BY <1>2, <1>3, <2>1 DEF Levels
    <2>2. CASE l <= depth + 1
        <3>1. \A i \in 1..(l - 1) : path[i] = cursor[i]
            BY <1>2, <1>5, <2>2 DEF Levels
        <3>2. cursor'[l] = cursor[l]
            BY <1>2, <1>5, <2>2 DEF Levels
        <3> QED
            BY <2>2, <3>1, <3>2 DEF SearchInv, LeftBehind
    <2> QED
        BY SMTT(30), <1>2, <1>3, <2>1, <2>2 DEF Levels
<1>9. EndsRight'
    BY <1>3 DEF EndsRight
<1> QED
    BY <1>6, <1>7, <1>8, <1>9 DEF SearchInv

\* A candidate that is not admissible is on no diverse path with this prefix.
LEMMA SkipInv == SearchInv /\ Skip => SearchInv'
<1> SUFFICES ASSUME SearchInv, Skip PROVE SearchInv'
    OBVIOUS
<1> DEFINE n == Cardinality(live)
           d == depth + 1
<1>1. at = "search" /\ cursor[d] <= n /\ ~Admissible(Chosen(d))
    <2>1. at = "search" /\ ~Exhausted /\ ~Admissible(Chosen(d))
        BY DEF Skip
    <2> QED
        BY <2>1, Searching DEF Exhausted
<1>2. /\ Hops \in Nat /\ n \in Nat /\ depth \in Nat /\ depth < Hops /\ d \in Levels
      /\ cursor \in [Levels -> 1..(n + 1)]
    BY <1>1, Searching
<1>3. /\ UNCHANGED <<dead, at, live, candidates, depth>>
      /\ cursor' = [cursor EXCEPT ![d] = cursor[d] + 1]
    BY DEF Skip
<1>4. Cardinality(live') = n
    BY <1>3
<1>5. \A i \in 1..depth : cursor'[i] = cursor[i] /\ Chosen(i)' = Chosen(i)
    BY <1>2, <1>3 DEF Chosen, Levels
<1>6. SearchTypeOK'
    BY <1>1, <1>2, <1>3, <1>4 DEF SearchInv, SearchTypeOK, Levels
<1>7. PrefixFits'
    BY <1>3, <1>4, <1>5 DEF SearchInv, PrefixFits
<1>8. LeftBehind'
    <2> SUFFICES ASSUME NEW l \in Levels, l <= d,
                        NEW path \in [Levels -> 1..n],
                        Diverse([i \in Levels |-> candidates[path[i]]]),
                        \A i \in 1..(l - 1) : path[i] = cursor'[i]
                 PROVE  path[l] >= cursor'[l]
        BY ZenonT(40), <1>2, <1>3, <1>4 DEF LeftBehind, Levels, Diverse
    <2>1. \A i \in 1..(l - 1) : path[i] = cursor[i]
        BY <1>2, <1>5 DEF Levels
    <2>2. path[l] >= cursor[l]
        BY <2>1 DEF SearchInv, LeftBehind
    <2>3. CASE l < d
        BY <1>2, <1>3, <2>2, <2>3 DEF Levels
    <2>4. CASE l = d
        <3>1. path[d] # cursor[d]
            <4> SUFFICES ASSUME path[d] = cursor[d] PROVE Admissible(Chosen(d))
                BY <1>1
            <4>1. \A i \in 1..d : i \in Levels /\ candidates[path[i]] = Chosen(i)
                BY SMTT(30), <1>2, <2>1, <2>4 DEF Chosen, Levels
            <4>r. /\ \A i \in Levels : RoleOf[candidates[path[i]]] = RoleAt(i)
                  /\ \A i, j \in Levels : i # j => Compatible(candidates[path[i]], candidates[path[j]])
                BY Zenon DEF Diverse
            <4>d. d \in 1..d /\ \A i \in 1..depth : i \in 1..d /\ i # d
                BY <1>2
            <4>2. RoleOf[Chosen(d)] = RoleAt(d)
                BY Zenon, <4>1, <4>r, <4>d
            <4>3. \A i \in 1..depth : Compatible(Chosen(i), Chosen(d))
                BY Zenon, <4>1, <4>r, <4>d
            <4> QED
                BY <4>2, <4>3 DEF Admissible
        <3>2. cursor'[d] = cursor[d] + 1
            BY <1>2, <1>3
        <3>3. path[d] \in Nat /\ cursor[d] \in Nat
            BY <1>2
        <3> QED
            BY <2>2, <2>4, <3>1, <3>2, <3>3
    <2> QED
        BY <1>2, <2>3, <2>4 DEF Levels
<1>9. EndsRight'
    BY <1>1, <1>3 DEF EndsRight
<1> QED
    BY <1>6, <1>7, <1>8, <1>9 DEF SearchInv

\* A level that ran out shows that the choice below it is a dead end.
LEMMA PopInv == SearchInv /\ Pop => SearchInv'
<1> SUFFICES ASSUME SearchInv, Pop PROVE SearchInv'
    OBVIOUS
<1> DEFINE n == Cardinality(live)
           d == depth
<1>1. at = "search" /\ Exhausted
    BY DEF Pop
<1>2. /\ Hops \in Nat /\ n \in Nat /\ d \in Nat /\ d < Hops /\ d + 1 \in Levels
      /\ cursor \in [Levels -> 1..(n + 1)]
    BY <1>1, Searching
<1>3. UNCHANGED <<dead, live, candidates>> /\ Cardinality(live') = n
    BY DEF Pop
<1>4. CASE depth = 0
    <2>1. at' = "none" /\ depth' = depth /\ cursor' = cursor
        BY <1>4 DEF Pop
    <2>2. SearchTypeOK' /\ PrefixFits'
        BY SMTT(30), <1>2, <1>3, <1>4, <2>1 DEF SearchInv, SearchTypeOK, PrefixFits
    <2>3. LeftBehind'
        BY <1>3, <2>1 DEF SearchInv, LeftBehind, Diverse
    <2>4. EndsRight'
        BY <1>1, <1>2, <1>3, <1>4, <2>1 DEF EndsRight, Exhausted
    <2> QED
        BY <2>2, <2>3, <2>4 DEF SearchInv
<1>5. CASE depth # 0
    <2>1. depth' = d - 1 /\ at' = at /\ cursor' = [cursor EXCEPT ![d] = cursor[d] + 1]
        BY <1>5 DEF Pop
    <2>2. d \in Levels /\ cursor[d] \in 1..n
        BY <1>2, <1>5 DEF SearchInv, PrefixFits, Levels
    <2>3. \A i \in 1..(d - 1) : cursor'[i] = cursor[i] /\ Chosen(i)' = Chosen(i)
        BY <1>2, <1>3, <2>1 DEF Chosen, Levels
    <2>4. SearchTypeOK'
        BY SMTT(30), <1>2, <1>3, <1>5, <2>1, <2>2 DEF SearchInv, SearchTypeOK, Levels
    <2>5. PrefixFits'
        BY <1>2, <1>3, <2>1, <2>3 DEF SearchInv, PrefixFits
    <2>6. LeftBehind'
        <3> SUFFICES ASSUME NEW l \in Levels, l <= depth' + 1,
                            NEW path \in [Levels -> 1..n],
                            Diverse([i \in Levels |-> candidates[path[i]]]),
                            \A i \in 1..(l - 1) : path[i] = cursor'[i]
                     PROVE  path[l] >= cursor'[l]
            BY <1>3 DEF LeftBehind, Diverse
        <3>1. l <= d /\ l <= depth + 1 /\ \A i \in 1..(l - 1) : path[i] = cursor[i]
            BY <1>2, <2>1, <2>3 DEF Levels
        <3>2. path[l] >= cursor[l]
            BY <3>1 DEF SearchInv, LeftBehind
        <3>3. CASE l < d
            BY <1>2, <2>1, <3>2, <3>3 DEF Levels
        <3>4. CASE l = d
            <4>1. path[d] # cursor[d]
                <5> SUFFICES ASSUME path[d] = cursor[d] PROVE FALSE
                    OBVIOUS
                <5>1. \A i \in 1..d : path[i] = cursor[i]
                    BY <1>2, <3>1, <3>4 DEF Levels
                <5>2. path[d + 1] >= cursor[d + 1]
                    BY <1>2, <5>1 DEF SearchInv, LeftBehind
                <5>3. cursor[d + 1] > n /\ cursor[d + 1] \in Nat /\ path[d + 1] \in 1..n
                    BY <1>1, <1>2 DEF Exhausted
                <5> QED
                    BY <1>2, <5>2, <5>3
            <4> QED
                BY <1>2, <2>1, <2>2, <3>2, <3>4, <4>1
        <3> QED
            BY SMTT(30), <1>2, <3>1, <3>3, <3>4 DEF Levels
    <2>7. EndsRight'
        BY <1>1, <2>1 DEF EndsRight
    <2> QED
        BY <2>4, <2>5, <2>6, <2>7 DEF SearchInv
<1> QED
    BY <1>4, <1>5

\* Selecting, searching and the health checker's marks keep the invariant.
LEMMA NextSearch == SearchInv /\ [SearchNext]_searchVars => SearchInv'
<1> SUFFICES ASSUME SearchInv, [SearchNext]_searchVars PROVE SearchInv'
    OBVIOUS
<1>1. CASE Select
    BY <1>1, SelectInv
<1>2. CASE Step
    BY <1>2, PushInv, SkipInv, PopInv DEF Step
<1>3. ASSUME dead' \subseteq Hosts, UNCHANGED <<at, search>> PROVE SearchInv'
    <2>1. at' = at /\ live' = live /\ candidates' = candidates /\ depth' = depth
          /\ cursor' = cursor
        BY <1>3 DEF search
    <2>2. SearchTypeOK'
        BY Zenon, <1>3, <2>1 DEF SearchInv, SearchTypeOK
    <2>3. PrefixFits' /\ EndsRight'
        BY ZenonT(40), <2>1 DEF SearchInv, PrefixFits, EndsRight, Exhausted, Chosen
    <2>4. LeftBehind'
        BY <2>1 DEF SearchInv, LeftBehind, Diverse
    <2> QED
        BY <2>2, <2>3, <2>4 DEF SearchInv
<1>4. ASSUME NEW h \in Hosts, MarkDown(h) \/ MarkUp(h) PROVE SearchInv'
    BY <1>3, <1>4 DEF MarkDown, MarkUp, SearchInv, SearchTypeOK
<1>5. CASE UNCHANGED searchVars
    BY <1>3, <1>5 DEF searchVars, search, SearchInv, SearchTypeOK
<1> QED
    BY <1>1, <1>2, <1>4, <1>5 DEF SearchNext

\* The inductive invariant holds of every behaviour.
THEOREM SearchInvariant == SearchSpec => []SearchInv
BY InitSearch, NextSearch, PTL DEF SearchSpec

\* Type correctness of the selector.
THEOREM TypeCorrect == SearchSpec => []SearchTypeOK
<1>1. SearchInv => SearchTypeOK
    BY DEF SearchInv
<1> QED
    BY <1>1, SearchInvariant, PTL

\* What extend_path leaves behind leads nowhere, at every level.
THEOREM DeadEndsAreDead == SearchSpec => []LeftBehind
<1>1. SearchInv => LeftBehind
    BY DEF SearchInv
<1> QED
    BY <1>1, SearchInvariant, PTL

\* select_path returns diverse paths of live nodes only.
THEOREM SelectionIsSound == SearchSpec => []PathIsDiverse
<1>1. SearchInv => PathIsDiverse
    <2> SUFFICES ASSUME SearchInv, at = "found"
                 PROVE  [l \in Levels |-> Chosen(l)] \in DiversePaths(live)
        BY DEF PathIsDiverse
    <2> DEFINE n == Cardinality(live)
               path == [l \in Levels |-> Chosen(l)]
    <2>1. n \in Nat /\ Hops \in Nat /\ depth = Hops
        BY RegistryAssumption, LiveCount DEF SearchInv, SearchTypeOK, EndsRight
    <2>2. candidates \in [1..n -> live] /\ cursor \in [Levels -> 1..(n + 1)]
        BY DEF SearchInv, SearchTypeOK, Shuffles
    <2>3. \A l \in Levels : cursor[l] \in 1..n
        BY <2>1, <2>2 DEF SearchInv, PrefixFits, Levels
    <2>4. path \in [Levels -> live]
        BY <2>2, <2>3 DEF Chosen
    <2>5. Diverse(path)
        BY <2>1 DEF SearchInv, PrefixFits, Levels, Diverse
    <2> QED
        BY <2>4, <2>5 DEF DiversePaths
<1> QED
    BY <1>1, SearchInvariant, PTL

\* select_path returns None only when there is no diverse path of live nodes.
THEOREM SelectionIsComplete == SearchSpec => []NoneMeansNoPath
<1>1. SearchInv => NoneMeansNoPath
    <2> SUFFICES ASSUME SearchInv, at = "none", NEW path \in DiversePaths(live) PROVE FALSE
        BY DEF NoneMeansNoPath
    <2> DEFINE n == Cardinality(live)
               Index(i) == CHOOSE c \in 1..n : candidates[c] = path[i]
               index == [i \in Levels |-> Index(i)]
    <2>1. n \in Nat /\ Hops \in Nat /\ Hops > 0 /\ depth = 0 /\ cursor[1] > n
        BY RegistryAssumption, LiveCount DEF SearchInv, SearchTypeOK, EndsRight, Exhausted
    <2>2. path \in [Levels -> live] /\ Diverse(path)
        BY DEF DiversePaths
    <2>3. \A x \in live : \E c \in 1..n : candidates[c] = x
        BY DEF SearchInv, SearchTypeOK, Shuffles
    <2>4. \A i \in Levels : Index(i) \in 1..n /\ candidates[Index(i)] = path[i]
        BY Zenon, <2>2, <2>3
    <2> HIDE DEF Index
    <2>5. index \in [Levels -> 1..n] /\ \A i \in Levels : candidates[index[i]] = path[i]
        BY Zenon, <2>4
    <2> HIDE DEF index
    <2>6. Diverse([i \in Levels |-> candidates[index[i]]])
        BY <2>2, <2>5 DEF Diverse
    <2>7. 1 \in Levels /\ \A i \in 1..(1 - 1) : index[i] = cursor[i]
        BY SMTT(30), <2>1 DEF Levels
    <2>8. index[1] >= cursor[1]
        <3>1. 1 <= depth + 1
            BY <2>1
        <3> QED
            BY Zenon, <2>5, <2>6, <2>7, <3>1 DEF SearchInv, LeftBehind
    <2>9. cursor[1] \in Nat /\ index[1] \in 1..n
        BY <2>1, <2>5, <2>7 DEF SearchInv, SearchTypeOK
    <2> QED
        BY <2>1, <2>8, <2>9
<1> QED
    BY <1>1, SearchInvariant, PTL
=============================================================================
