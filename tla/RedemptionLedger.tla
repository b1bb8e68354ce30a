-------------------------- MODULE RedemptionLedger --------------------------
(***************************************************************************)
(* What the Coordinator's redemption ledger promises its callers, whatever *)
(* backend stores it: a pass has at most one owner, the request whose      *)
(* proposed path became the pass's first result; every path ever answered  *)
(* for the pass is that owner's path; a pass is refused as spent only when *)
(* it has an owner.  Nothing ever takes an owner away.                     *)
(***************************************************************************)
CONSTANTS Requests, Keys, KeyOf

VARIABLES owner,    \* per pass: the request that spent it, "legacy" or "nobody"
          answer    \* per request: "none", the request whose path it got, or a refusal

Refusals == {"spent", "unavailable", "rejected", "lost"}

LedgerInit == owner \in [Keys -> {"nobody", "legacy"}]
              /\ answer = [r \in Requests |-> "none"]

\* The pass becomes spent on behalf of r (r itself may or may not be told).
Commit(r) == /\ owner[KeyOf[r]] = "nobody"
             /\ owner' = [owner EXCEPT ![KeyOf[r]] = r]

\* r is answered according to the owner its pass has once the step is over.
Told(r, a) == /\ answer[r] = "none"
              /\ answer' = [answer EXCEPT ![r] = a]
              /\ a \in Requests => a = owner'[KeyOf[r]]
              /\ a = "spent" => owner'[KeyOf[r]] # "nobody"

Spend(r) == Commit(r) /\ (answer' = answer \/ Told(r, r))

\* A restart finds commits of requests that were never answered.
Discover == /\ DOMAIN owner' = Keys
            /\ \A k \in Keys : \/ owner'[k] = owner[k]
                               \/ owner[k] = "nobody" /\ owner'[k] \in {r \in Requests : KeyOf[r] = k}
            /\ answer' = answer

Answer(r) == \E a \in Requests \cup Refusals : Told(r, a) /\ owner' = owner

\* A stopped process leaves every request it was serving without an answer.
Drop == /\ owner' = owner
        /\ \A r \in Requests : answer'[r] # answer[r] => answer[r] = "none" /\ answer'[r] = "lost"
        /\ DOMAIN answer' = Requests

LedgerNext == Discover \/ Drop \/ \E r \in Requests : Spend(r) \/ Answer(r)

LedgerSpec == LedgerInit /\ [][LedgerNext]_<<owner, answer>>
=============================================================================
