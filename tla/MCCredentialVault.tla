-------------------------- MODULE MCCredentialVault --------------------------
(* Small instances of the client's credential vault for TLC: its transactions, *)
(* and the sealed file below them.  A behaviour exercises one.                 *)
EXTENDS CredentialVault

CONSTANTS a1, a2, p1, c1, c2

MCAccounts == {a1, a2}
MCPayments == {p1}
MCConnects == {c1, c2}

\* Refills, two connects and a change of account with lost answers and crashes; the
\* same with expiry; the same between two accounts; a purchase beside a refill over
\* a vault that fails to be written; one between refills; and one whose request
\* expires.
MCScenarios ==
    {[faults |-> {"loss", "crash"}, accounts |-> {a1}, payments |-> {},
      connects |-> {c1, c2}, requests |-> 2, ticks |-> 0],
     [faults |-> {"loss", "crash"}, accounts |-> {a1}, payments |-> {},
      connects |-> {c1}, requests |-> 2, ticks |-> 1],
     [faults |-> {"loss", "crash"}, accounts |-> {a1, a2}, payments |-> {},
      connects |-> {c1}, requests |-> 2, ticks |-> 0],
     [faults |-> {"loss", "crash", "store", "dirsync"}, accounts |-> {a1},
      payments |-> {p1}, connects |-> {c1}, requests |-> 2, ticks |-> 0],
     [faults |-> {"loss"}, accounts |-> {a1}, payments |-> {p1}, connects |-> {c1},
      requests |-> 3, ticks |-> 0],
     [faults |-> {"loss"}, accounts |-> {a1}, payments |-> {p1}, connects |-> {},
      requests |-> 2, ticks |-> 1]}

-----------------------------------------------------------------------------
VARIABLES
    part,   \* rigid: the component this behaviour exercises
    store, disk, legacy, key, app, write, temp, made, handed, truth, unsynced,
    left
storeVars == <<store, disk, legacy, key, app, write, temp, made, handed, truth, unsynced,
               left>>

\* No vault, a vault with an account, and one an old release left a bare pending
\* pass in; beside the plaintext files of an older one.
BareId == 99
File(kind, k, auth, tokens, n, pend) ==
    [kind |-> kind, key |-> k,
     body |-> [auth |-> auth, tokens |-> tokens, n |-> n, pend |-> pend]]
Files == {File("none", 0, "absent", "absent", 0, 0), File("sealed", 1, "good", "absent", 1, 0),
          File("sealed", 1, "absent", "good", 1, BareId)}
OddFiles == Files \cup {File(kind, 0, "absent", "absent", 0, 0) : kind \in {"damaged", "unsafe"}}
Plain == [auth : {"absent", "good"}, tokens : {"absent", "good"}]
OddPlain == [auth : {"good", "garbled", "unsafe"}, tokens : {"absent", "good", "unsafe"}]
StoreRun(system, kinds, failures, stops) ==
    [platform |-> system, faults |-> kinds, vaults |-> Files, legacies |-> Plain,
     left |-> [ops |-> 2, destroys |-> 1, faults |-> failures, crashes |-> stops]]

\* Two failures and a crash on Apple; two failures and two stops of any kind on Linux; a
\* failure and a crash, or two stops, on Windows; files that cannot be used on Android.
StoreScenarios ==
    {StoreRun("apple", {"locked", "mismatch", "io", "dirsync", "keyloss", "crash"}, 2, 1),
     StoreRun("linux", {"locked", "mismatch", "io", "dirsync", "crash", "power"}, 2, 2),
     StoreRun("windows", {"locked", "io", "crash"}, 1, 1),
     StoreRun("windows", {"locked", "crash", "power"}, 1, 2),
     [StoreRun("android", {"locked", "mismatch", "crash"}, 1, 1)
        EXCEPT !.vaults = OddFiles, !.legacies = OddPlain]}

Sealed == INSTANCE SecureStore WITH
              Scenarios <- StoreScenarios, Bare <- BareId, scenario <- store, job <- write

VaultsInit ==
    /\ part \in {"vault", "file"}
    /\ Init
    /\ part # "vault" => scenario.ticks = 1 /\ scenario.connects = {} /\ vault = Replaced(a1)
    /\ Sealed!Init
    /\ part # "file" => store = StoreRun("windows", {"locked", "io", "crash"}, 1, 1)
                        /\ disk[1].kind = "none" /\ legacy[1].auth = "absent"
                        /\ legacy[1].tokens = "absent"
VaultsNext ==
    /\ \/ part = "vault" /\ Next /\ UNCHANGED storeVars
       \/ part = "file" /\ Sealed!Next /\ UNCHANGED <<vars, scenario>>
    /\ UNCHANGED part
VaultsSpec ==
    VaultsInit /\ [][VaultsNext]_<<part, vars, scenario, storeVars>> /\ Fairness

\* Below the transactions, the sealed file neither loses nor revives credentials,
\* whichever step fails or is cut off and whatever an old release left; what rests on
\* a directory that was not synced, a power cut may take back.
SecureStoreInv == Sealed!SecureStoreInv
=============================================================================
