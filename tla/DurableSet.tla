----------------------------- MODULE DurableSet -----------------------------
(***************************************************************************)
(* The file-backed single-use sets of nil-core (durable): DurableSet, the  *)
(* epoch-partitioned and the timed set.  They share one discipline: a      *)
(* record is appended and fsynced before the memory learns it, any error   *)
(* closes the handle, and a compaction writes the survivors to a new file, *)
(* renames it, syncs the directory and reopens before the memory forgets.  *)
(* A tag is the time of a timed entry or the epoch of an epoch entry; the  *)
(* plain set has one tag and no compaction (Retentions = {}).              *)
(*                                                                         *)
(* One mutex covers each operation, so its file calls interleave only with *)
(* crashes: `doing` is the call the operation is at.                       *)
(***************************************************************************)
EXTENDS Integers, FiniteSets, FileImage

CONSTANTS
    Keys, Tags,
    Retentions,     \* the sets of tags a compaction may keep
    Capacity,       \* max_entries; the unbounded sets have |Keys|
    Faults          \* which of "write", "fsync", "temp", "dirsync", "kill", "power" happen

\* What kind of thing each constant is.
SetAssumption == Retentions \subseteq SUBSET Tags /\ Capacity \in Nat

VARIABLES
    proc,           \* "up" or "down"
    seen,           \* Inner::seen, as entries
    handle,         \* Inner::file, "open" or "none"
    image,          \* the file
    doing,          \* "nothing", "append" (before its fsync), "compact" (before the directory's)
    entry,          \* the entry being appended
    keep,           \* the tags being kept
    answer,         \* what the last operation returned
    grants          \* how often each key was newly accepted since a compaction last dropped it

vars == <<proc, seen, handle, image, doing, entry, keep, answer, grants>>

Entries == [key : Keys, tag : Tags]
KeysOf(entries) == {e.key : e \in entries}

\* The lines of a file.  A tail is whole, or torn inside its last record; a
\* record appended behind a torn one is glued to it and both are malformed.
Contents == [lines : SUBSET Entries, tail : {"whole", "torn", "glued"}]
NoLines == [lines |-> {}, tail |-> "whole"]
Appended(c, e) ==
    IF c.tail = "whole" THEN [c EXCEPT !.lines = @ \cup {e}] ELSE [c EXCEPT !.tail = "glued"]
Torn(c) == [c EXCEPT !.tail = IF @ = "whole" THEN "torn" ELSE "glued"]

Init ==
    /\ proc = "down" /\ seen = {} /\ handle = "none" /\ image = Settled(NoLines)
    /\ doing = "nothing" /\ entry = (CHOOSE e \in Entries : TRUE) /\ keep = Tags
    /\ answer = "none" /\ grants = [k \in Keys |-> 0]

Idle == proc = "up" /\ doing = "nothing"

\* The mutex is released with an answer.
Answer(a) == answer' = a /\ doing' = "nothing"

Refuse(k) ==
    /\ Idle
    /\ \/ k \in KeysOf(seen) /\ Answer("AlreadyPresent")
       \/ /\ k \notin KeysOf(seen) /\ Cardinality(seen) >= Capacity
          /\ Answer("CapacityReached")
       \/ /\ k \notin KeysOf(seen) /\ Cardinality(seen) < Capacity /\ handle = "none"
          /\ Answer("Err")
    /\ UNCHANGED <<proc, seen, handle, image, entry, keep, grants>>

Admits(k) ==
    /\ Idle /\ handle = "open"
    /\ k \notin KeysOf(seen) /\ Cardinality(seen) < Capacity

\* write_all of one complete record.
Append(e) ==
    /\ Admits(e.key)
    /\ image' = Written(image, Appended(image.cached, e))
    /\ entry' = e /\ doing' = "append"
    /\ UNCHANGED <<proc, seen, handle, keep, answer, grants>>

\* (Mutant: the handle survives an error.)
FailKeep(c) ==
    /\ image' = Written(image, c)
    /\ Answer("Err")
    /\ UNCHANGED <<proc, seen, handle, entry, keep, grants>>
\* append_record's error path, with c in the page cache.
Fail(c) ==
    /\ image' = Written(image, c)
    /\ handle' = "none"
    /\ Answer("Err")
    /\ UNCHANGED <<proc, seen, entry, keep, grants>>

AppendFails(e) ==
    /\ "write" \in Faults /\ Admits(e.key)
    /\ \E c \in {image.cached, Torn(image.cached)} : Fail(c)

Accept ==
    /\ doing = "append"
    /\ image' = Synced(image)
    /\ seen' = seen \cup {entry}
    /\ grants' = [grants EXCEPT ![entry.key] = @ + 1]
    /\ Answer("Inserted")
    /\ UNCHANGED <<proc, handle, entry, keep>>

FsyncFails == "fsync" \in Faults /\ doing = "append" /\ Fail(image.cached)

Kept(kept) == {e \in seen : e.tag \in kept}
\* The promise about a dropped key ends when its line does.
Released(entries) == [k \in Keys |-> IF k \in KeysOf(entries) THEN 0 ELSE grants[k]]

\* prune_older_than and drop_epochs: the temporary file, fsynced, is renamed.
Compact(kept) ==
    /\ Idle /\ Kept(kept) # seen
    /\ handle' = "none"
    /\ image' = Replaced(image, [lines |-> Kept(kept), tail |-> "whole"])
    /\ keep' = kept /\ doing' = "compact"
    /\ grants' = Released(seen \ Kept(kept))
    /\ UNCHANGED <<proc, seen, entry, answer>>

CompactFails(kept) ==
    /\ "temp" \in Faults /\ Idle /\ Kept(kept) # seen
    /\ Fail(image.cached)

\* The directory is synced and the file reopened; the memory follows.
Commit ==
    /\ doing = "compact"
    /\ image' = NameSynced(image)
    /\ seen' = Kept(keep)
    /\ handle' = "open"
    /\ Answer("Dropped")
    /\ UNCHANGED <<proc, entry, keep, grants>>

\* The directory sync or the reopening fails: the memory is left as it was.
CommitFails ==
    /\ "dirsync" \in Faults /\ doing = "compact"
    /\ image' \in {image, NameSynced(image)}
    /\ Answer("Err")
    /\ UNCHANGED <<proc, seen, handle, entry, keep, grants>>

\* A file open() accepts: complete records, no key with two tags.
Loads(c) == c.tail = "whole" /\ \A e, f \in c.lines : e.key = f.key => e = f

Open ==
    /\ proc = "down" /\ Loads(image.cached)
    /\ proc' = "up" /\ handle' = "open" /\ seen' = image.cached.lines
    /\ image' = NameSynced(image)
    /\ Answer("none")
    /\ UNCHANGED <<entry, keep, grants>>

Down ==
    /\ proc' = "down" /\ seen' = {} /\ handle' = "none" /\ Answer("none")
    /\ UNCHANGED <<entry, keep, grants>>

\* The process dies, perhaps inside the write of a record.
Kill ==
    /\ "kill" \in Faults /\ proc = "up" /\ Down
    /\ \/ UNCHANGED image
       \/ \E k \in Keys : Admits(k) /\ image' = Written(image, Torn(image.cached))

\* The machine dies: any mix of what was synced and what was not is left, an
\* unsynced record perhaps in part.
Power ==
    /\ "power" \in Faults /\ Down
    /\ \E c \in Survivors(image) \cup
                 (IF image.cached = image.synced THEN {} ELSE {Torn(image.synced)}) :
          image' = Settled(c)

Next ==
    \/ \E k \in Keys : Refuse(k)
    \/ \E e \in Entries : Append(e) \/ AppendFails(e)
    \/ Accept \/ FsyncFails
    \/ \E kept \in Retentions : Compact(kept) \/ CompactFails(kept)
    \/ Commit \/ CommitFails
    \/ Open \/ Kill \/ Power

Spec == Init /\ [][Next]_vars

-----------------------------------------------------------------------------
\* Type invariant.
TypeOK ==
    /\ proc \in {"up", "down"} /\ handle \in {"open", "none"}
    /\ seen \subseteq Entries /\ image \in FileImages(Contents)
    /\ doing \in {"nothing", "append", "compact"}
    /\ proc = "down" => doing = "nothing" /\ handle = "none"
    /\ doing = "append" => entry \in Entries
    /\ keep \subseteq Tags
    /\ answer \in {"none", "AlreadyPresent", "CapacityReached", "Err", "Inserted", "Dropped"}
    /\ grants \in [Keys -> Nat]

Accepted == {k \in Keys : grants[k] > 0}

\* insert reports a key as new at most once until a compaction drops it, over
\* failing calls, crashes and restarts: one token per payment.
AcceptedOnce == \A k \in Keys : grants[k] <= 1

\* An accepted key is in everything a crash can leave of the file, and no
\* record is ever appended behind a torn one.
AcceptedIsKept ==
    \A c \in Survivors(image) : Accepted \subseteq KeysOf(c.lines) /\ c.tail # "glued"

\* A restart is refused only over a torn last record: the file never names a key
\* with two times or epochs, which open() takes for damage.
OnlyTearsBlockStart == \A c \in Survivors(image) : c.tail = "whole" => Loads(c)

\* Memory and disk: while the handle is open the memory is what the file says,
\* and at no time has it forgotten an accepted key (a failed compaction never
\* leaves it smaller than what is persisted).
MemoryMatchesFile ==
    proc = "up" =>
        /\ Accepted \subseteq KeysOf(seen)
        /\ handle = "open" /\ doing = "nothing" => image.cached = [lines |-> seen, tail |-> "whole"]

\* The set never outgrows max_entries, on disk or in memory, also when records
\* whose insertion failed turn up at the next start.
WithinCapacity ==
    /\ Cardinality(seen) <= Capacity
    /\ \A c \in Survivors(image) : Cardinality(c.lines) <= Capacity

\* No key twice; every insertion adds one record to finitely many.
Unambiguous(entries) ==
    IsFiniteSet(entries) /\ \A e, f \in entries : e.key = f.key => e = f
ContentsAreSets ==
    Unambiguous(seen) /\ \A c \in Survivors(image) : Unambiguous(c.lines)

\* What insert and the compactions know between two file calls: the record in the
\* page cache is of a new key and fits, and the new file has every key still promised.
CallsFit ==
    /\ doing = "append" =>
          /\ handle = "open" /\ image.cached = [lines |-> seen \cup {entry}, tail |-> "whole"]
          /\ entry.key \notin KeysOf(seen) /\ Cardinality(seen) < Capacity
    /\ doing = "compact" =>
          /\ handle = "none" /\ image.cached = [lines |-> Kept(keep), tail |-> "whole"]
          /\ Accepted \subseteq KeysOf(Kept(keep))

\* Records are appended to a file whose name is on the medium, and what is not on the
\* medium yet follows complete records there.
AppendsAreSafe ==
    /\ handle = "open" => image.stale = {}
    /\ image.cached # image.synced => image.synced.tail = "whole"

\* insert accepts a key once; memory, file and medium agree at every step of
\* append_record and of the compactions, within capacity and free of what would
\* block a restart.
SetInv ==
    /\ TypeOK /\ AcceptedOnce /\ AcceptedIsKept /\ OnlyTearsBlockStart /\ MemoryMatchesFile
    /\ WithinCapacity /\ ContentsAreSets /\ CallsFit /\ AppendsAreSafe
=============================================================================
