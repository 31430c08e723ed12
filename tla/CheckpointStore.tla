-------------------------- MODULE CheckpointStore --------------------------
(***************************************************************************)
(* The checkpoint directory of one incident: CheckpointManager.save and    *)
(* FileCheckpointStore with one or more processes that save into it.       *)
(*                                                                         *)
(*   - a file name holds the sequence number, then the status and the      *)
(*     checkpoint id, which depend on the sequence, the status and the     *)
(*     cursor only: two saves may choose the same name;                    *)
(*   - save takes the next sequence number off the file names, writes and  *)
(*     fsyncs a temporary file, renames it, and fsyncs the directory;      *)
(*   - a save may raise before or after the rename, a process may stop, the *)
(*     power may fail and take any rename that was not synced with it, and *)
(*     a file may be damaged;                                              *)
(*   - load_latest_valid reads from the newest name down, passes over what *)
(*     fails the checksum and refuses to pass over an unknown version.     *)
(*                                                                         *)
(* Temporary files never match *.json and leave no trace here.  A save is  *)
(* a number; the state it holds plays no part in the store.                *)
(***************************************************************************)
EXTENDS Naturals

CONSTANTS
    Manager,            \* processes that save checkpoints of the incident
    Names,              \* order of the names that share a sequence number
    MaxSaves,           \* bound: saves begun
    MaxFaults,          \* bound: saves that raise or skip the directory sync
    MaxStops,           \* bound: processes stopped, power failures
    MaxDamage           \* bound: files damaged

ASSUME StoreAssumption ==
    /\ Names \subseteq Nat
    /\ MaxSaves \in Nat
    /\ MaxFaults \in Nat
    /\ MaxStops \in Nat
    /\ MaxDamage \in Nat

VARIABLES
    disk,           \* checkpoint files a process can see
    durable,        \* those the last directory sync made safe from a power failure
    pc,             \* next step of each manager's save
    writing,        \* the write each manager has under way
    acknowledged,   \* observed: writes whose save returned
    unsynced,       \* observed: of these, saves that skipped the directory sync
    damaged,        \* observed: names of damaged files
    saves, faults, stops, damages

files == <<disk, durable>>
observed == <<acknowledged, unsynced, damaged>>
vars == <<files, pc, writing, observed, saves, faults, stops, damages>>

-----------------------------------------------------------------------------
(* How from_json reads a file: "version" is any schema_version but ours,    *)
(* which is looked at before the checksum.                                 *)
Health == {"good", "corrupt", "version"}

Paths == [seq : Nat \ {0}, name : Names]

Files == [path : Paths, save : Nat \ {0}, health : Health]

(* A write and, observed, the saves that were visible when it began.        *)
Writes == [file : Files, over : SUBSET (Nat \ {0})]

NoWrite == [file |-> [path |-> [seq |-> 0, name |-> 0], save |-> 0, health |-> "corrupt"],
            over |-> {}]

TypeOK ==
    /\ disk \subseteq Files
    /\ durable \subseteq Files
    /\ pc \in [Manager -> {"idle", "replace", "sync"}]
    /\ writing \in [Manager -> Writes \cup {NoWrite}]
    /\ acknowledged \subseteq Writes
    /\ unsynced \subseteq Nat
    /\ damaged \subseteq Paths
    /\ saves \in Nat
    /\ faults \in Nat
    /\ stops \in Nat
    /\ damages \in Nat

Init ==
    /\ disk = {}
    /\ durable = {}
    /\ pc = [m \in Manager |-> "idle"]
    /\ writing = [m \in Manager |-> NoWrite]
    /\ acknowledged = {}
    /\ unsynced = {}
    /\ damaged = {}
    /\ saves = 0
    /\ faults = 0
    /\ stops = 0
    /\ damages = 0

-----------------------------------------------------------------------------
(* The order load_latest_valid reads in, from the last to the first.        *)
Precedes(f, g) ==
    \/ f.path.seq < g.path.seq
    \/ f.path.seq = g.path.seq /\ f.path.name < g.path.name

(* A faulty variant of a definition stands before it: a bug the checks must *)
(* notice.                                                                 *)
LatestIfReadable == {f \in disk : f.health = "good" /\ \A g \in disk : ~Precedes(f, g)}

(* What load_latest_valid returns: no file, or exactly one.                 *)
Latest == {f \in disk : /\ f.health = "good"
                        /\ \A g \in disk : Precedes(f, g) => g.health = "corrupt"}

NextSequencesFromZero ==
    {n \in {0} \cup {f.path.seq + 1 : f \in disk} : \A f \in disk : f.path.seq < n}

(* next_sequence: one more than the greatest on any name, readable or not.  *)
NextSequences ==
    {n \in {1} \cup {f.path.seq + 1 : f \in disk} : \A f \in disk : f.path.seq < n}

GoTo(m, step) == pc' = [pc EXCEPT ![m] = step]

(* save returns or raises.                                                 *)
EndSave(m) ==
    /\ GoTo(m, "idle")
    /\ writing' = [writing EXCEPT ![m] = NoWrite]

Fault ==
    /\ faults < MaxFaults
    /\ faults' = faults + 1

(* CheckpointManager.save up to the rename: the sequence number, the        *)
(* envelope and the synced temporary file.                                 *)
BeginSave(m) ==
    /\ pc[m] = "idle"
    /\ saves < MaxSaves
    /\ saves' = saves + 1
    /\ \E n \in NextSequences, name \in Names :
          writing' = [writing EXCEPT ![m] =
                        [file |-> [path   |-> [seq |-> n, name |-> name],
                                   save   |-> saves + 1,
                                   health |-> "good"],
                         over |-> {f.save : f \in disk}]]
    /\ GoTo(m, "replace")
    /\ UNCHANGED <<files, observed, faults, stops, damages>>

(* Anything that raises before the rename; the temporary file is removed.   *)
FailBeforeReplace(m) ==
    /\ pc[m] = "replace"
    /\ Fault
    /\ EndSave(m)
    /\ UNCHANGED <<files, observed, saves, stops, damages>>

(* os.replace: a file of the same name is gone.                             *)
Replace(m) ==
    /\ pc[m] = "replace"
    /\ disk' = {f \in disk : f.path # writing[m].file.path} \cup {writing[m].file}
    /\ GoTo(m, "sync")
    /\ UNCHANGED <<durable, writing, observed, saves, faults, stops, damages>>

Acknowledge(m) ==
    /\ acknowledged' = acknowledged \cup {writing[m]}
    /\ EndSave(m)
    /\ UNCHANGED <<disk, damaged, saves, stops, damages>>

SyncDirectoryNever(m) ==
    /\ pc[m] = "sync"
    /\ Acknowledge(m)
    /\ UNCHANGED <<durable, unsynced, faults>>

(* _fsync_directory; save returns.                                         *)
SyncDirectory(m) ==
    /\ pc[m] = "sync"
    /\ durable' = disk
    /\ Acknowledge(m)
    /\ UNCHANGED <<unsynced, faults>>

(* On a platform that cannot, or when the directory cannot be opened,       *)
(* _fsync_directory returns without a word.                                *)
SkipSync(m) ==
    /\ pc[m] = "sync"
    /\ Fault
    /\ unsynced' = unsynced \cup {writing[m].file.save}
    /\ Acknowledge(m)
    /\ UNCHANGED durable

(* fsync raises: so does save, although the file is in place.               *)
FailSync(m) ==
    /\ pc[m] = "sync"
    /\ Fault
    /\ EndSave(m)
    /\ UNCHANGED <<files, observed, saves, stops, damages>>

-----------------------------------------------------------------------------
Crash(m) ==
    /\ pc[m] # "idle"
    /\ stops < MaxStops
    /\ stops' = stops + 1
    /\ EndSave(m)
    /\ UNCHANGED <<files, observed, saves, faults, damages>>

(* Each name comes back as it was synced last or as it was seen last.       *)
Survivors(D) ==
    /\ \A f \in durable : \E g \in D : g.path = f.path
    /\ \A f, g \in D : f.path = g.path => f = g

PowerFailure ==
    /\ stops < MaxStops
    /\ stops' = stops + 1
    /\ \E D \in SUBSET (disk \cup durable) : Survivors(D) /\ disk' = D /\ durable' = D
    /\ pc' = [m \in Manager |-> "idle"]
    /\ writing' = [m \in Manager |-> NoWrite]
    /\ UNCHANGED <<observed, saves, faults, damages>>

(* Something spoils a readable file, whichever copies of it there are.      *)
Damage(f, health) ==
    LET spoil(S) == {IF g = f THEN [g EXCEPT !.health = health] ELSE g : g \in S}
    IN /\ f.health = "good"
       /\ damages < MaxDamage
       /\ damages' = damages + 1
       /\ disk' = spoil(disk)
       /\ durable' = spoil(durable)
       /\ damaged' = damaged \cup {f.path}
       /\ UNCHANGED <<pc, writing, acknowledged, unsynced, saves, faults, stops>>

Save(m) ==
    \/ BeginSave(m)
    \/ FailBeforeReplace(m)
    \/ Replace(m)
    \/ SyncDirectory(m)
    \/ SkipSync(m)
    \/ FailSync(m)

Next ==
    \/ \E m \in Manager : Save(m) \/ Crash(m)
    \/ PowerFailure
    \/ \E f \in disk, health \in Health \ {"good"} : Damage(f, health)

Spec == Init /\ [][Next]_vars

-----------------------------------------------------------------------------
(* Saves whose return is a promise: the directory was synced and nothing    *)
(* spoiled the file since.                                                 *)
Trusted == {w \in acknowledged : /\ w.file.save \notin unsynced
                                 /\ w.file.path \notin damaged}

(* A restart never resumes from a checkpoint that was already there when a  *)
(* save began that has since returned: whatever raced, raised, stopped or  *)
(* lost power in between, and whatever other file was damaged.             *)
LatestSupersedes ==
    \A w \in Trusted : \A f \in Latest : f.save \notin w.over

(* Damage to some files never hides the others, short of a file that claims *)
(* another version: a save that returned leaves something to load.         *)
AcknowledgedIsLoadable ==
    Trusted # {} /\ (\A f \in disk : f.health # "version") => Latest # {}

(* "load_latest_valid() skips a corrupt newest checkpoint": a readable      *)
(* checkpoint is found although newer ones are damaged.                    *)
CorruptNewestIsSkipped ==
    (\E f \in disk : f.health = "good") => Latest # {}
=============================================================================
