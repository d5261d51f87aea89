------------------------------ MODULE WalStore ------------------------------
(***************************************************************************)
(* The store of wal/src/lib.rs, one action per call to the file system,    *)
(* over a file system that keeps in memory what was not synced.            *)
(*                                                                         *)
(* A log is a sequence of frames (length, checksum, payload), and of what  *)
(* is left of frames that were not written whole: "short", less than the   *)
(* eight bytes of length and checksum; "torn", those but not the whole     *)
(* payload; "bad", a frame whose checksum does not match.                  *)
(***************************************************************************)
EXTENDS Integers, FiniteSets, SequencesExt

CONSTANTS Keys, Values, None,
          BigValues,    \* values whose payload is longer than MAX_RECORD
          Inodes,       \* files the file system can hold at a time
          MaxUpdates,   \* bound: calls of set and delete
          MaxCompacts,  \* bound: calls of compact
          MaxKills,     \* bound: crashes of the process
          MaxLosses,    \* bound: losses of power
          Fresh,        \* the store file does not exist yet
          MayTear,      \* a crash may leave part of a frame
          SyncsEntry,   \* syncing a file also syncs its directory entry
          Faults        \* calls of the file system that may fail

ASSUME WalAssumption ==
  /\ BigValues \subseteq Values /\ None \notin Keys \cup Values \cup Inodes
  /\ IsFiniteSet(Keys) /\ Inodes # {}
  /\ MaxUpdates \in Nat /\ MaxCompacts \in Nat /\ MaxKills \in Nat /\ MaxLosses \in Nat
  /\ Fresh \in BOOLEAN /\ MayTear \in BOOLEAN /\ SyncsEntry \in BOOLEAN
  /\ Faults \subseteq {"write", "sync", "tmp", "rename", "fsync_dir", "reopen"}

Value == Values \cup {None}
Frame == [kind : {"frame"}, key : Keys, value : Value]
Junk  == [kind : {"short", "torn", "bad"}]

VARIABLES data,         \* contents of every inode
          synced,       \* how much of it is on disk
          dirs,         \* the directory: what is on disk, then every later state
          file,         \* inode of the handle self.file
          kv,           \* the map btree_map
          pc,           \* what the process is doing
          op,           \* the call of set or delete in progress
          maybe,        \* per key, the values a crash may leave (see KvStore)
          buried,       \* history: something was written after what replay cannot read
          updates, compacts, kills, losses

disk   == <<data, synced, dirs>>
counts == <<updates, compacts, kills, losses>>
vars   == <<disk, file, kv, pc, op, maybe, buried, counts>>

Idle == [key |-> None, value |-> None]
Dir  == dirs[Len(dirs)]

Update(k, v) == [kind |-> "frame", key |-> k, value |-> v]
Part(kind)   == [kind |-> kind]
IsFrame(item) == item.kind = "frame"

Init ==
  /\ data = [i \in Inodes |-> <<>>]
  /\ synced = [i \in Inodes |-> 0]
  /\ dirs = << [db |-> IF Fresh THEN None ELSE CHOOSE i \in Inodes : TRUE, tmp |-> None] >>
  /\ file = None
  /\ kv = [k \in Keys |-> None]
  /\ pc = "down"
  /\ op = Idle
  /\ maybe = [k \in Keys |-> {None}]
  /\ buried = FALSE
  /\ updates = 0 /\ compacts = 0 /\ kills = 0 /\ losses = 0

ChangeDir(d) == dirs' = Append(dirs, d)

(* File::sync_all. POSIX promises nothing about the directory entry; file  *)
(* systems with a journal write it out together with the inode.            *)
SyncFile(i) ==
  /\ synced' = [synced EXCEPT ![i] = Len(data[i])]
  /\ dirs' = IF SyncsEntry /\ i \in {Dir.db, Dir.tmp} THEN <<Dir>> ELSE dirs

-----------------------------------------------------------------------------
(* Replay *)

(* Where replay stops: the first item that is not a frame, or a frame      *)
(* whose length is taken for a corrupted one.                              *)
Readable(item) == IsFrame(item) /\ item.value \notin BigValues
Stops(log) == {i \in 1 .. Len(log) : ~Readable(log[i])}
Prefix(log) ==
  IF Stops(log) = {} THEN Len(log)
  ELSE (CHOOSE i \in Stops(log) : \A j \in Stops(log) : i <= j) - 1

(* The last of the frames 1 .. n on a key decides its value.               *)
About(log, n, k) == {i \in 1 .. n : log[i].key = k}
ValueIn(log, n, k) ==
  IF About(log, n, k) = {} THEN None
  ELSE log[CHOOSE i \in About(log, n, k) : \A j \in About(log, n, k) : j <= i].value

Replay(log) == [k \in Keys |-> ValueIn(log, Prefix(log), k)]

(* read_exact fails on a payload that is cut short. In the middle of a log *)
(* a cut frame swallows bytes of the next ones, and replay may either run  *)
(* out of bytes or meet a checksum that does not match.                    *)
ReplayFails(log) ==
  LET n == Prefix(log) + 1
  IN IF n > Len(log) \/ log[n].kind \in {"frame", "bad"} THEN {FALSE}
     ELSE IF n < Len(log) THEN BOOLEAN
     ELSE {log[n].kind = "torn"}

-----------------------------------------------------------------------------
(* open *)

RemoveTmp ==
  /\ pc = "down"
  /\ IF Dir.tmp = None THEN UNCHANGED dirs ELSE ChangeDir([Dir EXCEPT !.tmp = None])
  /\ pc' = "opening"
  /\ UNCHANGED <<data, synced, file, kv, op, maybe, buried, counts>>

(* An inode no directory entry and no handle refers to.                    *)
Unused == Inodes \ ({d.db : d \in ToSet(dirs)} \cup {d.tmp : d \in ToSet(dirs)} \cup {file})

OpenOrCreate ==
  IF Dir.db # None
    THEN file' = Dir.db /\ UNCHANGED disk
    ELSE \E i \in Unused : /\ file' = i
                           /\ data' = [data EXCEPT ![i] = <<>>]
                           /\ synced' = [synced EXCEPT ![i] = 0]
                           /\ ChangeDir([Dir EXCEPT !.db = i])

Open ==
  /\ pc = "opening"
  /\ OpenOrCreate
  /\ \E fails \in ReplayFails(data'[file']) :
       /\ pc' = IF fails THEN "failed" ELSE "idle"
       /\ kv' = IF fails THEN kv ELSE Replay(data'[file'])
  /\ UNCHANGED <<op, maybe, buried, counts>>

-----------------------------------------------------------------------------
(* set and delete: three calls of write_all, one of sync_all *)

Begin(k, v) ==
  /\ pc = "idle" /\ updates < MaxUpdates
  /\ updates' = updates + 1
  /\ op' = [key |-> k, value |-> v]
  /\ maybe' = [maybe EXCEPT ![k] = @ \cup {v}]
  /\ pc' = "length"
  /\ UNCHANGED <<disk, file, kv, buried, compacts, kills, losses>>

AppendItem(item) == data' = [data EXCEPT ![file] = Append(@, item)]
ReplaceLast(item) == data' = [data EXCEPT ![file] = Append(Front(@), item)]

(* The new item goes behind one that replay cannot read.                   *)
Buries == buried' = (buried \/ Prefix(data[file]) < Len(data[file]))

WriteLength ==
  /\ pc = "length"
  /\ AppendItem(Part("short"))
  /\ Buries
  /\ pc' = "checksum"
  /\ UNCHANGED <<synced, dirs, file, kv, op, maybe, counts>>

WriteChecksum ==
  /\ pc = "checksum"
  /\ ReplaceLast(Part("torn"))
  /\ pc' = "payload"
  /\ UNCHANGED <<synced, dirs, file, kv, op, maybe, buried, counts>>

WritePayload ==
  /\ pc = "payload"
  /\ ReplaceLast(Update(op.key, op.value))
  /\ pc' = "sync"
  /\ UNCHANGED <<synced, dirs, file, kv, op, maybe, buried, counts>>

SyncSkipped ==                          \* mutant: no sync_all before the update is acknowledged
  /\ pc = "sync"
  /\ pc' = "apply"
  /\ UNCHANGED <<disk, file, kv, op, maybe, buried, counts>>

Sync ==
  /\ pc = "sync"
  /\ SyncFile(file)
  /\ pc' = "apply"
  /\ UNCHANGED <<data, file, kv, op, maybe, buried, counts>>

Acknowledge ==
  /\ pc = "apply"
  /\ kv' = [kv EXCEPT ![op.key] = op.value]
  /\ maybe' = [maybe EXCEPT ![op.key] = {op.value}]
  /\ op' = Idle
  /\ pc' = "idle"
  /\ UNCHANGED <<disk, file, buried, counts>>

(* A failed write leaves a part of the frame in the log; the method        *)
(* returns the error and the store goes on.                                *)
WriteFails ==
  /\ "write" \in Faults /\ pc \in {"length", "checksum", "payload"}
  /\ \/ pc = "length" /\ AppendItem(Part("short")) /\ Buries
     \/ UNCHANGED <<data, buried>>
  /\ op' = Idle
  /\ pc' = "idle"
  /\ UNCHANGED <<synced, dirs, file, kv, maybe, counts>>

SyncFails ==
  /\ "sync" \in Faults /\ pc = "sync"
  /\ op' = Idle
  /\ pc' = "idle"
  /\ UNCHANGED <<disk, file, kv, maybe, buried, counts>>

-----------------------------------------------------------------------------
(* compact *)

(* File::create truncates the file of a compaction that failed.            *)
CreateTmp ==
  /\ pc = "idle" /\ compacts < MaxCompacts
  /\ compacts' = compacts + 1
  /\ \E i \in IF Dir.tmp = None THEN Unused ELSE {Dir.tmp} :
       /\ data' = [data EXCEPT ![i] = <<>>]
       /\ synced' = [synced EXCEPT ![i] = 0]
       /\ IF Dir.tmp = i THEN UNCHANGED dirs ELSE ChangeDir([Dir EXCEPT !.tmp = i])
  /\ pc' = "snapshot"
  /\ UNCHANGED <<file, kv, op, maybe, buried, updates, kills, losses>>

Present == {k \in Keys : kv[k] # None}
Snapshot == LET keys == SetToSeq(Present)
            IN [i \in 1 .. Len(keys) |-> Update(keys[i], kv[keys[i]])]

WriteTmp ==
  /\ pc = "snapshot"
  /\ data' = [data EXCEPT ![Dir.tmp] = Snapshot]
  /\ pc' = "sync_tmp"
  /\ UNCHANGED <<synced, dirs, file, kv, op, maybe, buried, counts>>

SyncTmp ==
  /\ pc = "sync_tmp"
  /\ SyncFile(Dir.tmp)
  /\ pc' = "rename"
  /\ UNCHANGED <<data, file, kv, op, maybe, buried, counts>>

Rename ==
  /\ pc = "rename"
  /\ ChangeDir([db |-> Dir.tmp, tmp |-> None])
  /\ pc' = "fsync_dir"
  /\ UNCHANGED <<data, synced, file, kv, op, maybe, buried, counts>>

FsyncDirSkipped ==                      \* mutant: a plain rename
  /\ pc = "fsync_dir"
  /\ pc' = "reopen"
  /\ UNCHANGED <<disk, file, kv, op, maybe, buried, counts>>

FsyncDir ==
  /\ pc = "fsync_dir"
  /\ dirs' = <<Dir>>
  /\ pc' = "reopen"
  /\ UNCHANGED <<data, synced, file, kv, op, maybe, buried, counts>>

ReopenTmp ==                            \* mutant: opens path_temp
  /\ pc = "reopen"
  /\ file' = Dir.tmp
  /\ pc' = "idle"
  /\ UNCHANGED <<disk, kv, op, maybe, buried, counts>>

ReopenSkipped ==                        \* mutant: self.file stays on the replaced file
  /\ pc = "reopen"
  /\ pc' = "idle"
  /\ UNCHANGED <<disk, file, kv, op, maybe, buried, counts>>

Reopen ==
  /\ pc = "reopen"
  /\ file' = Dir.db
  /\ pc' = "idle"
  /\ UNCHANGED <<disk, kv, op, maybe, buried, counts>>

(* An error ends compact where it is: a snapshot that was not renamed      *)
(* stays behind, and after the rename self.file stays on the old file.     *)
FailsIn == [write |-> {}, sync |-> {}, tmp |-> {"snapshot", "sync_tmp"}, rename |-> {"rename"},
            fsync_dir |-> {"fsync_dir"}, reopen |-> {"reopen"}]

CompactFails ==
  /\ \E call \in Faults : pc \in FailsIn[call]
  /\ pc' = "idle"
  /\ UNCHANGED <<disk, file, kv, op, maybe, buried, counts>>

-----------------------------------------------------------------------------
(* Crashes *)

Whole(log) == \A i \in 1 .. Len(log) : IsFrame(log[i])

Die ==
  /\ pc # "down"
  /\ pc' = "down" /\ op' = Idle /\ file' = None
  /\ UNCHANGED <<kv, maybe, buried, updates, compacts>>

(* The process ends; the operating system keeps what it wrote.             *)
Kill ==
  /\ Die /\ kills < MaxKills
  /\ kills' = kills + 1
  /\ MayTear \/ pc \notin {"checksum", "payload"}
  /\ UNCHANGED <<disk, losses>>

(* What a power loss may leave of a log: what was synced, more of it, and  *)
(* possibly a part of the next item.                                       *)
Images(log, n) ==
  {SubSeq(log, 1, m) : m \in {l \in n .. Len(log) : MayTear \/ Whole(SubSeq(log, n + 1, l))}}
    \cup (IF MayTear
            THEN {Append(SubSeq(log, 1, m), junk) : m \in n .. Len(log) - 1, junk \in Junk}
            ELSE {})

(* The log is left in one of its images. A snapshot that was not renamed   *)
(* is never read, only removed or truncated: its contents do not matter.   *)
PowerLoss ==
  /\ Die /\ losses < MaxLosses
  /\ losses' = losses + 1 /\ UNCHANGED kills
  /\ \E d \in ToSet(dirs) :
       /\ dirs' = <<d>>
       /\ \E log \in IF d.db = None THEN {<<>>} ELSE Images(data[d.db], synced[d.db]) :
            /\ data' = [i \in Inodes |-> IF i = d.db THEN log ELSE <<>>]
            /\ synced' = [i \in Inodes |-> IF i = d.db THEN Len(log) ELSE 0]

(* open returned an error; the caller may try again.                       *)
Retry ==
  /\ pc = "failed"
  /\ pc' = "down" /\ file' = None
  /\ UNCHANGED <<disk, kv, op, maybe, buried, counts>>

-----------------------------------------------------------------------------

Opening  == RemoveTmp \/ Open \/ Retry
Updating == \/ \E k \in Keys, v \in Value : Begin(k, v)
            \/ WriteLength \/ WriteChecksum \/ WritePayload \/ Sync \/ Acknowledge
            \/ WriteFails \/ SyncFails
Compacting == \/ CreateTmp \/ WriteTmp \/ SyncTmp \/ Rename \/ FsyncDir \/ Reopen
              \/ CompactFails
Next == Opening \/ Updating \/ Compacting \/ Kill \/ PowerLoss

Spec == Init /\ [][Next]_vars

-----------------------------------------------------------------------------
(* Properties *)

TypeOK ==
  /\ data \in [Inodes -> Seq(Frame \cup Junk)]
  /\ \A i \in Inodes : synced[i] \in 0 .. Len(data[i])
  /\ \A d \in ToSet(dirs) : d \in [db : Inodes \cup {None}, tmp : Inodes \cup {None}]
  /\ file \in Inodes \cup {None} /\ (file = None <=> pc \in {"down", "opening"})
  /\ kv \in [Keys -> Value]
  /\ pc \in {"down", "opening", "failed", "idle", "length", "checksum", "payload", "sync", "apply",
             "snapshot", "sync_tmp", "rename", "fsync_dir", "reopen"}
  /\ op \in [key : Keys \cup {None}, value : Value]
  /\ maybe \in [Keys -> SUBSET Value]
  /\ buried \in BOOLEAN

IsOpen == pc \notin {"down", "opening", "failed"}

(* The logs that a loss of power at this moment may leave to the next open,  *)
(* which makes an empty one where it finds no file.                         *)
AfterLoss ==
  UNION {IF d.db = None THEN {<<>>} ELSE Images(data[d.db], synced[d.db]) : d \in ToSet(dirs)}

EndsTorn(log) == log # <<>> /\ Last(log) = Part("torn")

(* Whatever a power loss leaves at this moment, during a set, a delete or a *)
(* compaction too, the frames up to the first unreadable one have every     *)
(* acknowledged update, or a later one of the same key that was not         *)
(* acknowledged, and never a mixture with older values. Open serves them,   *)
(* except of a log whose last frame is cut inside its payload: that one it  *)
(* refuses, and no other. Holds until something was appended to an          *)
(* unreadable tail.                                                         *)
CrashSafe ==
  ~buried => \A log \in AfterLoss :
               /\ \A k \in Keys : Replay(log)[k] \in maybe[k]
               /\ ReplayFails(log) = {EndsTorn(log)}

(* Between two calls, the handle is on the file that has the store's name,  *)
(* and the frames that replay reads in it make the very map in memory: no   *)
(* rename, reopen or failed write loses or invents an entry.                *)
MemoryMatchesLog ==
  pc = "idle" /\ ~buried => file = Dir.db /\ kv = Replay(data[file])

(* The doc of set, "An acknowledged `set` is crash-safe", and of compact,   *)
(* "a crash during compaction must not lose acknowledged data": an open     *)
(* store serves for each key its last acknowledged value or a later one.    *)
AcknowledgedSurvives == IsOpen => \A k \in Keys : kv[k] \in maybe[k]

(* The doc of open, "A torn or corrupted tail entry must be truncated;      *)
(* every entry before it must survive": once open has returned, each key is *)
(* served its last acknowledged value or a later one. A store that did not  *)
(* open serves nothing.                                                     *)
EntriesSurvive ==
  pc \notin {"down", "opening"} =>
    \A k \in Keys : (IF IsOpen THEN kv[k] ELSE None) \in maybe[k]

-----------------------------------------------------------------------------
(* The store implements the abstract store, as long as no crash tears a    *)
(* frame: it runs while the handle is open, and an update begins and ends  *)
(* with its method.                                                        *)

Store == INSTANCE KvStore WITH
  update  <- op,
  running <- IsOpen

ImplementsKvStore == Store!Spec
=============================================================================
