------------------------------ MODULE FSStorage ------------------------------
(***************************************************************************)
(* internal/storage/fs_provider.go: FSProvider, one file of one agent: its *)
(* checkpoint, its receipts or its identity. Each is replaced by create    *)
(* temp, write, fsync, close, rename; a checkpoint is then copied to the   *)
(* history directory by a plain write. The file system is modelled by what *)
(* the code uses of it: directory entries that name inodes, descriptors    *)
(* that follow the inode and not the name, data that reaches the disk with *)
(* fsync, and entries that reach it some time later (the code never syncs  *)
(* the directory).                                                         *)
(*                                                                         *)
(* A file's bytes are two chunks: enough for a write, a crash or a second  *)
(* writer to stop half way.                                                *)
(***************************************************************************)
EXTENDS Naturals

CONSTANTS
  Writers,   \* goroutines that save the file
  Readers,   \* goroutines that load it
  Values,    \* what is saved
  TickOf,    \* the tick number in a checkpoint's header, NoTick if too short
  Inodes, NoInode,
  OneSaver   \* whether the callers keep to one save of the file at a time

Kinds == {"checkpoint", "receipts", "identity"}
Chunks == 1..2
None == "none"
Failed == "failed"
Torn == "torn"
NoTick == 0
Ticks == {TickOf[v] : v \in Values} \ {NoTick}

ASSUME FSAssumption ==
  /\ Values \cap {None, Failed, Torn} = {}
  /\ TickOf \in [Values -> Nat]
  /\ NoInode \notin Inodes
  /\ OneSaver \in BOOLEAN

VARIABLES
  kind,      \* which of the agent's files this is
  up,        \* the process is running
  data,      \* inode -> its chunks
  synced,    \* inodes whose chunks are on disk
  main,      \* the inode the file's path names
  temp,      \* the inode path + ".tmp" names
  disk,      \* the inode the path names on disk
  pc, val, pos, wfd, ans,   \* writer -> its call of Save...
  rfd, got,                 \* reader -> its call of Load...
  archived,  \* ticks that have a file in the history directory
  hist,      \* tick -> the chunks of that file
  flushed,   \* history files that have reached the disk
  committed  \* ghost: values the path has named

files == <<data, synced, main, temp, disk>>
writer == <<pc, val, pos, wfd, ans>>
reader == <<rfd, got>>
history == <<archived, hist, flushed, committed>>
vars == <<kind, up, files, writer, reader, history>>

Content == [Chunks -> Values \cup {None}]
Blank == [c \in Chunks |-> None]

\* What a reader of the whole inode sees.
Val(i) ==
  IF i = NoInode THEN None
  ELSE IF data[i][1] \in Values /\ data[i][2] = data[i][1] THEN data[i][1]
  ELSE Torn

Entries == {main, temp, disk}
Descriptors == {wfd[w] : w \in Writers} \cup {rfd[r] : r \in Readers}
Free == Inodes \ (Entries \cup Descriptors)

Init ==
  /\ kind \in Kinds
  /\ up = TRUE
  /\ data = [i \in Inodes |-> Blank]
  /\ synced = {}
  /\ main = NoInode
  /\ temp = NoInode
  /\ disk = NoInode
  /\ pc = [w \in Writers |-> "idle"]
  /\ val \in [Writers -> Values]
  /\ pos = [w \in Writers |-> 0]
  /\ wfd = [w \in Writers |-> NoInode]
  /\ ans = [w \in Writers |-> "none"]
  /\ rfd = [r \in Readers |-> NoInode]
  /\ got = [r \in Readers |-> None]
  /\ archived = {}
  /\ hist = [t \in Ticks |-> Blank]
  /\ flushed = {}
  /\ committed = {}

-----------------------------------------------------------------------------
(* The steps of a save, the same for every kind of file.                   *)

Goto(w, label) == pc' = [pc EXCEPT ![w] = label]

Return(w, answer) ==
  /\ Goto(w, "idle")
  /\ ans' = [ans EXCEPT ![w] = answer]
  /\ pos' = [pos EXCEPT ![w] = 0]
  /\ wfd' = [wfd EXCEPT ![w] = NoInode]

\* The call takes no lock. OneSaver is what a node's tick loop keeps to, which
\* saves one thing after the other; the handlers of two transfers of the same
\* agent (migration.Service) do not, and then nothing holds the second back.
Save(w, v) ==
  /\ up
  /\ pc[w] = "idle"
  /\ OneSaver => \A x \in Writers : pc[x] = "idle"
  /\ Goto(w, "create")
  /\ val' = [val EXCEPT ![w] = v]
  /\ ans' = [ans EXCEPT ![w] = "none"]
  /\ UNCHANGED <<kind, up, files, pos, wfd, reader, history>>

SaveCheckpoint(w, v) == kind = "checkpoint" /\ Save(w, v)
SaveReceipts(w, v)   == kind = "receipts" /\ Save(w, v)
SaveIdentity(w, v)   == kind = "identity" /\ Save(w, v)

\* os.Create: a leftover of the same name is truncated, not replaced.
Opened(w, i) ==
  /\ data' = [data EXCEPT ![i] = Blank]
  /\ synced' = synced \ {i}
  /\ temp' = i
  /\ wfd' = [wfd EXCEPT ![w] = i]

\* Mutant: the file is opened under its own name.
CreateInPlace(w) ==
  /\ pc[w] = "create"
  /\ \E i \in IF main # NoInode THEN {main} ELSE Free : Opened(w, i)
  /\ Goto(w, "write")
  /\ UNCHANGED <<kind, up, main, disk, val, pos, ans, reader, history>>

Create(w) ==
  /\ pc[w] = "create"
  /\ \E i \in IF temp # NoInode THEN {temp} ELSE Free : Opened(w, i)
  /\ Goto(w, "write")
  /\ UNCHANGED <<kind, up, main, disk, val, pos, ans, reader, history>>

Write(w) ==
  /\ pc[w] = "write"
  /\ pos[w] < 2
  /\ pos' = [pos EXCEPT ![w] = @ + 1]
  /\ data' = [data EXCEPT ![wfd[w]] = [@ EXCEPT ![pos[w] + 1] = val[w]]]
  /\ synced' = synced \ {wfd[w]}
  /\ UNCHANGED <<kind, up, main, temp, disk, pc, val, wfd, ans, reader, history>>

\* Mutant: the data is not synced before the rename.
SyncSkipped(w) ==
  /\ pc[w] = "write"
  /\ pos[w] = 2
  /\ Goto(w, "rename")
  /\ UNCHANGED <<kind, up, files, val, pos, wfd, ans, reader, history>>

Sync(w) ==
  /\ pc[w] = "write"
  /\ pos[w] = 2
  /\ synced' = synced \cup {wfd[w]}
  /\ Goto(w, "rename")
  /\ UNCHANGED <<kind, up, data, main, temp, disk, val, pos, wfd, ans, reader, history>>

\* What follows a rename: only checkpoints are archived.
Closed(w) ==
  /\ Goto(w, IF kind = "checkpoint" THEN "archive" ELSE "return")
  /\ wfd' = [wfd EXCEPT ![w] = NoInode]
  /\ pos' = [pos EXCEPT ![w] = 0]
  /\ UNCHANGED <<kind, up, data, synced, disk, val, ans, reader, archived, hist, flushed>>

\* Mutant: the error of the rename is ignored.
RenameUnchecked(w) ==
  /\ pc[w] = "rename"
  /\ \/ /\ main' = temp
        /\ temp' = NoInode
        /\ committed' = committed \cup {val[w]}
     \/ UNCHANGED <<main, temp, committed>>
  /\ Closed(w)

\* Close and os.Rename. A missing temp file is an error like any other.
Rename(w) ==
  /\ pc[w] = "rename"
  /\ temp # NoInode
  /\ main' = temp
  /\ temp' = NoInode
  /\ committed' = committed \cup {val[w]}
  /\ Closed(w)

\* Any step up to the rename may fail; once the temp file exists the deferred
\* function removes whatever has its name (and ignores that it cannot).
CreateFails(w) ==
  /\ pc[w] = "create"
  /\ Return(w, "err")
  /\ UNCHANGED <<kind, up, files, val, reader, history>>

Fails(w) ==
  /\ pc[w] \in {"write", "rename"}
  /\ Goto(w, "cleanup")
  /\ wfd' = [wfd EXCEPT ![w] = NoInode]
  /\ UNCHANGED <<kind, up, files, val, pos, ans, reader, history>>

Cleanup(w) ==
  /\ pc[w] = "cleanup"
  /\ temp' \in {NoInode, temp}
  /\ Return(w, "err")
  /\ UNCHANGED <<kind, up, data, synced, main, disk, val, reader, history>>

Saved(w) ==
  /\ pc[w] = "return"
  /\ Return(w, "ok")
  /\ UNCHANGED <<kind, up, files, val, reader, history>>

-----------------------------------------------------------------------------
(* archiveCheckpoint. Its failures are logged; the save has succeeded.     *)

\* Mutant: no os.Stat.
ArchiveAgain(w) ==
  /\ pc[w] = "archive"
  /\ Goto(w, IF TickOf[val[w]] = NoTick THEN "return" ELSE "open")
  /\ UNCHANGED <<kind, up, files, val, pos, wfd, ans, reader, history>>

\* os.Stat: a tick that has a file is left alone.
Archive(w) ==
  /\ pc[w] = "archive"
  /\ Goto(w, IF TickOf[val[w]] \in {NoTick} \cup archived THEN "return" ELSE "open")
  /\ UNCHANGED <<kind, up, files, val, pos, wfd, ans, reader, history>>

\* os.WriteFile creates the history file, or truncates one made meanwhile.
OpenHistory(w) ==
  /\ pc[w] = "open"
  /\ archived' = archived \cup {TickOf[val[w]]}
  /\ hist' = [hist EXCEPT ![TickOf[val[w]]] = Blank]
  /\ flushed' = flushed \ {TickOf[val[w]]}
  /\ Goto(w, "fill")
  /\ UNCHANGED <<kind, up, files, val, pos, wfd, ans, reader, committed>>

\* One chunk of the history file.
Filled(w) ==
  /\ pos' = [pos EXCEPT ![w] = @ + 1]
  /\ hist' = [hist EXCEPT ![TickOf[val[w]]] = [@ EXCEPT ![pos[w] + 1] = val[w]]]
  /\ flushed' = flushed \ {TickOf[val[w]]}
  /\ UNCHANGED <<kind, up, files, val, wfd, ans, reader, archived, committed>>

\* Mutant: one chunk too many.
FillPast(w) ==
  /\ pc[w] = "fill"
  /\ Filled(w)
  /\ Goto(w, IF pos[w] = 2 THEN "return" ELSE "fill")

Fill(w) ==
  /\ pc[w] = "fill"
  /\ pos[w] < 2
  /\ Filled(w)
  /\ Goto(w, IF pos[w] = 1 THEN "return" ELSE "fill")

\* MkdirAll, the open or the write of the history file fails: a warning.
ArchiveFails(w) ==
  /\ pc[w] \in {"archive", "open", "fill"}
  /\ Goto(w, "return")
  /\ UNCHANGED <<kind, up, files, val, pos, wfd, ans, reader, history>>

-----------------------------------------------------------------------------
(* Deletes are one os.Remove; loads are os.ReadFile, which opens the file  *)
(* and then reads it.                                                      *)

Delete ==
  /\ up
  /\ main' = NoInode
  /\ UNCHANGED <<kind, up, data, synced, temp, disk, writer, reader, history>>

DeleteCheckpoint == kind = "checkpoint" /\ Delete
DeleteReceipts   == kind = "receipts" /\ Delete
DeleteIdentity   == kind = "identity" /\ Delete

\* A file that does not exist is answered at once.
LoadOpen(r) ==
  /\ up
  /\ rfd[r] = NoInode
  /\ rfd' = [rfd EXCEPT ![r] = main]
  /\ got' = [got EXCEPT ![r] = IF main = NoInode THEN None ELSE @]
  /\ UNCHANGED <<kind, up, files, writer, history>>

LoadCheckpoint(r) == kind = "checkpoint" /\ LoadOpen(r)
LoadReceipts(r)   == kind = "receipts" /\ LoadOpen(r)
LoadIdentity(r)   == kind = "identity" /\ LoadOpen(r)

LoadRead(r) ==
  /\ rfd[r] # NoInode
  /\ got' = [got EXCEPT ![r] = Val(rfd[r])]
  /\ rfd' = [rfd EXCEPT ![r] = NoInode]
  /\ UNCHANGED <<kind, up, files, writer, history>>

\* Opening or reading fails with another error than os.ErrNotExist.
LoadFails(r) ==
  /\ up
  /\ got' = [got EXCEPT ![r] = Failed]
  /\ rfd' = [rfd EXCEPT ![r] = NoInode]
  /\ UNCHANGED <<kind, up, files, writer, history>>

-----------------------------------------------------------------------------
(* The operating system, and NewFSProvider at the next start.              *)

SettleDir ==
  /\ disk' = main
  /\ UNCHANGED <<kind, up, data, synced, main, temp, writer, reader, history>>

SettleHistory ==
  /\ flushed' = archived
  /\ UNCHANGED <<kind, up, files, writer, reader, archived, hist, committed>>

ProcessGone ==
  /\ up
  /\ up' = FALSE
  /\ pc' = [w \in Writers |-> "idle"]
  /\ pos' = [w \in Writers |-> 0]
  /\ wfd' = [w \in Writers |-> NoInode]
  /\ ans' = [w \in Writers |-> "none"]
  /\ rfd' = [r \in Readers |-> NoInode]
  /\ got' = [r \in Readers |-> None]
  /\ UNCHANGED <<kind, val, committed>>

Kill ==
  /\ ProcessGone
  /\ UNCHANGED <<files, archived, hist, flushed>>

\* Unsynced chunks and unsettled directory entries may be lost.
PowerLoss ==
  /\ ProcessGone
  /\ main' \in {main, disk}
  /\ disk' = main'
  /\ temp' \in {NoInode, temp}
  /\ \E lost \in SUBSET Chunks, gone \in SUBSET (archived \ flushed) :
       /\ data' = [i \in Inodes |-> [c \in Chunks |->
                     IF i \notin synced /\ c \in lost THEN None ELSE data[i][c]]]
       /\ archived' = archived \ gone
       /\ hist' = [t \in Ticks |-> [c \in Chunks |->
                     IF t \in gone \/ (t \notin flushed /\ c \in lost)
                       THEN None ELSE hist[t][c]]]
       /\ flushed' = archived'
  /\ UNCHANGED synced

\* os.Remove of a leftover may fail; the next Create truncates it.
cleanStaleTempFiles == temp' \in {NoInode, temp}

NewFSProvider ==
  /\ ~up
  /\ up' = TRUE
  /\ cleanStaleTempFiles
  /\ UNCHANGED <<kind, data, synced, main, disk, writer, reader, history>>

-----------------------------------------------------------------------------
Next ==
  \/ \E w \in Writers, v \in Values :
       SaveCheckpoint(w, v) \/ SaveReceipts(w, v) \/ SaveIdentity(w, v)
  \/ \E w \in Writers :
       \/ Create(w) \/ Write(w) \/ Sync(w) \/ Rename(w)
       \/ CreateFails(w) \/ Fails(w) \/ Cleanup(w) \/ Saved(w)
       \/ Archive(w) \/ OpenHistory(w) \/ Fill(w) \/ ArchiveFails(w)
  \/ DeleteCheckpoint \/ DeleteReceipts \/ DeleteIdentity
  \/ \E r \in Readers :
       \/ LoadCheckpoint(r) \/ LoadReceipts(r) \/ LoadIdentity(r)
       \/ LoadRead(r) \/ LoadFails(r)
  \/ SettleDir
  \/ SettleHistory
  \/ Kill
  \/ PowerLoss
  \/ NewFSProvider

Spec == Init /\ [][Next]_vars

-----------------------------------------------------------------------------
(* Properties.                                                             *)

\* Where a call of Save stands for the abstract store.
Busy == {"create", "write", "rename", "cleanup"}
Done == {"archive", "open", "fill", "return"}
Stage == [w \in Writers |-> IF pc[w] \in Busy THEN "busy"
                            ELSE IF pc[w] \in Done THEN "done" ELSE "idle"]

\* A load takes effect when it opens the file.
Loaded == [r \in Readers |-> IF rfd[r] # NoInode THEN Val(rfd[r]) ELSE got[r]]

Store == INSTANCE AtomicStore WITH
  cur <- Val(main), durable <- Val(disk), stage <- Stage, got <- Loaded

\* Types of the variables.
TypeOK ==
  /\ kind \in Kinds
  /\ up \in BOOLEAN
  /\ data \in [Inodes -> Content]
  /\ synced \subseteq Inodes
  /\ main \in Inodes \cup {NoInode}
  /\ temp \in Inodes \cup {NoInode}
  /\ disk \in Inodes \cup {NoInode}
  /\ pc \in [Writers -> Busy \cup Done \cup {"idle"}]
  /\ val \in [Writers -> Values]
  /\ pos \in [Writers -> 0..2]
  /\ wfd \in [Writers -> Inodes \cup {NoInode}]
  /\ ans \in [Writers -> {"none", "ok", "err"}]
  /\ rfd \in [Readers -> Inodes \cup {NoInode}]
  /\ got \in [Readers -> Values \cup {None, Failed, Torn}]
  /\ archived \subseteq Ticks
  /\ hist \in [Ticks -> Content]
  /\ flushed \subseteq archived
  /\ committed \subseteq Values

\* As long as the callers save one thing at a time, a save is atomic and its
\* answer is true, a load is a read of one moment, and neither a kill nor a
\* power loss leaves a value that was not saved: the files implement the
\* store of provider.go for one saver and any number of readers. Overlapping
\* saves, which provider.go promises too, share the temp file and do not.
Atomic == Store!Spec

\* With one save at a time, no load answers a mixture or a part of what was
\* saved.
LoadIsWhole == \A r \in Readers : got[r] # Torn

\* The history file of a tick, once complete, is never written again: the
\* checkpoint that was archived first keeps the tick, whatever is saved
\* later. Only a power loss before it reached the disk can undo it.
HistoryIsWriteOnce ==
  [][\A t \in Ticks :
       (t \in archived /\ hist[t][1] # None /\ hist[t][1] = hist[t][2])
         => \/ t \in archived' /\ hist'[t] = hist[t]
            \/ ~up' /\ t \notin flushed]_vars

\* A checkpoint enters the history only after it has become the current
\* one: no part of a history file comes from a save that did not happen.
HistoryWasSaved ==
  \A t \in Ticks, c \in Chunks : hist[t][c] # None =>
    hist[t][c] \in committed /\ TickOf[hist[t][c]] = t
=============================================================================
