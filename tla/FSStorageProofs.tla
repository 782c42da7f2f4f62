--------------------------- MODULE FSStorageProofs ---------------------------
(***************************************************************************)
(* Proofs about FSStorage for any number of writers and readers whose      *)
(* saves do not overlap (OneSaver). Of two that do, one can rename what    *)
(* the other has half written, and none of this holds.                     *)
(***************************************************************************)
EXTENDS FSStorage, TLAPS

\* The path, its entry on disk and every reader name whole, synced inodes.
Solid(i) == i # NoInode => i \in synced /\ Val(i) \in Values

SolidInv ==
  /\ Solid(main) /\ Solid(disk)
  /\ \A r \in Readers : Solid(rfd[r])

\* The temp file is none of these, and only its writer has it open.
TempInv ==
  /\ temp # NoInode => temp \notin {main, disk} /\ \A r \in Readers : rfd[r] # temp
  /\ \A w \in Writers :
       IF pc[w] \in {"write", "rename"} THEN wfd[w] = temp /\ temp # NoInode
                                        ELSE wfd[w] = NoInode

\* One call at a time, none in a process that is gone.
CallInv ==
  /\ \A w, x \in Writers : pc[w] # "idle" /\ pc[x] # "idle" => w = x
  /\ ~up => (\A w \in Writers : pc[w] = "idle") /\ \A r \in Readers : rfd[r] = NoInode

\* How much of the value is in the temp file.
WriteInv ==
  \A w \in Writers :
    /\ pc[w] \in {"idle", "create", "archive", "open"} => pos[w] = 0
    /\ pc[w] \in {"write", "rename"} =>
         \A c \in Chunks : c <= pos[w] => data[wfd[w]][c] = val[w]
    /\ pc[w] = "rename" => pos[w] = 2 /\ wfd[w] \in synced

\* What is being archived has become current, and its file is not complete.
FillInv ==
  \A w \in Writers :
    /\ pc[w] \in {"archive", "open", "fill"} => val[w] \in committed
    /\ pc[w] = "open" => TickOf[val[w]] \in Ticks \ archived
    /\ pc[w] = "fill" =>
         /\ TickOf[val[w]] \in Ticks
         /\ \A c \in Chunks : c > pos[w] => hist[TickOf[val[w]]][c] = None

FSInv == /\ TypeOK /\ SolidInv /\ TempInv /\ CallInv /\ WriteInv /\ FillInv
         /\ LoadIsWhole /\ HistoryWasSaved

-----------------------------------------------------------------------------
(* Every step keeps FSInv: one lemma per action, one step per conjunct it  *)
(* can disturb.                                                            *)

LEMMA SavePreserves ==
  ASSUME FSInv, NEW w \in Writers, NEW v \in Values, OneSaver, Save(w, v)
  PROVE  FSInv'
<1>1. TypeOK'
  BY DEF FSInv, TypeOK, Busy, Save, Goto, files, reader, history
<1>2. TempInv'
  BY DEF FSInv, TempInv, Save, Goto, files, reader
<1>3. CallInv'
  BY DEF FSInv, CallInv, Save, Goto
<1>4. WriteInv'
  BY DEF FSInv, WriteInv, Save, Goto
<1>5. FillInv'
  BY DEF FSInv, FillInv, Save, Goto
<1>6. SolidInv' /\ LoadIsWhole' /\ HistoryWasSaved'
  BY DEF FSInv, SolidInv, Solid, Val, LoadIsWhole, HistoryWasSaved, Save,
      files, reader, history
<1> QED
  BY <1>1, <1>2, <1>3, <1>4, <1>5, <1>6 DEF FSInv

LEMMA CreatePreserves ==
  ASSUME FSInv, NEW w \in Writers, Create(w)
  PROVE  FSInv'
<1>1. TypeOK'
  BY DEF FSInv, TypeOK, Content, Blank, Busy, Create, Opened, Goto, Free,
      reader, history
<1>2. SolidInv'
  BY DEF FSInv, SolidInv, TempInv, Solid, Val, Create, Opened, Free, Entries,
      Descriptors, reader
<1>3. TempInv'
  BY DEF FSInv, TypeOK, TempInv, Create, Opened, Goto, Free, Entries,
      Descriptors, reader
<1>4. CallInv'
  BY DEF FSInv, CallInv, Create, Goto
<1>5. WriteInv'
  BY DEF FSInv, WriteInv, CallInv, Chunks, Create, Goto
<1>6. FillInv'
  BY DEF FSInv, FillInv, Create, Goto, history
<1>7. LoadIsWhole' /\ HistoryWasSaved'
  BY DEF FSInv, LoadIsWhole, HistoryWasSaved, Create, reader, history
<1> QED
  BY <1>1, <1>2, <1>3, <1>4, <1>5, <1>6, <1>7 DEF FSInv

LEMMA WritePreserves ==
  ASSUME FSInv, NEW w \in Writers, Write(w)
  PROVE  FSInv'
<1>1. TypeOK'
  BY DEF FSInv, TypeOK, TempInv, Content, Chunks, Write, reader, history
<1>2. SolidInv'
  BY DEF FSInv, SolidInv, TempInv, Solid, Val, Write, reader
<1>3. WriteInv'
  BY DEF FSInv, TypeOK, WriteInv, TempInv, CallInv, Content, Chunks, Write
<1>4. FillInv'
  BY DEF FSInv, FillInv, Write, history
<1>5. TempInv' /\ CallInv' /\ LoadIsWhole' /\ HistoryWasSaved'
  BY DEF FSInv, TempInv, CallInv, LoadIsWhole, HistoryWasSaved, Write, reader,
      history
<1> QED
  BY <1>1, <1>2, <1>3, <1>4, <1>5 DEF FSInv

LEMMA SyncPreserves ==
  ASSUME FSInv, NEW w \in Writers, Sync(w)
  PROVE  FSInv'
<1>1. TypeOK'
  BY DEF FSInv, TypeOK, TempInv, Busy, Sync, Goto, reader, history
<1>2. SolidInv'
  BY DEF FSInv, SolidInv, Solid, Val, Sync, reader
<1>3. TempInv'
  BY DEF FSInv, TempInv, Sync, Goto, reader
<1>4. CallInv'
  BY DEF FSInv, CallInv, Sync, Goto
<1>5. WriteInv'
  BY DEF FSInv, WriteInv, Sync, Goto
<1>6. FillInv'
  BY DEF FSInv, FillInv, Sync, Goto, history
<1>7. LoadIsWhole' /\ HistoryWasSaved'
  BY DEF FSInv, LoadIsWhole, HistoryWasSaved, Sync, reader, history
<1> QED
  BY <1>1, <1>2, <1>3, <1>4, <1>5, <1>6, <1>7 DEF FSInv

LEMMA RenamePreserves ==
  ASSUME FSInv, NEW w \in Writers, Rename(w)
  PROVE  FSInv'
<1>1. TypeOK'
  BY DEF FSInv, TypeOK, Done, Rename, Closed, Goto, reader
<1>2. SolidInv'
  BY DEF FSInv, TypeOK, SolidInv, TempInv, WriteInv, Solid, Val, Chunks,
      Rename, Closed, reader
<1>3. TempInv'
  BY DEF FSInv, TypeOK, TempInv, CallInv, Rename, Closed, Goto
<1>4. CallInv'
  BY DEF FSInv, CallInv, Rename, Closed, Goto
<1>5. WriteInv'
  BY DEF FSInv, TypeOK, WriteInv, Rename, Closed, Goto
<1>6. FillInv'
  BY DEF FSInv, FillInv, Rename, Closed, Goto
<1>7. HistoryWasSaved'
  BY DEF FSInv, HistoryWasSaved, Rename, Closed
<1>8. LoadIsWhole'
  BY DEF FSInv, LoadIsWhole, Rename, Closed, reader
<1> QED
  BY <1>1, <1>2, <1>3, <1>4, <1>5, <1>6, <1>7, <1>8 DEF FSInv

LEMMA CreateFailsPreserves ==
  ASSUME FSInv, NEW w \in Writers, CreateFails(w)
  PROVE  FSInv'
<1>1. TypeOK'
  BY DEF FSInv, TypeOK, CreateFails, Return, Goto, files, reader, history
<1>2. TempInv'
  BY DEF FSInv, TempInv, CreateFails, Return, Goto, files, reader
<1>3. CallInv'
  BY DEF FSInv, CallInv, CreateFails, Return, Goto
<1>4. WriteInv'
  BY DEF FSInv, WriteInv, CreateFails, Return, Goto, files
<1>5. FillInv'
  BY DEF FSInv, FillInv, CreateFails, Return, Goto, history
<1>6. SolidInv' /\ LoadIsWhole' /\ HistoryWasSaved'
  BY DEF FSInv, SolidInv, Solid, Val, LoadIsWhole, HistoryWasSaved,
      CreateFails, files, reader, history
<1> QED
  BY <1>1, <1>2, <1>3, <1>4, <1>5, <1>6 DEF FSInv

LEMMA FailsPreserves ==
  ASSUME FSInv, NEW w \in Writers, Fails(w)
  PROVE  FSInv'
<1>1. TypeOK'
  BY DEF FSInv, TypeOK, Busy, Fails, Goto, files, reader, history
<1>2. TempInv'
  BY DEF FSInv, TypeOK, TempInv, Fails, Goto, files, reader
<1>3. CallInv'
  BY DEF FSInv, CallInv, Fails, Goto
<1>4. WriteInv'
  BY DEF FSInv, TypeOK, WriteInv, Fails, Goto, files
<1>5. FillInv'
  BY DEF FSInv, FillInv, Fails, Goto, history
<1>6. SolidInv' /\ LoadIsWhole' /\ HistoryWasSaved'
  BY DEF FSInv, SolidInv, Solid, Val, LoadIsWhole, HistoryWasSaved, Fails,
      files, reader, history
<1> QED
  BY <1>1, <1>2, <1>3, <1>4, <1>5, <1>6 DEF FSInv

LEMMA CleanupPreserves ==
  ASSUME FSInv, NEW w \in Writers, Cleanup(w)
  PROVE  FSInv'
<1>1. TypeOK'
  BY DEF FSInv, TypeOK, Cleanup, Return, Goto, reader, history
<1>2. TempInv'
  BY DEF FSInv, TempInv, CallInv, Cleanup, Return, Goto, reader
<1>3. CallInv'
  BY DEF FSInv, CallInv, Cleanup, Return, Goto
<1>4. WriteInv'
  BY DEF FSInv, TypeOK, WriteInv, Cleanup, Return, Goto
<1>5. FillInv'
  BY DEF FSInv, FillInv, Cleanup, Return, Goto, history
<1>6. SolidInv' /\ LoadIsWhole' /\ HistoryWasSaved'
  BY DEF FSInv, SolidInv, Solid, Val, LoadIsWhole, HistoryWasSaved, Cleanup,
      reader, history
<1> QED
  BY <1>1, <1>2, <1>3, <1>4, <1>5, <1>6 DEF FSInv

LEMMA SavedPreserves ==
  ASSUME FSInv, NEW w \in Writers, Saved(w)
  PROVE  FSInv'
<1>1. TypeOK'
  BY DEF FSInv, TypeOK, Saved, Return, Goto, files, reader, history
<1>2. TempInv'
  BY DEF FSInv, TempInv, Saved, Return, Goto, files, reader
<1>3. CallInv'
  BY DEF FSInv, CallInv, Saved, Return, Goto
<1>4. WriteInv'
  BY DEF FSInv, TypeOK, WriteInv, Saved, Return, Goto, files
<1>5. FillInv'
  BY DEF FSInv, FillInv, Saved, Return, Goto, history
<1>6. SolidInv' /\ LoadIsWhole' /\ HistoryWasSaved'
  BY DEF FSInv, SolidInv, Solid, Val, LoadIsWhole, HistoryWasSaved, Saved,
      files, reader, history
<1> QED
  BY <1>1, <1>2, <1>3, <1>4, <1>5, <1>6 DEF FSInv

LEMMA ArchivePreserves ==
  ASSUME FSInv, NEW w \in Writers, Archive(w)
  PROVE  FSInv'
<1>1. TypeOK'
  BY DEF FSInv, TypeOK, Done, Archive, Goto, files, reader, history
<1>2. TempInv'
  BY DEF FSInv, TempInv, Archive, Goto, files, reader
<1>3. CallInv'
  BY DEF FSInv, CallInv, Archive, Goto
<1>4. WriteInv'
  BY DEF FSInv, WriteInv, Archive, Goto, files
<1>5. FillInv'
  BY DEF FSInv, TypeOK, FillInv, Ticks, Archive, Goto, history
<1>6. SolidInv' /\ LoadIsWhole' /\ HistoryWasSaved'
  BY DEF FSInv, SolidInv, Solid, Val, LoadIsWhole, HistoryWasSaved, Archive,
      files, reader, history
<1> QED
  BY <1>1, <1>2, <1>3, <1>4, <1>5, <1>6 DEF FSInv

LEMMA OpenHistoryPreserves ==
  ASSUME FSInv, NEW w \in Writers, OpenHistory(w)
  PROVE  FSInv'
<1> DEFINE t == TickOf[val[w]]
<1>1. t \in Ticks
  BY DEF FSInv, FillInv, OpenHistory
<1>2. Blank \in Content /\ \A c \in Chunks : Blank[c] = None
  BY DEF Blank, Content
<1>3. /\ UNCHANGED <<data, synced, main, temp, disk, rfd, got, kind, up>>
      /\ UNCHANGED <<val, pos, wfd, ans, committed>>
      /\ pc' = [pc EXCEPT ![w] = "fill"] /\ pc[w] = "open"
      /\ archived' = archived \cup {t} /\ flushed' = flushed \ {t}
      /\ hist' = [hist EXCEPT ![t] = Blank]
  BY DEF OpenHistory, Goto, files, reader
<1>4. TypeOK'
  BY <1>1, <1>2, <1>3 DEF FSInv, TypeOK, Busy, Done
<1>5. FillInv' /\ HistoryWasSaved'
  BY <1>1, <1>2, <1>3 DEF FSInv, TypeOK, FillInv, HistoryWasSaved, CallInv
<1> QED
  BY <1>3, <1>4, <1>5 DEF FSInv, TypeOK, SolidInv, Solid, Val, TempInv, CallInv,
     WriteInv, LoadIsWhole

LEMMA FillPreserves ==
  ASSUME FSInv, NEW w \in Writers, Fill(w)
  PROVE  FSInv'
<1>1. TypeOK'
  BY DEF FSInv, TypeOK, FillInv, Content, Done, Chunks, Ticks, Fill, Filled,
      Goto, files, reader
<1>2. TempInv'
  BY DEF FSInv, TempInv, Fill, Filled, Goto, files, reader
<1>3. CallInv'
  BY DEF FSInv, CallInv, Fill, Filled, Goto
<1>4. WriteInv'
  BY DEF FSInv, WriteInv, Fill, Filled, Goto, files
<1>5. FillInv'
  BY DEF FSInv, TypeOK, FillInv, CallInv, Chunks, Fill, Filled, Goto
<1>6. HistoryWasSaved'
  BY DEF FSInv, HistoryWasSaved, FillInv, Fill, Filled
<1>7. SolidInv' /\ LoadIsWhole'
  BY DEF FSInv, SolidInv, Solid, Val, LoadIsWhole, Fill, Filled, files, reader
<1> QED
  BY <1>1, <1>2, <1>3, <1>4, <1>5, <1>6, <1>7 DEF FSInv

LEMMA ArchiveFailsPreserves ==
  ASSUME FSInv, NEW w \in Writers, ArchiveFails(w)
  PROVE  FSInv'
<1>1. TypeOK'
  BY DEF FSInv, TypeOK, Done, ArchiveFails, Goto, files, reader, history
<1>2. TempInv'
  BY DEF FSInv, TempInv, ArchiveFails, Goto, files, reader
<1>3. CallInv'
  BY DEF FSInv, CallInv, ArchiveFails, Goto
<1>4. WriteInv'
  BY DEF FSInv, WriteInv, ArchiveFails, Goto, files
<1>5. FillInv'
  BY DEF FSInv, FillInv, ArchiveFails, Goto, history
<1>6. SolidInv' /\ LoadIsWhole' /\ HistoryWasSaved'
  BY DEF FSInv, SolidInv, Solid, Val, LoadIsWhole, HistoryWasSaved,
      ArchiveFails, files, reader, history
<1> QED
  BY <1>1, <1>2, <1>3, <1>4, <1>5, <1>6 DEF FSInv

LEMMA DeletePreserves ==
  ASSUME FSInv, Delete
  PROVE  FSInv'
<1>1. TypeOK'
  BY DEF FSInv, TypeOK, Delete, writer, reader, history
<1>2. SolidInv'
  BY DEF FSInv, SolidInv, Solid, Val, Delete, reader
<1>3. TempInv'
  BY DEF FSInv, TempInv, Delete, writer, reader
<1>4. CallInv' /\ WriteInv' /\ FillInv' /\ LoadIsWhole' /\ HistoryWasSaved'
  BY DEF FSInv, CallInv, WriteInv, FillInv, LoadIsWhole, HistoryWasSaved,
      Delete, writer, reader, history
<1> QED
  BY <1>1, <1>2, <1>3, <1>4 DEF FSInv

LEMMA LoadOpenPreserves ==
  ASSUME FSInv, NEW r \in Readers, LoadOpen(r)
  PROVE  FSInv'
<1>1. TypeOK'
  BY DEF FSInv, TypeOK, LoadOpen, files, writer, history
<1>2. SolidInv'
  BY DEF FSInv, SolidInv, Solid, Val, LoadOpen, files
<1>3. TempInv'
  BY DEF FSInv, TempInv, LoadOpen, files, writer
<1>4. CallInv'
  BY DEF FSInv, CallInv, LoadOpen, writer
<1>5. LoadIsWhole'
  BY DEF FSInv, LoadIsWhole, None, Torn, LoadOpen
<1>6. WriteInv' /\ FillInv' /\ HistoryWasSaved'
  BY DEF FSInv, WriteInv, FillInv, HistoryWasSaved, LoadOpen, files, writer,
      history
<1> QED
  BY <1>1, <1>2, <1>3, <1>4, <1>5, <1>6 DEF FSInv

LEMMA LoadReadPreserves ==
  ASSUME FSInv, NEW r \in Readers, LoadRead(r)
  PROVE  FSInv'
<1>1. TypeOK'
  BY DEF FSInv, TypeOK, SolidInv, Solid, LoadRead, files, writer, history
<1>2. SolidInv'
  BY DEF FSInv, SolidInv, Solid, Val, LoadRead, files
<1>3. TempInv'
  BY DEF FSInv, TempInv, LoadRead, files, writer
<1>4. CallInv'
  BY DEF FSInv, CallInv, LoadRead, writer
<1>5. LoadIsWhole'
  BY FSAssumption DEF FSInv, LoadIsWhole, SolidInv, Solid, LoadRead
<1>6. WriteInv' /\ FillInv' /\ HistoryWasSaved'
  BY DEF FSInv, WriteInv, FillInv, HistoryWasSaved, LoadRead, files, writer,
      history
<1> QED
  BY <1>1, <1>2, <1>3, <1>4, <1>5, <1>6 DEF FSInv

LEMMA LoadFailsPreserves ==
  ASSUME FSInv, NEW r \in Readers, LoadFails(r)
  PROVE  FSInv'
<1>1. TypeOK'
  BY DEF FSInv, TypeOK, LoadFails, files, writer, history
<1>2. SolidInv'
  BY DEF FSInv, SolidInv, Solid, Val, LoadFails, files
<1>3. TempInv'
  BY DEF FSInv, TempInv, LoadFails, files, writer
<1>4. CallInv'
  BY DEF FSInv, CallInv, LoadFails, writer
<1>5. LoadIsWhole'
  BY DEF FSInv, LoadIsWhole, Failed, Torn, LoadFails
<1>6. WriteInv' /\ FillInv' /\ HistoryWasSaved'
  BY DEF FSInv, WriteInv, FillInv, HistoryWasSaved, LoadFails, files, writer,
      history
<1> QED
  BY <1>1, <1>2, <1>3, <1>4, <1>5, <1>6 DEF FSInv

LEMMA SettleDirPreserves ==
  ASSUME FSInv, SettleDir
  PROVE  FSInv'
<1>1. TypeOK'
  BY DEF FSInv, TypeOK, SettleDir, writer, reader, history
<1>2. SolidInv'
  BY DEF FSInv, SolidInv, Solid, Val, SettleDir, reader
<1>3. TempInv'
  BY DEF FSInv, TempInv, SettleDir, writer, reader
<1>4. CallInv' /\ WriteInv' /\ FillInv' /\ LoadIsWhole' /\ HistoryWasSaved'
  BY DEF FSInv, CallInv, WriteInv, FillInv, LoadIsWhole, HistoryWasSaved,
      SettleDir, writer, reader, history
<1> QED
  BY <1>1, <1>2, <1>3, <1>4 DEF FSInv

LEMMA SettleHistoryPreserves ==
  ASSUME FSInv, SettleHistory
  PROVE  FSInv'
<1>1. TypeOK'
  BY DEF FSInv, TypeOK, SettleHistory, files, writer, reader
<1>2. SolidInv' /\ TempInv' /\ CallInv' /\ WriteInv' /\ FillInv' /\ LoadIsWhole' /\ HistoryWasSaved'
  BY DEF FSInv, SolidInv, Solid, Val, TempInv, CallInv, WriteInv, FillInv,
      LoadIsWhole, HistoryWasSaved, SettleHistory, files, writer, reader
<1> QED
  BY <1>1, <1>2 DEF FSInv

\* What a killed process leaves of its calls is well typed.
LEMMA GoneTypes ==
  ASSUME TypeOK, ProcessGone
  PROVE  /\ kind' \in Kinds /\ up' \in BOOLEAN
         /\ pc' \in [Writers -> Busy \cup Done \cup {"idle"}]
         /\ val' \in [Writers -> Values]
         /\ pos' \in [Writers -> 0..2]
         /\ wfd' \in [Writers -> Inodes \cup {NoInode}]
         /\ ans' \in [Writers -> {"none", "ok", "err"}]
         /\ rfd' \in [Readers -> Inodes \cup {NoInode}]
         /\ got' \in [Readers -> Values \cup {None, Failed, Torn}]
         /\ committed' \subseteq Values
<1>1. /\ pc' = [w \in Writers |-> "idle"] /\ pos' = [w \in Writers |-> 0]
      /\ wfd' = [w \in Writers |-> NoInode] /\ ans' = [w \in Writers |-> "none"]
      /\ rfd' = [r \in Readers |-> NoInode] /\ got' = [r \in Readers |-> None]
      /\ kind' = kind /\ up' = FALSE /\ val' = val /\ committed' = committed
  BY DEF ProcessGone
<1>2. pos' \in [Writers -> 0..2]
  BY <1>1
<1>3. pc' \in [Writers -> Busy \cup Done \cup {"idle"}]
  BY <1>1
<1>4. got' \in [Readers -> Values \cup {None, Failed, Torn}]
  BY <1>1
<1> QED
  BY <1>1, <1>2, <1>3, <1>4 DEF TypeOK

LEMMA KillPreserves ==
  ASSUME FSInv, Kill
  PROVE  FSInv'
<1>1. TypeOK'
  BY GoneTypes DEF FSInv, TypeOK, Kill, files
<1>2. SolidInv' /\ TempInv' /\ CallInv'
  BY DEF FSInv, SolidInv, Solid, Val, TempInv, CallInv, Kill, ProcessGone, files
<1>3. WriteInv' /\ FillInv' /\ HistoryWasSaved'
  BY DEF FSInv, WriteInv, FillInv, HistoryWasSaved, Kill, ProcessGone
<1>4. LoadIsWhole'
  BY DEF LoadIsWhole, Kill, ProcessGone, None, Torn
<1> QED
  BY <1>1, <1>2, <1>3, <1>4 DEF FSInv

LEMMA PowerLossPreserves ==
  ASSUME FSInv, PowerLoss
  PROVE  FSInv'
<1>1. PICK lost \in SUBSET Chunks, gone \in SUBSET (archived \ flushed) :
        /\ data' = [i \in Inodes |-> [c \in Chunks |->
                      IF i \notin synced /\ c \in lost THEN None ELSE data[i][c]]]
        /\ archived' = archived \ gone
        /\ hist' = [t \in Ticks |-> [c \in Chunks |->
                      IF t \in gone \/ (t \notin flushed /\ c \in lost)
                        THEN None ELSE hist[t][c]]]
        /\ flushed' = archived'
  BY DEF PowerLoss
<1>2. data' \in [Inodes -> Content] /\ hist' \in [Ticks -> Content]
  BY <1>1 DEF FSInv, TypeOK, Content
<1>3. TypeOK'
  <2>1. /\ main' \in Inodes \cup {NoInode} /\ temp' \in Inodes \cup {NoInode}
        /\ disk' \in Inodes \cup {NoInode} /\ synced' \subseteq Inodes
    BY DEF FSInv, TypeOK, PowerLoss
  <2>2. archived' \subseteq Ticks /\ flushed' \subseteq archived'
    BY <1>1 DEF FSInv, TypeOK
  <2> QED
    BY <1>2, <2>1, <2>2, GoneTypes DEF FSInv, TypeOK, PowerLoss
<1>4. \A i \in synced : data'[i][1] = data[i][1] /\ data'[i][2] = data[i][2]
  BY <1>1 DEF FSInv, TypeOK, Chunks
<1>5. SolidInv'
  <2>1. /\ main' \in {main, disk} /\ disk' = main' /\ synced' = synced
        /\ \A r \in Readers : rfd'[r] = NoInode
    BY DEF PowerLoss, ProcessGone
  <2> QED
    BY <1>4, <2>1 DEF FSInv, SolidInv, Solid, Val
<1>6. TempInv' /\ CallInv'
  BY DEF FSInv, TempInv, CallInv, PowerLoss, ProcessGone
<1>7. WriteInv' /\ FillInv'
  BY DEF WriteInv, FillInv, PowerLoss, ProcessGone
<1>8. HistoryWasSaved'
  <2>1. \A t \in Ticks, c \in Chunks : hist'[t][c] # None => hist'[t][c] = hist[t][c]
    BY <1>1
  <2>2. committed' = committed
    BY DEF PowerLoss, ProcessGone
  <2> QED
    BY <2>1, <2>2 DEF FSInv, HistoryWasSaved
<1>9. LoadIsWhole'
  BY DEF LoadIsWhole, PowerLoss, ProcessGone, None, Torn
<1> QED
  BY <1>3, <1>5, <1>6, <1>7, <1>8, <1>9 DEF FSInv

LEMMA NewFSProviderPreserves ==
  ASSUME FSInv, NewFSProvider
  PROVE  FSInv'
<1>1. TypeOK'
  BY DEF FSInv, TypeOK, NewFSProvider, cleanStaleTempFiles, writer, reader,
      history
<1>2. TempInv'
  BY DEF FSInv, TempInv, CallInv, NewFSProvider, cleanStaleTempFiles, writer,
      reader
<1>3. CallInv'
  BY DEF FSInv, CallInv, NewFSProvider, writer
<1>4. SolidInv' /\ WriteInv' /\ FillInv' /\ LoadIsWhole' /\ HistoryWasSaved'
  BY DEF FSInv, SolidInv, Solid, Val, WriteInv, FillInv, LoadIsWhole,
      HistoryWasSaved, NewFSProvider, writer, reader, history
<1> QED
  BY <1>1, <1>2, <1>3, <1>4 DEF FSInv

-----------------------------------------------------------------------------
(* The invariant, and the safety properties it contains.                   *)

LEMMA InitEstablishes == Init => FSInv
<1> SUFFICES ASSUME Init PROVE FSInv
  OBVIOUS
<1>1. TypeOK
  BY DEF Init, TypeOK, Content, Blank, Kinds, Busy, Done
<1>2. SolidInv /\ TempInv /\ CallInv
  BY DEF Init, SolidInv, Solid, TempInv, CallInv
<1>3. WriteInv /\ FillInv
  BY DEF Init, WriteInv, FillInv
<1>4. LoadIsWhole /\ HistoryWasSaved
  BY DEF Init, LoadIsWhole, HistoryWasSaved, Blank, None, Torn
<1> QED
  BY <1>1, <1>2, <1>3, <1>4 DEF FSInv

LEMMA StutterPreserves ==
  ASSUME FSInv, UNCHANGED vars
  PROVE  FSInv'
<1>1. TypeOK' /\ LoadIsWhole' /\ HistoryWasSaved'
  BY DEF FSInv, TypeOK, LoadIsWhole, HistoryWasSaved, vars, files, writer, reader, history
<1>2. SolidInv' /\ TempInv' /\ CallInv' /\ WriteInv' /\ FillInv'
  BY DEF FSInv, SolidInv, Solid, Val, TempInv, CallInv, WriteInv, FillInv,
      vars, files, writer, reader, history
<1> QED
  BY <1>1, <1>2 DEF FSInv

LEMMA NextPreserves ==
  ASSUME OneSaver, FSInv, [Next]_vars
  PROVE  FSInv'
<1>1. ASSUME NEW w \in Writers, NEW v \in Values,
             SaveCheckpoint(w, v) \/ SaveReceipts(w, v) \/ SaveIdentity(w, v)
      PROVE  FSInv'
  BY <1>1, SavePreserves DEF SaveCheckpoint, SaveReceipts, SaveIdentity
<1>2. ASSUME NEW w \in Writers,
             \/ Create(w) \/ Write(w) \/ Sync(w) \/ Rename(w)
             \/ CreateFails(w) \/ Fails(w) \/ Cleanup(w) \/ Saved(w)
             \/ Archive(w) \/ OpenHistory(w) \/ Fill(w) \/ ArchiveFails(w)
      PROVE  FSInv'
  BY <1>2, CreatePreserves, WritePreserves, SyncPreserves, RenamePreserves,
     CreateFailsPreserves, FailsPreserves, CleanupPreserves, SavedPreserves,
     ArchivePreserves, OpenHistoryPreserves, FillPreserves, ArchiveFailsPreserves
<1>3. ASSUME DeleteCheckpoint \/ DeleteReceipts \/ DeleteIdentity
      PROVE  FSInv'
  BY <1>3, DeletePreserves DEF DeleteCheckpoint, DeleteReceipts, DeleteIdentity
<1>4. ASSUME NEW r \in Readers,
             \/ LoadCheckpoint(r) \/ LoadReceipts(r) \/ LoadIdentity(r)
             \/ LoadRead(r) \/ LoadFails(r)
      PROVE  FSInv'
  BY <1>4, LoadOpenPreserves, LoadReadPreserves, LoadFailsPreserves
     DEF LoadCheckpoint, LoadReceipts, LoadIdentity
<1>5. ASSUME SettleDir \/ SettleHistory \/ Kill \/ PowerLoss \/ NewFSProvider
      PROVE  FSInv'
  BY <1>5, SettleDirPreserves, SettleHistoryPreserves, KillPreserves,
     PowerLossPreserves, NewFSProviderPreserves
<1>6. CASE UNCHANGED vars
  BY <1>6, StutterPreserves
<1> QED
  BY <1>1, <1>2, <1>3, <1>4, <1>5, <1>6 DEF Next

\* The inductive invariant holds as long as the callers save one thing at a time.
THEOREM Invariance ==
  ASSUME OneSaver
  PROVE  Spec => []FSInv
<1>1. Init => FSInv
  BY InitEstablishes
<1>2. FSInv /\ [Next]_vars => FSInv'
  BY NextPreserves
<1> QED
  BY <1>1, <1>2, PTL DEF Spec

\* The variables of the file system and of the calls keep their types.
THEOREM TypeCorrect ==
  ASSUME OneSaver
  PROVE  Spec => []TypeOK
<1>1. FSInv => TypeOK
  BY DEF FSInv
<1> QED
  BY <1>1, Invariance, PTL

\* LoadCheckpoint, LoadReceipts and LoadIdentity never answer a part or a mixture
\* of what was saved, through failed saves, deletes, kills and power losses, while
\* saves do not overlap.
THEOREM LoadsAreWhole ==
  ASSUME OneSaver
  PROVE  Spec => []LoadIsWhole
<1>1. FSInv => LoadIsWhole
  BY DEF FSInv
<1> QED
  BY <1>1, Invariance, PTL

\* archiveCheckpoint copies nothing that was not the current checkpoint first.
THEOREM HistoryOnlyOfSaved ==
  ASSUME OneSaver
  PROVE  Spec => []HistoryWasSaved
<1>1. FSInv => HistoryWasSaved
  BY DEF FSInv
<1> QED
  BY <1>1, Invariance, PTL

-----------------------------------------------------------------------------
(* archiveCheckpoint writes a history file once.                           *)

LEMMA NextKeepsHistory ==
  ASSUME FSInv, [Next]_vars, NEW t \in Ticks,
         t \in archived, hist[t][1] # None, hist[t][1] = hist[t][2]
  PROVE  \/ t \in archived' /\ hist'[t] = hist[t]
         \/ ~up' /\ t \notin flushed
<1> USE DEF FSInv, TypeOK
<1>1. ASSUME NEW w \in Writers, OpenHistory(w)
      PROVE  t \in archived' /\ hist'[t] = hist[t]
  BY <1>1 DEF OpenHistory, FillInv
<1>2. ASSUME NEW w \in Writers, Fill(w)
      PROVE  t \in archived' /\ hist'[t] = hist[t]
  <2>1. pos[w] \in 0..1 /\ \A c \in Chunks : c > pos[w] => hist[TickOf[val[w]]][c] = None
    BY <1>2 DEF Fill, FillInv
  <2>2. hist[TickOf[val[w]]][2] = None
    BY <2>1 DEF Chunks
  <2>3. TickOf[val[w]] # t
    BY <2>2
  <2> QED
    BY <1>2, <2>3 DEF Fill, Filled
<1>3. ASSUME PowerLoss
      PROVE  \/ t \in archived' /\ hist'[t] = hist[t]
             \/ ~up' /\ t \notin flushed
  <2>1. ~up'
    BY <1>3 DEF PowerLoss, ProcessGone
  <2>2. CASE t \in flushed
    <3> PICK lost \in SUBSET Chunks, gone \in SUBSET (archived \ flushed) :
          /\ archived' = archived \ gone
          /\ hist' = [u \in Ticks |-> [c \in Chunks |->
                        IF u \in gone \/ (u \notin flushed /\ c \in lost)
                          THEN None ELSE hist[u][c]]]
      BY <1>3 DEF PowerLoss
    <3>1. t \notin gone /\ t \in archived'
      BY <2>2
    <3>2. hist'[t] = [c \in Chunks |-> hist[t][c]]
      BY <2>2, <3>1
    <3>3. hist[t] = [c \in Chunks |-> hist[t][c]]
      BY DEF Content
    <3> QED
      BY <3>1, <3>2, <3>3
  <2> QED
    BY <2>1, <2>2
<1>4. ASSUME UNCHANGED <<archived, hist>>
      PROVE  t \in archived' /\ hist'[t] = hist[t]
  BY <1>4
<1>5. \/ \E w \in Writers : OpenHistory(w) \/ Fill(w)
      \/ PowerLoss
      \/ UNCHANGED <<archived, hist>>
  BY DEF Next, vars, history, SaveCheckpoint, SaveReceipts, SaveIdentity, Save,
     Create, Write, Sync, Rename, Closed, CreateFails, Fails, Cleanup, Saved,
     Archive, ArchiveFails, DeleteCheckpoint, DeleteReceipts, DeleteIdentity, Delete,
     LoadCheckpoint, LoadReceipts, LoadIdentity, LoadOpen, LoadRead, LoadFails,
     SettleDir, SettleHistory, Kill, NewFSProvider
<1> QED
  BY <1>1, <1>2, <1>3, <1>4, <1>5

\* A complete history file is never written again: the checkpoint archived
\* first keeps the tick, and only a power loss before the file reached the
\* disk can undo it.
THEOREM HistoryWriteOnce ==
  ASSUME OneSaver
  PROVE  Spec => HistoryIsWriteOnce
<1>1. FSInv /\ [Next]_vars =>
        [\A t \in Ticks :
           (t \in archived /\ hist[t][1] # None /\ hist[t][1] = hist[t][2])
             => \/ t \in archived' /\ hist'[t] = hist[t]
                \/ ~up' /\ t \notin flushed]_vars
  BY NextKeepsHistory
<1> QED
  BY <1>1, Invariance, PTL DEF Spec, HistoryIsWriteOnce

-----------------------------------------------------------------------------
(* The files implement AtomicStore. A save takes effect at its rename and  *)
(* a load when it opens the file; the steps in between stutter.            *)

LEMMA InitRefines == Init => Store!Init
  BY DEF Init, Store!Init, Stage, Busy, Done, Loaded, Val

\* The inodes the abstract store sees. Writes go to others.
Seen == {main, disk} \cup {rfd[r] : r \in Readers}

LEMMA WritesAreUnseen ==
  ASSUME FSInv, UNCHANGED <<main, disk, rfd, got>>,
         \A i \in Inodes \cap Seen : data'[i] = data[i]
  PROVE  UNCHANGED <<Val(main), Val(disk), Loaded>>
<1> USE FSAssumption DEF FSInv, TypeOK, Seen
<1>1. UNCHANGED Val(main)
  BY DEF Val
<1>2. UNCHANGED Val(disk)
  BY DEF Val
<1>3. ASSUME NEW r \in Readers PROVE UNCHANGED Val(rfd[r])
  BY DEF Val
<1>4. UNCHANGED Loaded
  BY <1>3 DEF Loaded
<1> QED
  BY <1>1, <1>2, <1>4

\* Create, Write and Sync prepare the temp file.
LEMMA PrepareStutters ==
  ASSUME FSInv, NEW w \in Writers,
         Create(w) \/ Write(w) \/ Sync(w) \/ Fails(w)
  PROVE  UNCHANGED Store!vars
<1>1. UNCHANGED <<main, disk, rfd, got, val, ans>>
  BY DEF Create, Opened, Write, Sync, Fails, files, reader
<1>2. \A i \in Inodes \cap Seen : data'[i] = data[i]
  <2>1. CASE Create(w)
    BY <2>1, FSAssumption DEF FSInv, TypeOK, TempInv, Create, Opened, Free, Entries,
       Descriptors, Seen
  <2>2. CASE Write(w)
    BY <2>2, FSAssumption DEF FSInv, TypeOK, TempInv, Write, Seen
  <2>3. CASE Sync(w) \/ Fails(w)
    BY <2>3 DEF Sync, Fails, files
  <2> QED
    BY <2>1, <2>2, <2>3
<1>3. UNCHANGED Stage
  BY DEF FSInv, TypeOK, Create, Write, Sync, Fails, Goto, Stage, Busy, Done
<1> QED
  BY <1>1, <1>2, <1>3, WritesAreUnseen DEF Store!vars

\* A step that changes no name, no data and no call.
LEMMA QuietStutters ==
  ASSUME FSInv, UNCHANGED <<main, disk, data, val, ans, reader>>, UNCHANGED Stage
  PROVE  UNCHANGED Store!vars
  BY WritesAreUnseen DEF reader, Store!vars

LEMMA SaveRefines ==
  ASSUME FSInv, NEW w \in Writers, NEW v \in Values, Save(w, v)
  PROVE  Store!Next
<1>1. UNCHANGED <<Val(main), Val(disk), Loaded>>
  BY WritesAreUnseen DEF Save, files, reader
<1>2. Stage[w] = "idle" /\ Stage' = [Stage EXCEPT ![w] = "busy"]
  BY DEF FSInv, TypeOK, Save, Goto, Stage, Busy, Done
<1>3. Store!Call(w, v)
  BY <1>1, <1>2 DEF Save, Store!Call
<1> QED
  BY <1>3 DEF Store!Next

\* The rename is the moment a save takes effect.
LEMMA RenameRefines ==
  ASSUME FSInv, NEW w \in Writers, Rename(w)
  PROVE  Store!Next
<1>1. Val(main)' = val[w]
  BY FSAssumption DEF FSInv, TypeOK, TempInv, WriteInv, Rename, Closed, Val, Chunks
<1>2. UNCHANGED <<Val(disk), Loaded>>
  BY DEF Rename, Closed, reader, Val, Loaded
<1>3. Stage[w] = "busy" /\ Stage' = [Stage EXCEPT ![w] = "done"]
  BY DEF FSInv, TypeOK, Rename, Closed, Goto, Stage, Busy, Done
<1>4. Store!Commit(w)
  BY <1>1, <1>2, <1>3 DEF Rename, Closed, Store!Commit
<1> QED
  BY <1>4 DEF Store!Next

\* A call answers an error before its rename and success after it.
LEMMA ReturnRefines ==
  ASSUME FSInv, NEW w \in Writers, CreateFails(w) \/ Cleanup(w) \/ Saved(w)
  PROVE  Store!Next
<1>1. UNCHANGED <<Val(main), Val(disk), Loaded, val>>
  BY WritesAreUnseen DEF CreateFails, Cleanup, Saved, files, reader
<1>2. /\ Stage[w] # "idle" /\ Stage' = [Stage EXCEPT ![w] = "idle"]
      /\ ans' = [ans EXCEPT ![w] = IF Stage[w] = "done" THEN "ok" ELSE "err"]
  BY DEF FSInv, TypeOK, CreateFails, Cleanup, Saved, Return, Goto, Stage, Busy, Done
<1>3. Store!Answer(w)
  BY <1>1, <1>2 DEF Store!Answer
<1> QED
  BY <1>3 DEF Store!Next

LEMMA ArchiveStutters ==
  ASSUME FSInv, NEW w \in Writers,
         Archive(w) \/ OpenHistory(w) \/ Fill(w) \/ ArchiveFails(w)
  PROVE  UNCHANGED Store!vars
<1>1. UNCHANGED <<main, disk, data, val, ans, reader>>
  BY DEF Archive, OpenHistory, Fill, Filled, ArchiveFails, files
<1>2. UNCHANGED Stage
  BY DEF FSInv, TypeOK, Archive, OpenHistory, Fill, ArchiveFails, Goto, Stage,
     Busy, Done
<1> QED
  BY <1>1, <1>2, QuietStutters

LEMMA DeleteRefines ==
  ASSUME FSInv, Delete
  PROVE  Store!Next
<1>1. Val(main)' = None /\ UNCHANGED <<Val(disk), Loaded, Stage>>
  BY DEF Delete, writer, reader, Val, Loaded, Stage
<1>2. Store!Delete
  BY <1>1 DEF Delete, writer, Store!Delete
<1> QED
  BY <1>2 DEF Store!Next

\* A load takes effect when it opens the file; the read finds the same bytes.
LEMMA LoadRefines ==
  ASSUME FSInv, NEW r \in Readers, LoadOpen(r) \/ LoadRead(r) \/ LoadFails(r)
  PROVE  Store!Next \/ UNCHANGED Store!vars
<1>1. UNCHANGED <<Val(main), Val(disk), Stage, val, ans>>
  BY DEF LoadOpen, LoadRead, LoadFails, files, writer, Val, Stage
<1>2. CASE LoadOpen(r)
  <2>1. Loaded' = [Loaded EXCEPT ![r] = Val(main)]
    BY <1>2 DEF FSInv, TypeOK, LoadOpen, files, Val, Loaded
  <2>2. Store!Load(r)
    BY <1>1, <2>1 DEF Store!Load
  <2> QED
    BY <2>2 DEF Store!Next
<1>3. CASE LoadRead(r)
  <2>1. UNCHANGED Loaded
    BY <1>3 DEF FSInv, TypeOK, LoadRead, files, Val, Loaded
  <2> QED
    BY <1>1, <2>1 DEF Store!vars
<1>4. CASE LoadFails(r)
  <2>1. Loaded' = [Loaded EXCEPT ![r] = Failed]
    BY <1>4 DEF FSInv, TypeOK, LoadFails, files, Val, Loaded
  <2>2. Store!LoadFails(r)
    BY <1>1, <2>1 DEF Store!LoadFails
  <2> QED
    BY <2>2 DEF Store!Next
<1> QED
  BY <1>2, <1>3, <1>4

LEMMA SettleDirRefines ==
  ASSUME FSInv, SettleDir
  PROVE  Store!Next
<1>1. Val(disk)' = Val(main) /\ UNCHANGED <<Val(main), Stage, Loaded, val, ans>>
  BY DEF SettleDir, writer, reader, Val, Stage, Loaded
<1>2. Store!Settle
  BY <1>1 DEF Store!Settle
<1> QED
  BY <1>2 DEF Store!Next

\* A crash drops the calls. A power loss spares what was synced, and every
\* inode with a name on disk was.
LEMMA CrashRefines ==
  ASSUME FSInv, Kill \/ PowerLoss
  PROVE  Store!Next
<1>1. /\ Stage' = [w \in Writers |-> "idle"]
      /\ ans' = [w \in Writers |-> "none"]
      /\ Loaded' = [r \in Readers |-> None]
      /\ UNCHANGED val
  BY DEF Kill, PowerLoss, ProcessGone, Stage, Busy, Done, Loaded
<1>2. ASSUME Kill PROVE UNCHANGED <<Val(main), Val(disk)>>
  BY <1>2 DEF Kill, files, Val
<1>3. ASSUME PowerLoss
      PROVE  Val(main)' \in {Val(main), Val(disk)} /\ Val(disk)' = Val(main)'
  <2>1. ASSUME NEW i \in Inodes, i \in synced
        PROVE  data'[i][1] = data[i][1] /\ data'[i][2] = data[i][2]
    BY <1>3, <2>1 DEF PowerLoss, Chunks
  <2>2. Val(main)' \in {Val(main), Val(disk)}
    BY <1>3, <2>1 DEF FSInv, TypeOK, SolidInv, Solid, PowerLoss, Val
  <2>3. Val(disk)' = Val(main)'
    BY <1>3 DEF PowerLoss, Val
  <2> QED
    BY <2>2, <2>3
<1>4. Store!Crash
  BY <1>1, <1>2, <1>3 DEF Store!Crash
<1> QED
  BY <1>4 DEF Store!Next

LEMMA NextRefines ==
  ASSUME FSInv, [Next]_vars
  PROVE  [Store!Next]_Store!vars
<1>1. ASSUME NEW w \in Writers, NEW v \in Values,
             SaveCheckpoint(w, v) \/ SaveReceipts(w, v) \/ SaveIdentity(w, v)
      PROVE  Store!Next
  BY <1>1, SaveRefines DEF SaveCheckpoint, SaveReceipts, SaveIdentity
<1>2. ASSUME NEW w \in Writers,
             \/ Create(w) \/ Write(w) \/ Sync(w) \/ Rename(w)
             \/ CreateFails(w) \/ Fails(w) \/ Cleanup(w) \/ Saved(w)
             \/ Archive(w) \/ OpenHistory(w) \/ Fill(w) \/ ArchiveFails(w)
      PROVE  Store!Next \/ UNCHANGED Store!vars
  BY <1>2, PrepareStutters, RenameRefines, ReturnRefines, ArchiveStutters
<1>3. ASSUME DeleteCheckpoint \/ DeleteReceipts \/ DeleteIdentity
      PROVE  Store!Next
  BY <1>3, DeleteRefines DEF DeleteCheckpoint, DeleteReceipts, DeleteIdentity
<1>4. ASSUME NEW r \in Readers,
             \/ LoadCheckpoint(r) \/ LoadReceipts(r) \/ LoadIdentity(r)
             \/ LoadRead(r) \/ LoadFails(r)
      PROVE  Store!Next \/ UNCHANGED Store!vars
  BY <1>4, LoadRefines DEF LoadCheckpoint, LoadReceipts, LoadIdentity
<1>5. CASE SettleDir \/ Kill \/ PowerLoss
  BY <1>5, SettleDirRefines, CrashRefines
<1>6. CASE SettleHistory \/ NewFSProvider \/ UNCHANGED vars
  <2>1. UNCHANGED <<main, disk, data, val, ans, reader>> /\ UNCHANGED Stage
    BY <1>6 DEF SettleHistory, NewFSProvider, vars, files, writer, Stage
  <2> QED
    BY <2>1, QuietStutters
<1> QED
  BY <1>1, <1>2, <1>3, <1>4, <1>5, <1>6 DEF Next

\* While saves of a file do not overlap, as within a tick loop, FSProvider's
\* files implement the store of provider.go for any number of readers: a
\* save is atomic and its answer is true, a load is a read of one moment, and
\* neither a kill nor a power loss leaves a value that was not saved. The
\* concurrent saves that provider.go also promises are not claimed.
THEOREM OneSaverImplementsStore ==
  ASSUME OneSaver
  PROVE  Spec => Atomic
<1>1. Init => Store!Init
  BY InitRefines
<1>2. FSInv /\ [Next]_vars => [Store!Next]_Store!vars
  BY NextRefines
<1> QED
  BY <1>1, <1>2, Invariance, PTL DEF Spec, Atomic, Store!Spec
=============================================================================
