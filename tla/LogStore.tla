------------------------------ MODULE LogStore ------------------------------
(***************************************************************************)
(* The value file of one group: LogStore of                               *)
(* src/src/logstorage/log_store.cpp, with the index database it rebuilds. *)
(*                                                                         *)
(* The vfile directory holds a meta file with the current file id and its *)
(* checksum, and files <id>.f, each preallocated to LOG_FILE_MAX_SIZE     *)
(* bytes of zeros.  Append writes one record: a length word, the instance *)
(* id, and the serialized AcceptorStateData.  The model measures files in *)
(* units: a record of size k takes k cells, a head cell (length and       *)
(* instance id) then k-1 body cells.  Every Append gets a stamp (its       *)
(* sequence number); it stands for the record's bytes, so that the CRC    *)
(* that GenFileID puts in the file id is "the stamp", and a cell that     *)
(* holds the bytes of another record is told apart.                       *)
(*                                                                         *)
(* Faults: each system call named in Failing may fail, and the process    *)
(* may crash between calls and restart (LogStore::Init).  A process crash *)
(* keeps what write() handed to the kernel, so files and the meta file    *)
(* survive as written.  The index database (LevelDB, not under src/) is   *)
(* kept as durable as the file.                                           *)
(***************************************************************************)
EXTENDS Integers, Sequences, FiniteSets

CONSTANTS
    Insts,        \* instance ids the acceptor writes state for (positive)
    Sizes,        \* record sizes in cells
    FileCap,      \* LOG_FILE_MAX_SIZE in cells
    MaxFileID,    \* bound on file ids, a model bound
    MaxAppends,   \* bound on Append calls, a model bound
    MaxRestarts,  \* bound on process crashes, a model bound
    Failing       \* the system calls that may fail

FailPoints == {"metaWrite", "metaChecksum", "metaSync", "open", "expand",
               "write", "datasync", "remove"}
ASSUME Failing \subseteq FailPoints /\ \A s \in Sizes : 1 <= s /\ s <= FileCap

Fails(call) == IF call \in Failing THEN BOOLEAN ELSE {FALSE}

FileIDs == 0..MaxFileID
Stamps == 1..MaxAppends

Zero == [kind |-> "zero", stamp |-> 0, inst |-> 0, size |-> 0]
HeadCell(st, i, sz) == [kind |-> "head", stamp |-> st, inst |-> i, size |-> sz]
BodyCell(st) == [kind |-> "body", stamp |-> st, inst |-> 0, size |-> 0]
\* A head cut inside its 12 bytes: the length word read back is that of the
\* record or a mix with the bytes before, the instance id is incomplete.
TornCell(st, sz) == [kind |-> "torn", stamp |-> st, inst |-> 0, size |-> sz]
Cells == {Zero} \cup {HeadCell(st, i, sz) : st \in Stamps, i \in Insts, sz \in Sizes}
                \cup {TornCell(st, sz) : st \in Stamps, sz \in Sizes}
                \cup {BodyCell(st) : st \in Stamps}

\* The file id sFileID of a record: file, offset and checksum.
Locs == [file : FileIDs, off : 0..FileCap, stamp : Stamps]
NoLoc == [file |-> 0, off |-> 0, stamp |-> 0]

VARIABLES
    meta,      \* the meta file: [id, sum]; sum "none" when no checksum is there
    exists,    \* the files <id>.f that exist
    files,     \* files[f]: the cells of <id>.f
    fileID,    \* m_iFileID
    fdOpen,    \* m_iFd != -1
    offset,    \* m_iNowFileOffset
    size,      \* m_iNowFileSize
    index,     \* the index database: instance id -> file id of its record
    status,    \* "up" after Init, "down" before it, "failed": Init refused the data
    appends,   \* Append calls so far
    restarts,  \* process crashes so far
    lastInst,  \* the instance the caller (the acceptor) writes state for
    acked,     \* history: acked[i] the stamp of the last Append of i that returned 0
    deletedMax, \* m_iDeletedMaxFileID
    cleaned    \* history: the largest instance whose file id was passed to Del

logVars == <<meta, exists, files, fileID, fdOpen, offset, size, index,
             status, appends, restarts, lastInst, acked, deletedMax, cleaned>>

LogTypeOK ==
    /\ meta \in [id : 0..MaxFileID + 1, sum : {"none", "ok", "bad"}]
    /\ exists \subseteq FileIDs
    /\ files \in [FileIDs -> Seq(Cells)]
    /\ \A f \in FileIDs : Len(files[f]) <= FileCap
    /\ fileID \in 0..MaxFileID + 1
    /\ fdOpen \in BOOLEAN
    /\ offset \in 0..FileCap /\ size \in 0..FileCap
    /\ index \in [Insts -> Locs \cup {NoLoc}]
    /\ status \in {"up", "down", "failed"}
    /\ appends \in 0..MaxAppends /\ restarts \in 0..MaxRestarts
    /\ lastInst \in Insts \cup {0}
    /\ acked \in [Insts -> 0..MaxAppends]
    /\ deletedMax \in -1..MaxFileID
    /\ cleaned \in Insts \cup {0}

\* A fresh database directory: no meta content, no file, an empty index.
LogInit ==
    /\ meta = [id |-> 0, sum |-> "none"]
    /\ exists = {}
    /\ files = [f \in FileIDs |-> <<>>]
    /\ fileID = 0 /\ fdOpen = FALSE /\ offset = 0 /\ size = 0
    /\ index = [i \in Insts |-> NoLoc]
    /\ status = "down"
    /\ appends = 0 /\ restarts = 0 /\ lastInst = 0
    /\ acked = [i \in Insts |-> 0]
    /\ deletedMax = -1 /\ cleaned = 0

-----------------------------------------------------------------------------
(* Reading records.                                                       *)

\* The cell at byte offset o of file content c (offsets count from 0).
CellAt(c, o) == c[o + 1]

\* The record at offset o is whole: its body cells hold its own bytes.
Intact(c, o) ==
    LET h == CellAt(c, o)
    IN  /\ h.kind = "head"
        /\ o + h.size <= Len(c)
        /\ \A k \in 1..(h.size - 1) : CellAt(c, o + k) = BodyCell(h.stamp)

\* LogStore::Read: the file exists, the length word and the record can be
\* read, and the CRC of what was read equals the one in the file id.
ReadOK(l) ==
    /\ l.file \in exists
    /\ l.off < Len(files[l.file])
    /\ Intact(files[l.file], l.off)
    /\ CellAt(files[l.file], l.off).stamp = l.stamp

-----------------------------------------------------------------------------
(* LogStore::RebuildIndex.  The scan keeps the state of the rebuild in    *)
(* a record: now (llNowInstanceID), index, woff (iNowFileWriteOffset,     *)
(* which is m_iNowFileOffset), files (after truncations) and ok.  Bytes   *)
(* read where a length word should be that belong to another record give *)
(* an arbitrary length, so the scan of a file is a set of outcomes.      *)

\* The instance the index knows as the largest, and where its record is.
MaxIndexed ==
    IF \A i \in Insts : index[i] = NoLoc THEN 0
    ELSE CHOOSE i \in Insts : index[i] # NoLoc /\
                              \A j \in Insts : index[j] # NoLoc => j <= i

\* bNeedTruncate: truncate(sFilePath, iNowOffset).
Truncated(st, f, o) == [st EXCEPT !.files[f] = SubSeq(@, 1, o)]

\* A length word read from the bytes of another record: out of range (ret
\* -1), past the end of the file (truncate, the write offset not set), or
\* read whole and not parsed (truncate, the write offset set).
JunkOutcomes(st, f, o) ==
    {[st EXCEPT !.ok = FALSE], Truncated(st, f, o),
     [Truncated(st, f, o) EXCEPT !.woff = o]}

\* A torn head: a length word out of range (:639) or an incomplete instance
\* id below the last one read (:666) refuses the file; else the record is
\* read and its body, bytes not written by it, does not parse (:688).
TornOutcomes(st, f, o) ==
    {[st EXCEPT !.ok = FALSE],
     IF o + CellAt(st.files[f], o).size > Len(st.files[f])
     THEN Truncated(st, f, o)
     ELSE [Truncated(st, f, o) EXCEPT !.woff = o]}

\* A zero length word ends the data of the file: the write offset is there.
DataEndUnset(st, o) == st
DataEnd(st, o) == [st EXCEPT !.woff = o]

\* A record whose instance id is below the last one read refuses the file.
InstanceGoesBack(i, now) == i < now

RECURSIVE ScanFile(_, _, _)
\* RebuildIndexForOneFile from offset o of file f: read a length word; at
\* the end of the file or at a zero length stop there; read the record; an
\* instance id below the last one refuses the file; a record that does not
\* parse is cut off; a whole one is indexed and the scan goes on after it.
ScanFile(f, o, st) ==
    LET c == st.files[f]
    IN  IF o >= Len(c) THEN {[st EXCEPT !.woff = o]}
        ELSE LET h == CellAt(c, o)
             IN  CASE h.kind = "zero" -> {DataEnd(st, o)}
                   [] h.kind = "body" -> JunkOutcomes(st, f, o)
                   [] h.kind = "torn" -> TornOutcomes(st, f, o)
                   [] o + h.size > Len(c) -> {Truncated(st, f, o)}
                   [] InstanceGoesBack(h.inst, st.now) -> {[st EXCEPT !.ok = FALSE]}
                   [] ~Intact(c, o) -> {[Truncated(st, f, o) EXCEPT !.woff = o]}
                   [] OTHER ->
                        ScanFile(f, o + h.size,
                                 [st EXCEPT !.now = h.inst,
                                            !.index[h.inst] =
                                                [file |-> f, off |-> o, stamp |-> h.stamp]])

RECURSIVE ScanFiles(_, _, _, _)
\* The loop of RebuildIndex over the files from f on; it ends at the first
\* file that does not exist, which must be the one after the meta file id.
ScanFiles(f, o, st, metaID) ==
    IF f \notin exists
    THEN {[st EXCEPT !.ok = (f = 0 \/ f = metaID + 1)]}
    ELSE UNION {IF r.ok THEN ScanFiles(f + 1, 0, r, metaID) ELSE {r} :
                   r \in ScanFile(f, o, st)}

\* RebuildIndex from the record of the largest indexed instance, with the
\* meta file id metaID; a start past the meta file id is refused.
Rebuilds(metaID) ==
    LET i0 == MaxIndexed
        l0 == IF i0 = 0 THEN NoLoc ELSE index[i0]
        st0 == [now |-> i0, index |-> index, woff |-> 0, files |-> files, ok |-> TRUE]
    IN  IF l0.file > metaID THEN {[st0 EXCEPT !.ok = FALSE]}
        ELSE ScanFiles(l0.file, l0.off, st0, metaID)

\* ExpandFile: an empty file is extended to LOG_FILE_MAX_SIZE zero bytes.
Expanded(c) == IF Len(c) = 0 THEN [k \in 1..FileCap |-> Zero] ELSE c

\* LogStore::Init after a (re)start: read the meta file, rebuild the index,
\* open (creating) the current file, expand it and seek to the write offset.
\* A meta checksum mismatch or a refused rebuild fails Init for good; a
\* failing open or expand fails this attempt only.  ExpandFile of an empty
\* file sets the write offset to 0.  The acceptor then loads the largest
\* instance of the index (AcceptorState::Load).
LogStoreInit ==
    /\ status = "down"
    /\ IF meta.sum = "bad"
       THEN /\ status' = "failed"
            /\ UNCHANGED <<exists, files, fileID, fdOpen, offset, size, index, lastInst>>
       ELSE \E r \in Rebuilds(meta.id), openFails \in Fails("open"),
               expandFails \in Fails("expand") :
              LET c == r.files[meta.id]
              IN  IF ~r.ok
                  THEN /\ status' = "failed"
                       /\ UNCHANGED <<exists, files, fileID, fdOpen, offset, size,
                                      index, lastInst>>
                  ELSE /\ index' = r.index
                       /\ lastInst' = r.now
                       /\ fileID' = meta.id
                       /\ exists' = IF openFails THEN exists ELSE exists \cup {meta.id}
                       /\ IF openFails \/ (expandFails /\ Len(c) = 0)
                          THEN /\ files' = r.files
                               /\ status' = "down"
                               /\ UNCHANGED <<fdOpen, offset, size>>
                          ELSE /\ files' = [r.files EXCEPT ![meta.id] = Expanded(c)]
                               /\ size' = Len(Expanded(c))
                               /\ offset' = IF Len(c) = 0 THEN 0 ELSE r.woff
                               /\ fdOpen' = TRUE
                               /\ status' = "up"
    /\ UNCHANGED <<meta, appends, restarts, acked, deletedMax, cleaned>>

-----------------------------------------------------------------------------
(* LogStore::Append with GetFileFD, IncreaseFileID, OpenFile, ExpandFile, *)
(* and the index update of Database::Put after it.                        *)

\* The record of Append number st: its length word and instance id, then
\* the serialized state.
Record(st, i, sz) == <<HeadCell(st, i, sz)>> \o [k \in 1..(sz - 1) |-> BodyCell(st)]

\* write() of cells w at offset o of file content c.
Written(c, o, w) ==
    [k \in 1..Len(c) |-> IF o < k /\ k <= o + Len(w) THEN w[k - o] ELSE c[k]]

\* GetFileFD: the record does not fit behind the write offset.
NeedNewFileNoSize(sz) == offset > size
NeedNewFile(sz) == offset + sz > size

\* The write of the record at offset o of file f whose content before is
\* fs[f], the fdatasync, and the offset advance with the index update.  A
\* short write leaves a prefix of the record, possibly cut inside its head;
\* a failed fdatasync leaves all of it; both return -1 with the write
\* offset where it was.
WriteRecord(f, o, i, sz, sync, fs) ==
    LET st  == appends + 1
        rec == Record(st, i, sz)
    IN  \/ /\ "write" \in Failing
           /\ \E w \in {SubSeq(rec, 1, k) : k \in 0..(sz - 1)} \cup {<<TornCell(st, sz)>>} :
                files' = [fs EXCEPT ![f] = Written(@, o, w)]
           /\ offset' = o
           /\ UNCHANGED <<index, acked>>
        \/ /\ files' = [fs EXCEPT ![f] = Written(@, o, rec)]
           /\ \/ /\ sync /\ "datasync" \in Failing
                 /\ offset' = o
                 /\ UNCHANGED <<index, acked>>
              \/ /\ offset' = o + sz
                 /\ index' = [index EXCEPT ![i] = [file |-> f, off |-> o, stamp |-> st]]
                 /\ acked' = [acked EXCEPT ![i] = st]

\* IncreaseFileID: write the new id and its checksum to the meta file and
\* fsync it, then m_iFileID++.  The outcomes when a call fails: the id not
\* written; the id written with the old checksum beside it; both written
\* but fsync failing.  The caller has closed the file already.
IncreaseFileIDFails ==
    LET new == fileID + 1
    IN  \/ /\ "metaWrite" \in Failing /\ meta' = meta
        \/ /\ "metaChecksum" \in Failing
           /\ meta' = [id |-> new, sum |-> IF meta.sum = "none" THEN "none" ELSE "bad"]
        \/ /\ "metaSync" \in Failing /\ meta' = [id |-> new, sum |-> "ok"]

\* GetFileFD when the record does not fit: close the file, IncreaseFileID,
\* open the new file, assert it is empty, ExpandFile, then write to it.
NewFile(i, sz, sync) ==
    LET new == fileID + 1
    IN  /\ new <= MaxFileID
        /\ \/ /\ IncreaseFileIDFails
              /\ fdOpen' = FALSE
              /\ UNCHANGED <<exists, files, fileID, offset, size, index, status, acked>>
           \/ /\ meta' = [id |-> new, sum |-> "ok"]
              /\ fileID' = new
              /\ \/ /\ "open" \in Failing
                    /\ fdOpen' = FALSE
                    /\ UNCHANGED <<exists, files, offset, size, index, status, acked>>
                 \/ /\ exists' = exists \cup {new}
                    /\ \/ /\ Len(files[new]) # 0
                          /\ status' = "down"
                          /\ fdOpen' = FALSE
                          /\ UNCHANGED <<files, offset, size, index, acked>>
                       \/ /\ Len(files[new]) = 0 /\ "expand" \in Failing
                          /\ fdOpen' = FALSE
                          /\ UNCHANGED <<files, offset, size, index, status, acked>>
                       \/ /\ Len(files[new]) = 0
                          /\ size' = FileCap
                          /\ fdOpen' = TRUE
                          /\ WriteRecord(new, 0, i, sz, sync,
                                         [files EXCEPT ![new] = Expanded(@)])
                          /\ UNCHANGED status

\* LogStore::Append of the state of instance i in a record of sz cells,
\* with bSync = sync.  The acceptor writes its current instance, which does
\* not go back.
LogStoreAppend(i, sz, sync) ==
    /\ status = "up"
    /\ appends < MaxAppends
    /\ lastInst <= i
    /\ appends' = appends + 1
    /\ lastInst' = i
    /\ \/ /\ ~fdOpen
          /\ UNCHANGED <<meta, exists, files, fileID, fdOpen, offset, size, index,
                         status, acked>>
       \/ /\ fdOpen /\ ~NeedNewFile(sz)
          /\ WriteRecord(fileID, offset, i, sz, sync, files)
          /\ UNCHANGED <<meta, exists, fileID, fdOpen, size, status>>
       \/ /\ fdOpen /\ NeedNewFile(sz)
          /\ NewFile(i, sz, sync)
    /\ UNCHANGED <<restarts, deletedMax, cleaned>>

\* The process dies (kill, abort, power kept); what was written stays.  The
\* next process constructs a new LogStore, with m_iDeletedMaxFileID = -1.
Crash ==
    /\ status = "up"
    /\ restarts < MaxRestarts
    /\ restarts' = restarts + 1
    /\ status' = "down"
    /\ fdOpen' = FALSE
    /\ deletedMax' = -1
    /\ UNCHANGED <<meta, exists, files, fileID, offset, size, index, appends,
                   lastInst, acked, cleaned>>

-----------------------------------------------------------------------------
(* LogStore::Del and DeleteFile, called by the checkpoint cleaner.        *)

\* DeleteFile(f): the first call takes the files more than 2000 ids back as
\* deleted already; files up to m_iDeletedMaxFileID are skipped; the loop
\* then removes the files from m_iDeletedMaxFileID + 1 to f in turn, a file
\* that no longer exists counting as removed, and stops at the first
\* remove() that fails.  stop is the file whose remove() fails, or f + 1.
DeleteFile(f) ==
    LET start == IF deletedMax = -1 /\ f - 2000 > 0 THEN f - 2000 ELSE deletedMax
    IN  IF f <= start
        THEN /\ deletedMax' = start
             /\ UNCHANGED <<exists, files>>
        ELSE \E stop \in {k \in start + 1..f + 1 :
                            k = f + 1 \/ ("remove" \in Failing /\ k \in exists)} :
               LET gone == start + 1..stop - 1
               IN  /\ exists' = exists \ gone
                   /\ files' = [g \in FileIDs |-> IF g \in gone THEN <<>> ELSE files[g]]
                   /\ deletedMax' = stop - 1

\* LogStore::Del(sFileID), given the file id the index holds for instance i
\* by Database::Del (not under src/), which the cleaner calls for the
\* instances below its checkpoint in increasing order.  A file id past
\* m_iFileID is refused; otherwise the files before the record's file are
\* deleted.
LogStoreDel(i) ==
    LET l == index[i]
    IN  /\ status = "up"
        /\ l # NoLoc
        /\ cleaned' = IF i > cleaned THEN i ELSE cleaned
        /\ IF l.file > fileID \/ l.file = 0
           THEN UNCHANGED <<exists, files, deletedMax>>
           ELSE DeleteFile(l.file - 1)
        /\ UNCHANGED <<meta, fileID, fdOpen, offset, size, index, status, appends,
                       restarts, lastInst, acked>>

\* The run stops here: the bounds are spent (the appends or the file ids),
\* or Init has refused the files, after which the store never starts again.
Exhausted ==
    /\ \/ status = "failed"
       \/ /\ status = "up" /\ restarts = MaxRestarts
          /\ (appends = MaxAppends \/ fileID = MaxFileID)
    /\ UNCHANGED logVars

LogNext ==
    \/ LogStoreInit
    \/ \E i \in Insts, sz \in Sizes, sync \in BOOLEAN : LogStoreAppend(i, sz, sync)
    \/ Crash
    \/ \E i \in Insts : LogStoreDel(i)
    \/ Exhausted

LogSpec == LogInit /\ [][LogNext]_logVars

-----------------------------------------------------------------------------
(* Properties.                                                            *)

\* After any sequence of Appends, failed calls and process crashes that
\* LogStore itself produced, LogStore::Init accepts the files again: the
\* meta file, RebuildIndex and RebuildIndexForOneFile never refuse them.
RestartSucceeds == status # "failed"

\* While the store is up, the record of every Append that returned 0 can
\* be read through the index: LogStore::Read of the file id that the index
\* holds for the instance finds a whole record of that instance with a
\* matching checksum, written by that Append or a later one of the same
\* instance.  This is what AcceptorState::Load relies on after a restart.
\* The instances below the last one passed to Del are exempt: the cleaner
\* has deleted them; Del of an instance must keep its own record.
AckedReadable ==
    status = "up" =>
        \A i \in Insts :
            acked[i] > 0 /\ i >= cleaned =>
                /\ ReadOK(index[i])
                /\ CellAt(files[index[i].file], index[i].off).inst = i
                /\ index[i].stamp >= acked[i]

=============================================================================
