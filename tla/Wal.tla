-------------------------------- MODULE Wal --------------------------------
(***************************************************************************)
(* The write-ahead log: wal::WalWriter and wal::WalReader over an          *)
(* io::MmapFile, with the ways a writer can end.                           *)
(*                                                                         *)
(* The file is an array of cells.  A record is HeaderCells header cells    *)
(* and its payload: the magic (with version and header size), the payload  *)
(* size, the sequence number and timestamp, the checksum.  Zero is a cell  *)
(* of zero bytes: a payload size of 0 is one, and payload cells may be.    *)
(* The checksum is the checked contents itself: CRC-32 collisions are not  *)
(* modelled.                                                               *)
(*                                                                         *)
(* mem is what every process of the machine sees (the shared mapping),     *)
(* disk what survives a power loss.  The system writes pages back whenever *)
(* it likes, each on its own; msync writes all of them.                    *)
(***************************************************************************)
EXTENDS Integers, Sequences, Functions

CONSTANTS FileSize,     \* file_size_bytes, in cells
          PageSize,     \* cells written back together
          Payload,      \* the payloads appended, sequences of cells
          MaxPayload,   \* max_payload_size, in cells
          MaxAttempts   \* bound on the number of appends that copy bytes

HeaderCells == 4

ASSUME SizeAssumption ==
  /\ FileSize \in Nat /\ PageSize \in Nat \ {0}
  /\ MaxPayload \in Nat /\ MaxAttempts \in Nat
  /\ FileSize >= HeaderCells

\* Whatever a payload holds: read as a payload size, it is a number.
ASSUME PayloadAssumption ==
  \A p \in Payload : p \in Seq(Range(p)) /\ \A k \in DOMAIN p : p[k][2] \in Nat

Offsets == 0 .. FileSize - 1
Pages == 0 .. (FileSize - 1) \div PageSize

Zero == <<"zero", 0>>

VARIABLES mem, disk,          \* the file
          wstate,             \* "none", "idle", "copy" (inside append), "closed"
          flushOnAppend,      \* flush_on_append_
          currentOffset, nextSequence, recordsWritten,
          record, todo,       \* in append: the record, the cells still to copy
          ropen, roffset, recordsRead,       \* the reader
          header,             \* in next(): the header it has copied, or <<>>
          appended,           \* history: records whose append returned ok
          synced,             \* history: how many of them a flush has covered
          tried,              \* history: records copied at currentOffset
          attempts,           \* history: number of appends that copied
          flushFailed,        \* history: a flush inside append has failed
          powerLost,          \* history: this file went through a power loss
          delivered           \* history: records the reader returned

fileVars == <<mem, disk>>
writerVars == <<wstate, flushOnAppend, currentOffset, nextSequence, recordsWritten,
                record, todo>>
readerVars == <<ropen, roffset, recordsRead, header, delivered>>
historyVars == <<appended, synced, tried, attempts, flushFailed, powerLost>>
vars == <<fileVars, writerVars, readerVars, historyVars>>

(***************************************************************************)
(* Records and their cells.                                                *)
(***************************************************************************)
SizeCell(n) == IF n = 0 THEN Zero ELSE <<"size", n>>
SizeOf(cell) == cell[2]
MetaCell(r) == <<"meta", r.sequence, r.timestamp>>

Checksum(size, meta, payload) == <<"crc", size, meta, payload>>

serialize(r) ==
  LET size == Len(r.payload)
  IN  <<<<"magic", 1>>, SizeCell(size), MetaCell(r), Checksum(size, MetaCell(r), r.payload)>>
        \o r.payload

record_total_size(size) == HeaderCells + size

is_zero_filled(f, o) == \A i \in o .. FileSize - 1 : f[i] = Zero

\* deserialize_header, and the payload cells that follow a header of that size.
HeaderAt(f, o) == [i \in 1 .. HeaderCells |-> f[o + i - 1]]
PayloadAt(f, o, size) == [i \in 1 .. size |-> f[o + HeaderCells + i - 1]]

validate_header_shape(h) == h[1][1] = "magic" /\ SizeOf(h[2]) <= MaxPayload

validate_record_checksum(h, payload) == h[4] = Checksum(SizeOf(h[2]), h[3], payload)

\* WalReader::next() on the file f at offset o, up to the copy of the header:
\* the status it returns, or "ok" if it goes on to the payload.
HeaderStatus(f, o) ==
  LET remaining == FileSize - o
      h == HeaderAt(f, o)
  IN  IF remaining < HeaderCells \/ is_zero_filled(f, o) THEN "empty"
      ELSE IF ~validate_header_shape(h) THEN "corrupted_record"
      ELSE IF record_total_size(SizeOf(h[2])) > remaining THEN "empty"
      ELSE "ok"

\* The rest of next(), with the header h copied before.
PayloadStatus(f, o, h) ==
  IF validate_record_checksum(h, PayloadAt(f, o, SizeOf(h[2]))) THEN "ok" ELSE "corrupted_record"

\* A next() that no append of another process interleaves.
NextStatus(f, o) ==
  IF HeaderStatus(f, o) = "ok" THEN PayloadStatus(f, o, HeaderAt(f, o)) ELSE HeaderStatus(f, o)

NextRecord(f, o, h) ==
  [sequence |-> h[3][2], timestamp |-> h[3][3], payload |-> PayloadAt(f, o, SizeOf(h[2]))]

NextOffset(o, h) == o + record_total_size(SizeOf(h[2]))

\* WalReader::replay() of the file f from the offset o on: the records
\* visited, the status next() ended it with, and the offset where it stopped.
ReplayFrom(f) ==
  LET from[o \in 0 .. FileSize] ==
        IF NextStatus(f, o) # "ok"
          THEN [records |-> <<>>, status |-> NextStatus(f, o), end |-> o]
          ELSE LET h == HeaderAt(f, o)
                   rest == from[NextOffset(o, h)]
               IN  [rest EXCEPT !.records = <<NextRecord(f, o, h)>> \o @]
  IN  from

Replay(f) == ReplayFrom(f)[0]

-----------------------------------------------------------------------------
Init ==
  /\ mem = [i \in Offsets |-> Zero] /\ disk = mem
  /\ wstate = "none" /\ flushOnAppend = FALSE
  /\ currentOffset = 0 /\ nextSequence = 0 /\ recordsWritten = 0
  /\ record = <<>> /\ todo = {}
  /\ ropen = FALSE /\ roffset = 0 /\ recordsRead = 0 /\ header = <<>> /\ delivered = <<>>
  /\ appended = <<>> /\ synced = 0 /\ tried = {}
  /\ attempts = 0 /\ flushFailed = FALSE /\ powerLost = FALSE

(***************************************************************************)
(* The writer.                                                             *)
(***************************************************************************)

\* O_TRUNC: the previous contents of the path are gone.
Create ==
  /\ wstate \in {"none", "closed"} /\ ~ropen
  /\ wstate' = "idle"
  /\ flushOnAppend' \in BOOLEAN
  /\ mem' = [i \in Offsets |-> Zero] /\ disk' = mem'
  /\ currentOffset' = 0 /\ nextSequence' = 0 /\ recordsWritten' = 0
  /\ appended' = <<>> /\ synced' = 0 /\ tried' = {}
  /\ flushFailed' = FALSE /\ powerLost' = FALSE
  /\ UNCHANGED <<record, todo, attempts, readerVars>>

\* ftruncate or mmap fails when O_TRUNC has emptied the file: the old log is
\* gone, and what is left has no size, or is all zeros.
CreateFails ==
  /\ wstate \in {"none", "closed"} /\ ~ropen
  /\ wstate' \in {"none", "closed"}
  /\ mem' = [i \in Offsets |-> Zero] /\ disk' = mem'
  /\ currentOffset' = 0 /\ nextSequence' = 0 /\ recordsWritten' = 0
  /\ appended' = <<>> /\ synced' = 0 /\ tried' = {}
  /\ flushFailed' = FALSE /\ powerLost' = FALSE
  /\ UNCHANGED <<flushOnAppend, record, todo, attempts, readerVars>>

remaining_space_ignores_offset == FileSize
remaining_space == FileSize - currentOffset

\* append, up to the first memcpy; a refused message changes nothing.
AppendRefused(p) ==
  /\ wstate = "idle"
  /\ Len(p) > MaxPayload \/ record_total_size(Len(p)) > remaining_space
  /\ UNCHANGED vars

AppendStart(p) ==
  /\ wstate = "idle" /\ attempts < MaxAttempts
  /\ Len(p) <= MaxPayload
  /\ record_total_size(Len(p)) <= remaining_space
  /\ record' = [sequence |-> nextSequence, timestamp |-> attempts + 1, payload |-> p]
  /\ todo' = currentOffset .. currentOffset + record_total_size(Len(p)) - 1
  /\ attempts' = attempts + 1
  /\ tried' = tried \cup {record'}
  /\ wstate' = "copy"
  /\ UNCHANGED <<fileVars, flushOnAppend, currentOffset, nextSequence, recordsWritten,
                 readerVars, appended, synced, flushFailed, powerLost>>

\* The two memcpy calls: the header before the payload, the cells of one
\* call in any order.
CopyCell(i) ==
  /\ wstate = "copy" /\ i \in todo
  /\ i >= currentOffset + HeaderCells =>
       \A j \in todo : j >= currentOffset + HeaderCells
  /\ mem' = [mem EXCEPT ![i] = serialize(record)[i - currentOffset + 1]]
  /\ todo' = todo \ {i}
  /\ UNCHANGED <<disk, wstate, flushOnAppend, currentOffset, nextSequence, recordsWritten,
                 record, readerVars, historyVars>>

AppendOkNoHeader ==
  /\ wstate = "copy" /\ todo = {}
  /\ disk' = IF flushOnAppend THEN mem ELSE disk
  /\ synced' = IF flushOnAppend THEN Len(appended) + 1 ELSE synced
  /\ currentOffset' = currentOffset + Len(record.payload)
  /\ nextSequence' = nextSequence + 1
  /\ recordsWritten' = recordsWritten + 1
  /\ appended' = Append(appended, record)
  /\ tried' = {}
  /\ wstate' = "idle"
  /\ record' = <<>>
  /\ UNCHANGED <<mem, flushOnAppend, todo, readerVars, attempts, flushFailed, powerLost>>
AppendOk ==
  /\ wstate = "copy" /\ todo = {}
  /\ disk' = IF flushOnAppend THEN mem ELSE disk
  /\ synced' = IF flushOnAppend THEN Len(appended) + 1 ELSE synced
  /\ currentOffset' = currentOffset + record_total_size(Len(record.payload))
  /\ nextSequence' = nextSequence + 1
  /\ recordsWritten' = recordsWritten + 1
  /\ appended' = Append(appended, record)
  /\ tried' = {}
  /\ wstate' = "idle"
  /\ record' = <<>>
  /\ UNCHANGED <<mem, flushOnAppend, todo, readerVars, attempts, flushFailed, powerLost>>

\* msync fails: append returns its error with the bytes in place and
\* current_offset_ where it was.
AppendFlushFails ==
  /\ wstate = "copy" /\ todo = {} /\ flushOnAppend
  /\ wstate' = "idle"
  /\ record' = <<>>
  /\ flushFailed' = TRUE
  /\ UNCHANGED <<fileVars, flushOnAppend, currentOffset, nextSequence, recordsWritten, todo,
                 readerVars, appended, synced, tried, attempts, powerLost>>

FlushNothing ==
  /\ wstate = "idle"
  /\ synced' = Len(appended)
  /\ UNCHANGED <<fileVars, writerVars, readerVars, appended, tried, attempts, flushFailed,
                 powerLost>>
Flush ==
  /\ wstate = "idle"
  /\ disk' = mem
  /\ synced' = Len(appended)
  /\ UNCHANGED <<mem, writerVars, readerVars, appended, tried, attempts, flushFailed,
                 powerLost>>

(***************************************************************************)
(* The system, and the ways a writer ends.  flush_on_destroy is set for    *)
(* the writer's file; the destructor ignores whether its msync worked.     *)
(***************************************************************************)
WriteBack(page) ==
  /\ disk' = [i \in Offsets |-> IF i \div PageSize = page THEN mem[i] ELSE disk[i]]
  /\ UNCHANGED <<mem, writerVars, readerVars, historyVars>>

Closing ==
  /\ wstate' = "closed"
  /\ record' = <<>> /\ todo' = {}
  /\ UNCHANGED <<flushOnAppend, currentOffset, nextSequence, recordsWritten,
                 appended, synced, tried, attempts, flushFailed>>

Close ==
  /\ wstate = "idle"
  /\ disk' \in {mem, disk}
  /\ Closing
  /\ UNCHANGED <<mem, readerVars, powerLost>>

\* The process is killed: the pages outlive it.
Kill ==
  /\ wstate \in {"idle", "copy"}
  /\ Closing
  /\ UNCHANGED <<fileVars, readerVars, powerLost>>

PowerLoss ==
  /\ wstate # "none" /\ ~powerLost
  /\ mem' = disk
  /\ powerLost' = TRUE
  /\ Closing
  /\ ropen' = FALSE /\ roffset' = 0 /\ recordsRead' = 0 /\ header' = <<>> /\ delivered' = <<>>
  /\ UNCHANGED disk

(***************************************************************************)
(* The reader, in any process and at any time: also in the middle of an    *)
(* append, with the writer going on between its copy of the header and its *)
(* check of the payload.                                                   *)
(***************************************************************************)
ReaderOpen ==
  /\ wstate # "none" /\ ~ropen
  /\ ropen' = TRUE
  /\ UNCHANGED <<fileVars, writerVars, roffset, recordsRead, header, delivered, historyVars>>

NextHeader ==
  /\ ropen /\ header = <<>>
  /\ header' = IF HeaderStatus(mem, roffset) = "ok" THEN HeaderAt(mem, roffset) ELSE <<>>
  /\ UNCHANGED <<fileVars, writerVars, ropen, roffset, recordsRead, delivered, historyVars>>

\* The offset moves before the payload is checked.
NextPayloadMovesFirst ==
  /\ header # <<>>
  /\ IF PayloadStatus(mem, roffset, header) = "ok"
     THEN /\ delivered' = Append(delivered, NextRecord(mem, roffset, header))
          /\ recordsRead' = recordsRead + 1
     ELSE UNCHANGED <<delivered, recordsRead>>
  /\ roffset' = NextOffset(roffset, header)
  /\ header' = <<>>
  /\ UNCHANGED <<fileVars, writerVars, ropen, historyVars>>
NextPayload ==
  /\ header # <<>>
  /\ IF PayloadStatus(mem, roffset, header) = "ok"
     THEN /\ delivered' = Append(delivered, NextRecord(mem, roffset, header))
          /\ roffset' = NextOffset(roffset, header)
          /\ recordsRead' = recordsRead + 1
     ELSE UNCHANGED <<delivered, roffset, recordsRead>>
  /\ header' = <<>>
  /\ UNCHANGED <<fileVars, writerVars, ropen, historyVars>>

ReaderResetKeepsOffset ==
  /\ ropen /\ header = <<>>
  /\ recordsRead' = 0 /\ delivered' = <<>>
  /\ UNCHANGED <<fileVars, writerVars, ropen, roffset, header, historyVars>>
ReaderReset ==
  /\ ropen /\ header = <<>>
  /\ roffset' = 0 /\ recordsRead' = 0 /\ delivered' = <<>>
  /\ UNCHANGED <<fileVars, writerVars, ropen, header, historyVars>>

ReaderClose ==
  /\ ropen /\ header = <<>>
  /\ ropen' = FALSE /\ roffset' = 0 /\ recordsRead' = 0 /\ delivered' = <<>>
  /\ UNCHANGED <<fileVars, writerVars, header, historyVars>>

Next ==
  \/ Create \/ CreateFails
  \/ \E p \in Payload : AppendRefused(p) \/ AppendStart(p)
  \/ \E i \in Offsets : CopyCell(i)
  \/ AppendOk \/ AppendFlushFails
  \/ Flush
  \/ \E page \in Pages : WriteBack(page)
  \/ Close \/ Kill \/ PowerLoss
  \/ ReaderOpen \/ NextHeader \/ NextPayload \/ ReaderReset \/ ReaderClose

Spec == Init /\ [][Next]_vars

-----------------------------------------------------------------------------
SizeCells == {<<"size", n>> : n \in 1 .. MaxPayload}
PayloadCells == UNION {Range(p) : p \in Payload}
MetaCells == {<<"meta", q, t>> : q \in 0 .. MaxAttempts, t \in 1 .. MaxAttempts}
ChecksumCells == {Checksum(Len(p), m, p) : p \in Payload, m \in MetaCells}
Cell == {Zero, <<"magic", 1>>} \cup SizeCells \cup PayloadCells \cup MetaCells \cup ChecksumCells

Record == [sequence : 0 .. MaxAttempts, timestamp : 1 .. MaxAttempts, payload : Payload]

\* Every variable has its type; no offset passes the end of the file, and
\* records_read_ counts the records returned.
TypeOK ==
  /\ mem \in [Offsets -> Cell] /\ disk \in [Offsets -> Cell]
  /\ wstate \in {"none", "idle", "copy", "closed"} /\ flushOnAppend \in BOOLEAN
  /\ currentOffset \in 0 .. FileSize /\ todo \in SUBSET Offsets
  /\ nextSequence \in 0 .. MaxAttempts /\ recordsWritten \in 0 .. MaxAttempts
  /\ record \in Record \cup {<<>>}
  /\ roffset \in 0 .. FileSize /\ recordsRead = Len(delivered) /\ ropen \in BOOLEAN
  /\ appended \in Seq(Record) /\ synced \in 0 .. Len(appended) /\ tried \in SUBSET Record
  /\ attempts \in 0 .. MaxAttempts
  /\ flushFailed \in BOOLEAN /\ powerLost \in BOOLEAN

IsHeaderCell(c) == c[1] \in {"magic", "crc"}

\* No payload holds what looks like the magic or the checksum of a record.
DataPayloads == \A p \in Payload : \A k \in DOMAIN p : ~IsHeaderCell(p[k])

\* A PersistentBroker appends sizeof(T) bytes, always.
SameSize == \A p, q \in Payload : Len(p) = Len(q)

Log == INSTANCE DurableLog
  WITH acked <- appended, stored <- Replay(mem).records, up <- wstate \in {"idle", "copy"},
       garbled <- flushFailed /\ ~(DataPayloads \/ SameSize)

(***************************************************************************)
(* The log implements DurableLog: a replay returns the acknowledged        *)
(* records in order, at most one more, and a writer's end costs only       *)
(* unflushed records from the end, whichever pages reached the disk.       *)
(* After a failed flush inside append the bytes a shorter record leaves    *)
(* behind it may read as records never appended, but only if payloads      *)
(* differ in size and one of them holds what looks like a header (no       *)
(* payload of the run does; the proof covers those that do).               *)
(***************************************************************************)
ImplementsDurableLog == Log!LogSpec

(***************************************************************************)
(* When no flush has failed inside append, a replay of the writer's file   *)
(* between two calls visits exactly the appended records, numbered from 0, *)
(* and ends with empty, which replay() reports as ok.                      *)
(***************************************************************************)
CleanReplay ==
  wstate = "idle" /\ ~flushFailed =>
    /\ Replay(mem) = [records |-> appended, status |-> "empty", end |-> currentOffset]
    /\ \A i \in DOMAIN appended : appended[i].sequence = i - 1

(***************************************************************************)
(* A reader left open while the writer goes on returns the same records as *)
(* a fresh replay, none skipped, none twice, whatever it saw in the middle *)
(* of an append, as long as append never had to give up bytes it had       *)
(* copied.                                                                 *)
(***************************************************************************)
ReaderFollows ==
  ropen /\ ~flushFailed =>
    LET records == Replay(mem).records
    IN  \E n \in 0 .. Len(records) : delivered = SubSeq(records, 1, n)

(***************************************************************************)
(* A corrupted_record that next() returned because it met a record half    *)
(* copied is passing: as soon as the append has returned, the next call    *)
(* returns that record, and an empty means that there is none.             *)
(***************************************************************************)
ReaderCatchesUp ==
  ropen /\ wstate = "idle" /\ ~flushFailed =>
    NextStatus(mem, roffset) = IF Len(delivered) < Len(appended) THEN "ok" ELSE "empty"

(***************************************************************************)
(* docs/wal-format.md and the comment in WalReader::next(): a log whose    *)
(* writer ended in the middle of an append is read to a clean stop.        *)
(***************************************************************************)
TornTailIsCleanStop ==
  wstate = "closed" /\ ~flushFailed => Replay(mem).status = "empty"

(***************************************************************************)
(* docs/wal-format.md: the bytes after the last complete record are zero,  *)
(* between any two calls of the writer.                                    *)
(***************************************************************************)
ZeroFilledTail == wstate = "idle" => is_zero_filled(mem, Replay(mem).end)

-----------------------------------------------------------------------------
(***************************************************************************)
(* The inductive invariant: where the records lie in the file.             *)
(***************************************************************************)
Total(r) == record_total_size(Len(r.payload))

\* The offset of each record of s, one after another, and that of their end.
Start(s) ==
  LET start[k \in 0 .. Len(s)] == IF k = 0 THEN 0 ELSE start[k - 1] + Total(s[k])
  IN  start

\* All cells of r are in f at o; none is there that is not of r.
Laid(f, o, r) == \A j \in 1 .. Total(r) : f[o + j - 1] = serialize(r)[j]
Partly(f, o, r) == \A j \in 1 .. Total(r) : f[o + j - 1] \in {Zero, serialize(r)[j]}

Writable == {r \in Record : Len(r.payload) <= MaxPayload}

\* The variables of the writer among themselves.
WriterInv ==
  /\ appended \in Seq(Writable) /\ tried \in SUBSET Writable
  /\ nextSequence = Len(appended) /\ recordsWritten = Len(appended)
  /\ \A k \in 1 .. Len(appended) : appended[k].sequence = k - 1
  /\ currentOffset = Start(appended)[Len(appended)]
  /\ IF wstate = "copy"
     THEN /\ record \in tried /\ record.sequence = Len(appended)
          /\ Len(appended) < attempts
          /\ currentOffset + Total(record) <= FileSize
          /\ todo \subseteq currentOffset .. currentOffset + Total(record) - 1
     ELSE record = <<>> /\ todo = {} /\ Len(appended) <= attempts
  /\ flushFailed => flushOnAppend
  /\ flushOnAppend => synced = Len(appended)
  /\ ~flushFailed => \A r, s \in tried : r = s
  /\ ~flushFailed /\ wstate = "idle" => tried = {}
  /\ powerLost => wstate = "closed" /\ mem = disk

\* f holds the first n records of s, and of the others nothing else.
Stored(f, s, n) ==
  \A k \in 1 .. Len(s) :
    IF k <= n THEN Laid(f, Start(s)[k - 1], s[k]) ELSE Partly(f, Start(s)[k - 1], s[k])

\* From o on, f holds cells of the records of S and zeros.
TailOf(f, o, S) ==
  \A i \in o .. FileSize - 1 :
    \/ f[i] = Zero
    \/ \E r \in S : i < o + Total(r) /\ f[i] = serialize(r)[i - o + 1]

FileInv ==
  /\ Stored(mem, appended, IF powerLost THEN synced ELSE Len(appended))
  /\ Stored(disk, appended, synced)
  /\ ~flushFailed => TailOf(mem, currentOffset, tried) /\ TailOf(disk, currentOffset, tried)
  /\ wstate = "copy" =>
       \A i \in (currentOffset .. currentOffset + Total(record) - 1) \ todo :
         mem[i] = serialize(record)[i - currentOffset + 1]

\* Appends whose flush failed leave other cells behind; the only ones that
\* can start or check a record are of a record written at o.
HeadersOf(f, o, S) ==
  \A i \in o .. FileSize - 1 :
    \/ ~IsHeaderCell(f[i])
    \/ \E r \in S : i < o + Total(r) /\ f[i] = serialize(r)[i - o + 1]

HeaderInv ==
  DataPayloads \/ SameSize =>
    HeadersOf(mem, currentOffset, tried) /\ HeadersOf(disk, currentOffset, tried)

\* The reader stands after the records it has returned, which are records of
\* the writer; a header it has copied can only have cells the file still has.
ReaderTypes ==
  /\ delivered \in Seq(Range(delivered))
  /\ ~ropen => roffset = 0 /\ delivered = <<>> /\ header = <<>>
  /\ header # <<>> =>
       /\ header \in [1 .. HeaderCells -> Cell] /\ validate_header_shape(header)
       /\ NextOffset(roffset, header) <= FileSize

ReaderInv ==
  ~flushFailed =>
    /\ \/ Len(delivered) <= Len(appended) /\ delivered = SubSeq(appended, 1, Len(delivered))
       \/ \E r \in tried : delivered = Append(appended, r)
    /\ roffset = Start(delivered)[Len(delivered)]
    /\ Stored(mem, delivered, Len(delivered))
    /\ header # <<>> =>
         \A j \in 1 .. HeaderCells : header[j] \in {Zero, mem[roffset + j - 1]}

WalInv == TypeOK /\ WriterInv /\ FileInv /\ HeaderInv /\ ReaderTypes /\ ReaderInv

=============================================================================
