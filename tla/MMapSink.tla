------------------------------- MODULE MMapSink -------------------------------
(***************************************************************************)
(* The memory-mapped file writer MMapSink (src/mmap_sink.cpp).             *)
(*                                                                         *)
(* One thread at a time calls the sink: the drain thread, then, once it is *)
(* joined, the thread in Logger::shutdown.  What makes it hard is that     *)
(* every operation is a chain of system calls, any of which may fail and   *)
(* between any two of which the process may die, and that the next process *)
(* appends to the files it finds.  So one action is one system call on the *)
(* files (or the memcpy), with the bookkeeping up to the next one.         *)
(*                                                                         *)
(* A file is a sequence of cells, a cell the unit that record and region   *)
(* sizes are multiples of: the number of the record it belongs to, or 0    *)
(* for the zero bytes ftruncate adds.  Name 0 is the base path, name n the *)
(* rotated file <base path>.n.                                             *)
(***************************************************************************)
EXTENDS Integers, Sequences

CONSTANTS
  REGION,       \* region_size_
  MAX_FILE,     \* max_file_size_
  MAX_ROTATED,  \* max_rotated_
  PAGE,         \* the page size: mmap refuses an offset it does not divide
  Lens,         \* lengths of the records written
  Faults,       \* system calls that may fail: "open", "fstat", "ftruncate", "mmap",
                \* "unlink", "rename"
  Crashes,      \* whether the process may die at any point
  NoFile,       \* the content of a name that does not exist
  MaxWrites,    \* bound: calls of write, over all processes
  MaxLives,     \* bound: constructions of the sink
  MaxFlushes    \* bound: calls of flush, over all processes

\* With max_rotated_ = 0 the loop of rotate_files starts at SIZE_MAX, and a
\* record longer than a region is copied past its end: neither is configured.
ASSUME SinkAssumption ==
  /\ REGION \in Nat \ {0}
  /\ MAX_FILE \in Nat
  /\ MAX_ROTATED \in Nat \ {0}
  /\ PAGE \in Nat \ {0}
  /\ Lens \subseteq 1 .. REGION
  /\ Faults \subseteq {"open", "fstat", "ftruncate", "mmap", "unlink", "rename"}
  /\ Crashes \in BOOLEAN
  /\ NoFile \notin Seq(Nat)
  /\ MaxWrites \in Nat
  /\ MaxLives \in Nat
  /\ MaxFlushes \in Nat

VARIABLES
  files,           \* the file system: name -> content
  \* members of the object
  fd,              \* fd_ >= 0; the descriptor is always one of the base path
  mapped,          \* mmap_ptr_ # nullptr
  map_base,        \* file offset at which the region was mapped
  mmap_offset,
  file_offset,
  total_bytes_written,
  rotation_count,
  \* the call under way
  pc,
  cur,             \* data.size() of the write under way, 0 when there is none
  rot,             \* loop index of rotate_files
  \* history, read by no guard but the bounds
  lens,            \* length of each record passed to write, in order
  accepted,        \* records for which write returned their length
  refused,         \* records for which write returned 0
  synced,          \* records an msync(MS_SYNC) covered
  stuck,           \* names whose file a rename failed to move
  lives,           \* sinks constructed so far
  flushes          \* calls of flush so far

members == <<fd, mapped, map_base, mmap_offset, file_offset,
             total_bytes_written, rotation_count>>
history == <<lens, accepted, refused, synced, stuck, lives, flushes>>
vars    == <<files, fd, mapped, map_base, mmap_offset, file_offset,
             total_bytes_written, rotation_count, pc, cur, rot,
             lens, accepted, refused, synced, stuck, lives, flushes>>

Names    == 0 .. MAX_ROTATED
Exists(n) == files[n] # NoFile
Base     == files[0]

May(call) == IF call \in Faults THEN BOOLEAN ELSE {FALSE}

Goto(from, to) == pc = from /\ pc' = to

\* ftruncate: cut or zero-filled to n cells
Resize(f, n) == [k \in 1 .. n |-> IF k <= Len(f) THEN f[k] ELSE 0]

\* memcpy of d cells of record r at offset o
Paste(f, o, r, d) == [k \in 1 .. Len(f) |-> IF k \in o + 1 .. o + d THEN r ELSE f[k]]

Record == Len(lens)   \* the record being written

-----------------------------------------------------------------------------
NoMapping == mapped' = FALSE /\ map_base' = 0 /\ mmap_offset' = 0

Init ==
  /\ files = [n \in Names |-> NoFile]
  /\ fd = FALSE /\ mapped = FALSE
  /\ map_base = 0 /\ mmap_offset = 0 /\ file_offset = 0
  /\ total_bytes_written = 0 /\ rotation_count = 0
  /\ pc = "none" /\ cur = 0 /\ rot = 0
  /\ lens = <<>> /\ accepted = {} /\ refused = {} /\ synced = {}
  /\ stuck = {}
  /\ lives = 0 /\ flushes = 0

\* The constructor, in this or in a later process: open_file and map_region
\* follow.
Construct ==
  /\ pc \in {"none", "terminated"}
  /\ lives < MaxLives
  /\ lives' = lives + 1
  /\ pc' = "open"
  /\ UNCHANGED <<files, members, cur, rot, lens, accepted, refused, synced, stuck,
                 flushes>>

-----------------------------------------------------------------------------
(***************************************************************************)
(* open_file and map_region.                                               *)
(***************************************************************************)

\* No object survives: the constructor threw, the destructor ran, or the
\* process is gone.
Vanish(to) ==
  /\ pc' = to
  /\ fd' = FALSE
  /\ NoMapping
  /\ file_offset' = 0 /\ total_bytes_written' = 0 /\ rotation_count' = 0
  /\ cur' = 0 /\ rot' = 0

AppendAt_Start(f) == 0
\* where a sink goes on in the file it opened
AppendAt(f) == Len(f)

\* open(O_CREAT) succeeds; file_offset_ becomes the size fstat reports.
OpenFile ==
  /\ Goto("open", "extend")
  /\ files' = IF Exists(0) THEN files ELSE [files EXCEPT ![0] = <<>>]
  /\ fd' = TRUE
  /\ \E fails \in May("fstat") :
       file_offset' = IF fails THEN file_offset ELSE AppendAt(files'[0])
  /\ UNCHANGED <<mapped, map_base, mmap_offset, total_bytes_written,
                 rotation_count, cur, rot, history>>

\* It throws: out of the constructor, or out of the noexcept write, which
\* terminates the process.
OpenFails ==
  /\ pc = "open"
  /\ "open" \in Faults
  /\ Vanish(IF cur = 0 THEN "none" ELSE "terminated")
  /\ UNCHANGED <<files, history>>

\* map_region gives up: a write under way returns 0, a constructor finishes
\* with no region.
GiveUp ==
  /\ pc' = "ready"
  /\ cur' = 0
  /\ refused' = IF cur = 0 THEN refused ELSE refused \cup {Record}

ExtendFile ==
  /\ pc = "extend"
  /\ \E fails \in May("ftruncate") :
       IF fails
       THEN GiveUp /\ UNCHANGED files
       ELSE /\ files' = [files EXCEPT ![0] = Resize(@, file_offset + REGION)]
            /\ pc' = "map"
            /\ UNCHANGED <<cur, refused>>
  /\ UNCHANGED <<members, rot, lens, accepted, synced, stuck, lives, flushes>>

\* EINVAL for an offset that is not page-aligned, or any other reason
MapFails(fails) == fails \/ file_offset % PAGE # 0

MapRegion ==
  /\ pc = "map"
  /\ \E fails \in May("mmap") :
       IF MapFails(fails)
       THEN GiveUp /\ UNCHANGED <<mapped, map_base, mmap_offset>>
       ELSE /\ mapped' = TRUE
            /\ map_base' = file_offset
            /\ mmap_offset' = 0
            /\ pc' = IF cur = 0 THEN "ready" ELSE "copy"
            /\ UNCHANGED <<cur, refused>>
  /\ UNCHANGED <<files, fd, file_offset, total_bytes_written, rotation_count,
                 rot, lens, accepted, synced, stuck, lives, flushes>>

-----------------------------------------------------------------------------
(***************************************************************************)
(* write and rotate_files.                                                 *)
(***************************************************************************)
RegionFull_Early(len)    == mmap_offset + len >= REGION
RegionFull_OffByOne(len) == mmap_offset + len > REGION + 1
RegionFull(len) == mmap_offset + len > REGION

FileFull_Late(len) == file_offset > MAX_FILE
FileFull(len) == file_offset + len > MAX_FILE

WriteRefused(len) ==
  /\ ~mapped
  /\ refused' = refused \cup {Len(lens) + 1}
  /\ UNCHANGED <<members, pc, cur, rot>>

WriteInRegion(len) ==
  /\ mapped /\ ~RegionFull(len)
  /\ pc' = "copy"
  /\ cur' = len
  /\ UNCHANGED <<members, rot, refused>>

\* The region is unmapped (its msync is MS_ASYNC: it starts nothing and waits
\* for nothing), and the file goes on in a new region.
WriteInNewRegion(len) ==
  /\ mapped /\ RegionFull(len) /\ ~FileFull(len)
  /\ NoMapping
  /\ pc' = "extend"
  /\ cur' = len
  /\ UNCHANGED <<fd, file_offset, total_bytes_written, rotation_count, rot,
                 refused>>

\* The region is unmapped, the file closed and its rotation begun.
WriteInNewFile(len) ==
  /\ mapped /\ RegionFull(len) /\ FileFull(len)
  /\ NoMapping
  /\ fd' = FALSE
  /\ file_offset' = 0
  /\ rotation_count' = rotation_count + 1
  /\ pc' = "unlink"
  /\ cur' = len
  /\ UNCHANGED <<total_bytes_written, rot, refused>>

Write(len) ==
  /\ pc = "ready"
  /\ Len(lens) < MaxWrites
  /\ lens' = Append(lens, len)
  /\ \/ WriteRefused(len)
     \/ WriteInRegion(len)
     \/ WriteInNewRegion(len)
     \/ WriteInNewFile(len)
  /\ UNCHANGED <<files, accepted, synced, stuck, lives, flushes>>

\* rotate_files goes on whatever its unlink and renames return.
Unlink(n) ==
  \E fails \in May("unlink") :
    files' = IF fails THEN files ELSE [files EXCEPT ![n] = NoFile]

\* rename(2) replaces `to` if it exists; without `from` it has no effect
Moved(from, to) == [files EXCEPT ![to] = files[from], ![from] = NoFile]

Rename(from, to) ==
  \/ /\ Exists(from)
     /\ files' = Moved(from, to)
     /\ UNCHANGED stuck
  \/ /\ Exists(from) /\ "rename" \in Faults
     /\ stuck' = stuck \cup {from}
     /\ UNCHANGED files
  \/ /\ ~Exists(from)
     /\ UNCHANGED <<files, stuck>>

Oldest == MAX_ROTATED

UnlinkOldest ==
  /\ Goto("unlink", "shift")
  /\ Unlink(Oldest)
  /\ rot' = MAX_ROTATED - 1
  /\ UNCHANGED <<members, cur, history>>

Shifted_Ascending == MAX_ROTATED - rot
\* the name the loop renames in this iteration
Shifted == rot

NextIndex_Stuck == rot
NextIndex == rot - 1

ShiftFile ==
  /\ pc = "shift"
  /\ rot >= 1
  /\ Rename(Shifted, Shifted + 1)
  /\ rot' = NextIndex
  /\ UNCHANGED <<members, pc, cur, lens, accepted, refused, synced, lives, flushes>>

RenameBase ==
  /\ Goto("shift", "open")
  /\ rot = 0
  /\ Rename(0, 1)
  /\ UNCHANGED <<members, cur, rot, lens, accepted, refused, synced, lives, flushes>>

Advance_KeepFileOffset(len) == mmap_offset' = mmap_offset + len /\ file_offset' = file_offset
Advance(len) ==
  /\ mmap_offset' = mmap_offset + len
  /\ file_offset' = file_offset + len

\* memcpy, the three counters, `return len`
Copy ==
  /\ Goto("copy", "ready")
  /\ files' = [files EXCEPT ![0] = Paste(@, map_base + mmap_offset, Record, cur)]
  /\ Advance(cur)
  /\ total_bytes_written' = total_bytes_written + cur
  /\ accepted' = accepted \cup {Record}
  /\ cur' = 0
  /\ UNCHANGED <<fd, mapped, map_base, rotation_count, rot, lens, refused,
                 synced, stuck, lives, flushes>>

-----------------------------------------------------------------------------
(***************************************************************************)
(* flush, the destructor, and the end of the process.                      *)
(***************************************************************************)

\* Records whose cells lie in the part of the region written so far: all that
\* msync(MS_SYNC) is given.
InRegion ==
  IF mapped THEN {Base[k] : k \in map_base + 1 .. map_base + mmap_offset} ELSE {}

Flush ==
  /\ pc = "ready"
  /\ flushes < MaxFlushes
  /\ flushes' = flushes + 1
  /\ synced' = synced \cup InRegion
  /\ UNCHANGED <<files, members, pc, cur, rot, lens, accepted, refused, stuck, lives>>

\* ~MMapSink: flush, unmap_region, close_file
Destruct ==
  /\ pc = "ready"
  /\ Vanish("none")
  /\ synced' = synced \cup InRegion
  /\ UNCHANGED <<files, lens, accepted, refused, stuck, lives, flushes>>

\* The process dies.  What it stored in the mapping stays in the file: a
\* memcpy under way leaves the first cells of its record.
Crash ==
  /\ Crashes
  /\ pc \notin {"none", "terminated"}
  /\ IF pc = "copy"
     THEN \E d \in 0 .. cur - 1 :
            files' = [files EXCEPT ![0] = Paste(@, map_base + mmap_offset, Record, d)]
     ELSE UNCHANGED files
  /\ Vanish("none")
  /\ UNCHANGED history

-----------------------------------------------------------------------------
\* The steps a call takes by itself once it is under way.
CallStep ==
  \/ OpenFile
  \/ OpenFails
  \/ ExtendFile
  \/ MapRegion
  \/ UnlinkOldest
  \/ ShiftFile
  \/ RenameBase
  \/ Copy

Next ==
  \/ Construct
  \/ \E len \in Lens : Write(len)
  \/ CallStep
  \/ Flush
  \/ Destruct
  \/ Crash

Spec == Init /\ [][Next]_vars

-----------------------------------------------------------------------------
(***************************************************************************)
(* Properties.                                                             *)
(***************************************************************************)

\* Every member has the range its declaration suggests (mmap_sink.hpp:70-81).
SinkTypeOK ==
  /\ files \in [Names -> Seq(Nat) \cup {NoFile}]
  /\ fd \in BOOLEAN /\ mapped \in BOOLEAN
  /\ map_base \in Nat /\ mmap_offset \in 0 .. REGION /\ file_offset \in Nat
  /\ total_bytes_written \in Nat /\ rotation_count \in Nat
  /\ pc \in {"none", "terminated", "open", "extend", "map", "ready", "copy",
             "unlink", "shift"}
  /\ cur \in Lens \cup {0}
  /\ rot \in 0 .. MAX_ROTATED - 1
  /\ lens \in Seq(Lens)
  /\ accepted \subseteq 1 .. Len(lens)
  /\ refused \subseteq 1 .. Len(lens)
  /\ synced \subseteq Nat
  /\ stuck \subseteq Names /\ ("rename" \notin Faults => stuck = {})
  /\ lives \in 0 .. MaxLives /\ flushes \in 0 .. MaxFlushes

\* The mapped region lies inside the file, so no store into it faults, and
\* the two offsets the code keeps (mmap_sink.cpp:77-78, :119, :153) agree on
\* where the next record goes.
MappingInFile ==
  mapped => /\ fd /\ Exists(0)
            /\ map_base + REGION <= Len(Base)
            /\ file_offset = map_base + mmap_offset

\* The memcpy (mmap_sink.cpp:76) never goes through a null or an unmapped
\* pointer nor past the end of the region, whatever system call failed before.
CopyIsSafe == pc = "copy" => mapped /\ mmap_offset + cur <= REGION

\* Inductive: a region is mapped only between calls and during the memcpy,
\* map_region runs on an open file without one, and just before its mmap the
\* file ends where the region will.
SinkInv ==
  /\ SinkTypeOK
  /\ MappingInFile
  /\ CopyIsSafe
  /\ mapped => pc \in {"ready", "copy"}
  /\ pc \in {"extend", "map"} => fd /\ Exists(0)
  /\ pc = "map" => Len(Base) = file_offset + REGION
  /\ pc = "copy" => cur > 0
  /\ cur > 0 => lens # <<>>

\* Record i is in some file, whole.
Stored(i) ==
  \E n \in Names : Exists(n) /\ \E o \in 0 .. Len(files[n]) - lens[i] :
    \A k \in o + 1 .. o + lens[i] : files[n][k] = i

\* Read from the oldest rotated file to the base file, records come in the
\* order they were written and none is written over, across rotations,
\* restarts and crashes (write, rotate_files, open_file).
OrderKept ==
  \A m, n \in Names : Exists(m) /\ Exists(n) =>
    \A j \in DOMAIN files[m], k \in DOMAIN files[n] :
      /\ files[m][j] > 0 /\ files[n][k] > 0
      /\ m > n \/ (m = n /\ j < k)
      => files[m][j] <= files[n][k]

\* Accepted records are lost only from the old end: no newer one goes first,
\* as long as renames of old files succeed.  Once rename(i, i + 1) has failed,
\* which rotate_files ignores (mmap_sink.cpp:185), the next rename replaces
\* file i, and files older than it stay.
OldestLostFirst ==
  stuck \subseteq {0} => \A i, j \in accepted : i < j /\ Stored(i) => Stored(j)

\* An accepted record goes only when max_rotated_ old files exist
\* (mmap_sink.hpp:32, "Number of old files to keep"), as long as every rename
\* succeeds: a file that could not be moved leaves a number free, and the next
\* rotation still removes the oldest.
KeepsOldFiles ==
  [][\A i \in accepted : stuck = {} /\ Stored(i) /\ ~Stored(i)' =>
       \A n \in 1 .. MAX_ROTATED : Exists(n)]_vars

\* No file grows beyond max_file_size_, which is a multiple of region_size_
\* (mmap_sink.hpp:31, "Max bytes per file before rotation"), as long as the base
\* file can be renamed: one that could not (mmap_sink.cpp:190) is opened again
\* and goes on at its end.
FileSizeBounded ==
  0 \notin stuck => \A n \in Names : Exists(n) => Len(files[n]) <= MAX_FILE

\* No record is refused: write always finds or makes room for it
\* (mmap_sink.hpp:48, "If the region is full, triggers a rotation").
NoWriteRefused == refused = {}

\* When flush returns, everything this sink accepted has been synced
\* (mmap_sink.hpp:53, "Synchronous flush of all pending data to disk").
FlushCoversAll == [][Flush => accepted \subseteq synced']_vars

\* Records that can be read whole from the files.
Whole == {i \in 1 .. Len(lens) : Stored(i)}

Records == INSTANCE RecordLog
             WITH asked <- Len(lens), busy <- cur > 0, kept <- Whole,
                  orderly <- stuck \subseteq {0}

\* The files are a log of records: a write ends by accepting its record, by
\* refusing it or with the process, no other step takes a record away or brings
\* one about, and the whole ones are the accepted ones but for the oldest until
\* an old file cannot be renamed, however many rotations, restarts and deaths
\* there are (mmap_sink.cpp:50-82, :174-195).
ImplementsRecordLog == Records!RSpec

\* Every write returns or ends with the process.
WriteReturns == cur > 0 ~> cur = 0
=============================================================================
