---------------------------- MODULE MMapSinkProofs ----------------------------
(***************************************************************************)
(* The safety of MMapSink for every region, file and page size, every set  *)
(* of record lengths up to a region, and every choice of the system calls  *)
(* that fail and the points where the process dies.                        *)
(*                                                                         *)
(* SinkInv, the safety of the mapping, is inductive.  MappingInFile and    *)
(* CopyIsSafe alone are not: that the mapping lies inside the file rests   *)
(* on what holds between ftruncate and mmap, two steps earlier.            *)
(*                                                                         *)
(* On it stand the invariants about what the files hold: FilesInv (order), *)
(* StoreInv (which records are kept), NoGap (the numbers of old files),    *)
(* TileInv and SizeInv (where regions begin and files end).                *)
(***************************************************************************)
EXTENDS MMapSink, SequenceTheorems, TLAPS

-----------------------------------------------------------------------------
(* The operators on file contents.                                         *)

\* A function on 1 .. n into Nat is a sequence of numbers of length n.
LEMMA FunctionIsSeq ==
  ASSUME NEW n \in Nat, NEW f \in [1 .. n -> Nat]
  PROVE  f \in Seq(Nat) /\ Len(f) = n
BY SMT

\* ftruncate yields a file of the length asked for (mmap_sink.cpp:128).
LEMMA ResizeResult ==
  ASSUME NEW f \in Seq(Nat), NEW n \in Nat
  PROVE  Resize(f, n) \in Seq(Nat) /\ Len(Resize(f, n)) = n
<1>1. Resize(f, n) \in [1 .. n -> Nat]
  BY DEF Resize
<1> QED
  BY <1>1, FunctionIsSeq

\* The memcpy changes no length (mmap_sink.cpp:76).
LEMMA PasteResult ==
  ASSUME NEW f \in Seq(Nat), NEW o \in Nat, NEW r \in Nat, NEW d \in Nat
  PROVE  Paste(f, o, r, d) \in Seq(Nat) /\ Len(Paste(f, o, r, d)) = Len(f)
<1>1. Len(f) \in Nat
  OBVIOUS
<1>2. Paste(f, o, r, d) \in [1 .. Len(f) -> Nat]
  BY <1>1 DEF Paste
<1> QED
  BY <1>1, <1>2, FunctionIsSeq

\* The record under way is one of those passed to write.
LEMMA RecordKnown ==
  ASSUME SinkTypeOK, lens # <<>>
  PROVE  Record \in 1 .. Len(lens)
<1>1. lens \in Seq(Lens) /\ Len(lens) \in Nat
  BY DEF SinkTypeOK
<1>2. Len(lens) # 0
  BY <1>1
<1> QED
  BY <1>1, <1>2 DEF Record

-----------------------------------------------------------------------------
(* One lemma per group of actions: each keeps the inductive invariant.     *)

\* A new sink starts from no sink.
LEMMA ConstructKeeps ==
  ASSUME SinkInv, Construct
  PROVE  SinkInv'
<1> USE SinkAssumption
<1>1. SinkTypeOK'
  BY DEF SinkInv, SinkTypeOK, Construct, members
<1>2. ~mapped /\ ~mapped' /\ pc' = "open"
  BY DEF SinkInv, Construct, members
<1> QED
  BY <1>1, <1>2 DEF SinkInv, MappingInFile, CopyIsSafe, Construct

\* open_file leaves an open, existing and unmapped base file (mmap_sink.cpp:94-109).
LEMMA OpenFileKeeps ==
  ASSUME SinkInv, OpenFile
  PROVE  SinkInv'
<1> USE SinkAssumption
<1>1. PICK fails \in May("fstat") :
        file_offset' = IF fails THEN file_offset ELSE AppendAt(files'[0])
  BY DEF OpenFile
<1>2. /\ files' \in [Names -> Seq(Nat) \cup {NoFile}]
      /\ files'[0] \in Seq(Nat)
      /\ 0 \in Names
  BY DEF SinkInv, SinkTypeOK, OpenFile, Names, Exists
<1>3. file_offset' \in Nat
  BY <1>1, <1>2 DEF AppendAt, SinkInv, SinkTypeOK
<1>4. SinkTypeOK'
  BY <1>2, <1>3 DEF SinkInv, SinkTypeOK, OpenFile, Goto, history
<1>5. ~mapped' /\ fd' /\ Exists(0)' /\ pc' = "extend" /\ cur' = cur /\ lens' = lens
  BY <1>2 DEF SinkInv, OpenFile, Goto, Exists, history
<1> QED
  BY <1>4, <1>5 DEF SinkInv, MappingInFile, CopyIsSafe

\* Whatever ends the object leaves nothing mapped and no descriptor.
LEMMA VanishKeeps ==
  ASSUME SinkInv, NEW to \in {"none", "terminated"}, Vanish(to),
         files' \in [Names -> Seq(Nat) \cup {NoFile}],
         synced' \subseteq Nat, flushes' \in 0 .. MaxFlushes,
         UNCHANGED <<lens, accepted, refused, stuck, lives>>
  PROVE  SinkInv'
<1> USE SinkAssumption
<1>1. /\ fd' = FALSE /\ mapped' = FALSE /\ map_base' = 0 /\ mmap_offset' = 0
      /\ file_offset' = 0 /\ total_bytes_written' = 0 /\ rotation_count' = 0
      /\ cur' = 0 /\ rot' = 0 /\ pc' = to
  BY DEF Vanish, NoMapping
<1>2. /\ lens' = lens /\ accepted' = accepted /\ refused' = refused
      /\ stuck' = stuck /\ lives' = lives
  OBVIOUS
<1>3. /\ lens \in Seq(Lens) /\ lives \in 0 .. MaxLives
      /\ accepted \subseteq 1 .. Len(lens) /\ refused \subseteq 1 .. Len(lens)
      /\ stuck \subseteq Names /\ ("rename" \notin Faults => stuck = {})
  BY DEF SinkInv, SinkTypeOK
<1>4. SinkTypeOK'
  <2>1. pc' \in {"none", "terminated"}
    BY <1>1
  <2>2. 0 \in 0 .. REGION /\ 0 \in 0 .. MAX_ROTATED - 1
    OBVIOUS
  <2>3. accepted' \subseteq 1 .. Len(lens') /\ refused' \subseteq 1 .. Len(lens')
    BY <1>2, <1>3
  <2>4. lens' \in Seq(Lens) /\ lives' \in 0 .. MaxLives
    BY <1>2, <1>3
  <2> QED
    BY <1>1, <1>2, <1>3, <2>1, <2>2, <2>3, <2>4 DEF SinkTypeOK
<1>5. MappingInFile' /\ CopyIsSafe'
  BY <1>1 DEF MappingInFile, CopyIsSafe
<1> QED
  BY <1>1, <1>4, <1>5 DEF SinkInv

\* A constructor that throws leaves nothing mapped.
LEMMA OpenFailsKeeps ==
  ASSUME SinkInv, OpenFails
  PROVE  SinkInv'
<1>1. PICK to \in {"none", "terminated"} : Vanish(to)
  BY DEF OpenFails
<1>2. UNCHANGED files /\ UNCHANGED <<lens, accepted, refused, synced, stuck, lives, flushes>>
  BY DEF OpenFails, history
<1>3. /\ files' \in [Names -> Seq(Nat) \cup {NoFile}]
      /\ synced' \subseteq Nat /\ flushes' \in 0 .. MaxFlushes
  BY <1>2 DEF SinkInv, SinkTypeOK
<1>4. UNCHANGED <<lens, accepted, refused, stuck, lives>>
  BY <1>2
<1> QED
  BY <1>1, <1>3, <1>4, VanishKeeps

\* map_region that gives up makes the write under way return 0.
LEMMA GiveUpRefuses ==
  ASSUME SinkTypeOK, cur > 0 => lens # <<>>, GiveUp
  PROVE  refused' \subseteq 1 .. Len(lens)
<1> USE SinkAssumption
<1>1. CASE cur = 0
  BY <1>1 DEF GiveUp, SinkTypeOK
<1>2. CASE cur # 0
  <2>1. lens # <<>>
    BY <1>2 DEF SinkTypeOK
  <2>2. Record \in 1 .. Len(lens)
    BY <2>1, RecordKnown
  <2>3. refused' = refused \cup {Record} /\ refused \subseteq 1 .. Len(lens)
    BY <1>2 DEF GiveUp, SinkTypeOK
  <2> QED
    BY <2>2, <2>3
<1> QED
  BY <1>1, <1>2

\* ftruncate makes the file end where the region will (mmap_sink.cpp:127-131).
LEMMA ExtendFileKeeps ==
  ASSUME SinkInv, ExtendFile
  PROVE  SinkInv'
<1> USE SinkAssumption
<1>1. PICK fails \in May("ftruncate") :
        IF fails
        THEN GiveUp /\ UNCHANGED files
        ELSE /\ files' = [files EXCEPT ![0] = Resize(@, file_offset + REGION)]
             /\ pc' = "map"
             /\ UNCHANGED <<cur, refused>>
  BY DEF ExtendFile
<1>2. /\ SinkTypeOK /\ pc = "extend" /\ ~mapped /\ fd /\ Exists(0)
      /\ cur > 0 => lens # <<>>
  BY DEF SinkInv, ExtendFile
<1>3. UNCHANGED <<members, rot, lens, accepted, synced, stuck, lives, flushes>>
  BY DEF ExtendFile
<1>4. CASE fails
  <2>1. GiveUp /\ UNCHANGED files
    BY <1>1, <1>4
  <2>2. refused' \subseteq 1 .. Len(lens)
    BY <1>2, <2>1, GiveUpRefuses
  <2>3. SinkTypeOK'
    BY <1>2, <1>3, <2>1, <2>2 DEF SinkTypeOK, GiveUp, members
  <2> QED
    BY <1>2, <1>3, <2>1, <2>3 DEF SinkInv, MappingInFile, CopyIsSafe, GiveUp, members
<1>5. CASE ~fails
  <2>1. /\ files' = [files EXCEPT ![0] = Resize(@, file_offset + REGION)]
        /\ pc' = "map" /\ UNCHANGED <<cur, refused>>
    BY <1>1, <1>5
  <2>2. files[0] \in Seq(Nat) /\ file_offset + REGION \in Nat /\ 0 \in Names
    BY <1>2 DEF SinkTypeOK, Exists, Names
  <2>3. /\ Resize(files[0], file_offset + REGION) \in Seq(Nat)
        /\ Len(Resize(files[0], file_offset + REGION)) = file_offset + REGION
    BY <2>2, ResizeResult
  <2>4. /\ files' \in [Names -> Seq(Nat) \cup {NoFile}]
        /\ files'[0] = Resize(files[0], file_offset + REGION)
    BY <1>2, <2>1, <2>2, <2>3 DEF SinkTypeOK
  <2>5. SinkTypeOK'
    BY <1>2, <1>3, <2>1, <2>4 DEF SinkTypeOK, members
  <2>6. /\ ~mapped' /\ fd' /\ Exists(0)' /\ pc' = "map"
        /\ Len(Base)' = file_offset' + REGION
    BY <1>2, <1>3, <2>1, <2>3, <2>4 DEF Exists, Base, members
  <2> QED
    BY <1>2, <1>3, <2>1, <2>5, <2>6 DEF SinkInv, MappingInFile, CopyIsSafe
<1> QED
  BY <1>4, <1>5

\* mmap puts the region where ftruncate made the file end (mmap_sink.cpp:133-153).
LEMMA MapRegionKeeps ==
  ASSUME SinkInv, MapRegion
  PROVE  SinkInv'
<1> USE SinkAssumption
<1>1. PICK fails \in May("mmap") :
        IF MapFails(fails)
        THEN GiveUp /\ UNCHANGED <<mapped, map_base, mmap_offset>>
        ELSE /\ mapped' = TRUE
             /\ map_base' = file_offset
             /\ mmap_offset' = 0
             /\ pc' = IF cur = 0 THEN "ready" ELSE "copy"
             /\ UNCHANGED <<cur, refused>>
  BY DEF MapRegion
<1>2. /\ SinkTypeOK /\ pc = "map" /\ ~mapped /\ fd /\ Exists(0)
      /\ Len(Base) = file_offset + REGION
      /\ cur > 0 => lens # <<>>
  BY DEF SinkInv, MapRegion
<1>3. UNCHANGED <<files, fd, file_offset, total_bytes_written, rotation_count,
                  rot, lens, accepted, synced, stuck, lives, flushes>>
  BY DEF MapRegion
<1>4. CASE MapFails(fails)
  <2>1. GiveUp /\ UNCHANGED <<mapped, map_base, mmap_offset>>
    BY <1>1, <1>4
  <2>2. refused' \subseteq 1 .. Len(lens)
    BY <1>2, <2>1, GiveUpRefuses
  <2>3. SinkTypeOK'
    BY <1>2, <1>3, <2>1, <2>2 DEF SinkTypeOK, GiveUp
  <2> QED
    BY <1>2, <1>3, <2>1, <2>3 DEF SinkInv, MappingInFile, CopyIsSafe, GiveUp
<1>5. CASE ~MapFails(fails)
  <2>1. /\ mapped' = TRUE /\ map_base' = file_offset /\ mmap_offset' = 0
        /\ pc' = IF cur = 0 THEN "ready" ELSE "copy"
        /\ UNCHANGED <<cur, refused>>
    BY <1>1, <1>5
  <2>2. cur \in 0 .. REGION /\ file_offset \in Nat
    BY <1>2 DEF SinkTypeOK
  <2>3. SinkTypeOK'
    BY <1>2, <1>3, <2>1 DEF SinkTypeOK
  <2>4. MappingInFile'
    BY <1>2, <1>3, <2>1, <2>2 DEF MappingInFile, Exists, Base
  <2>5. CopyIsSafe'
    BY <2>1, <2>2 DEF CopyIsSafe
  <2> QED
    BY <1>2, <1>3, <2>1, <2>2, <2>3, <2>4, <2>5 DEF SinkInv
<1> QED
  BY <1>4, <1>5

\* write only starts a memcpy that fits the region (mmap_sink.cpp:54-73).
LEMMA WriteKeeps ==
  ASSUME SinkInv, NEW len \in Lens, Write(len)
  PROVE  SinkInv'
<1> USE SinkAssumption
<1>1. /\ SinkTypeOK /\ MappingInFile /\ pc = "ready"
      /\ lens' = Append(lens, len)
      /\ UNCHANGED <<files, accepted, synced, stuck, lives, flushes>>
  BY DEF SinkInv, Write
<1>2. /\ lens' \in Seq(Lens) /\ lens' # <<>>
      /\ Len(lens') = Len(lens) + 1 /\ Len(lens) \in Nat
  BY <1>1 DEF SinkTypeOK
<1>3. accepted' \subseteq 1 .. Len(lens') /\ refused \subseteq 1 .. Len(lens')
  BY <1>1, <1>2 DEF SinkTypeOK
<1>4. len \in 1 .. REGION /\ 0 \in 0 .. REGION /\ 0 \in Nat
  OBVIOUS
<1>5. CASE WriteRefused(len)
  <2>0. refused' = refused \cup {Len(lens) + 1} /\ Len(lens) + 1 \in 1 .. Len(lens')
    BY <1>2, <1>5 DEF WriteRefused
  <2>1. refused' \subseteq 1 .. Len(lens')
    BY <1>3, <2>0
  <2>2. SinkTypeOK'
    BY <1>1, <1>2, <1>3, <1>5, <2>1 DEF SinkTypeOK, WriteRefused, members
  <2>3. ~mapped' /\ pc' = "ready"
    BY <1>1, <1>5 DEF WriteRefused, members
  <2> QED
    BY <1>2, <2>2, <2>3 DEF SinkInv, MappingInFile, CopyIsSafe
<1>6. CASE WriteInRegion(len)
  <2>1. SinkTypeOK'
    BY <1>1, <1>2, <1>3, <1>6 DEF SinkTypeOK, WriteInRegion, members
  <2>2. MappingInFile'
    BY <1>1, <1>6 DEF MappingInFile, Exists, Base, WriteInRegion, members
  <2>3. /\ mapped' /\ pc' = "copy" /\ cur' = len
        /\ mmap_offset' = mmap_offset /\ ~(mmap_offset + len > REGION)
    BY <1>6 DEF WriteInRegion, RegionFull, members
  <2>4. CopyIsSafe'
    BY <1>1, <1>4, <2>3 DEF CopyIsSafe, SinkTypeOK
  <2> QED
    BY <1>2, <1>4, <2>1, <2>2, <2>3, <2>4 DEF SinkInv
<1>7. CASE WriteInNewRegion(len)
  <2>0. /\ mapped' = FALSE /\ map_base' = 0 /\ mmap_offset' = 0
        /\ cur' = len /\ rot' = rot /\ refused' = refused
        /\ total_bytes_written' = total_bytes_written
    BY <1>7 DEF WriteInNewRegion, NoMapping
  <2>1. SinkTypeOK'
    BY <1>1, <1>2, <1>3, <1>4, <1>7, <2>0 DEF SinkTypeOK, WriteInNewRegion
  <2>2. ~mapped' /\ pc' = "extend" /\ fd' /\ Exists(0)'
    BY <1>1, <1>7 DEF MappingInFile, Exists, WriteInNewRegion, NoMapping
  <2> QED
    BY <1>2, <2>1, <2>2 DEF SinkInv, MappingInFile, CopyIsSafe
<1>8. CASE WriteInNewFile(len)
  <2>0. /\ mapped' = FALSE /\ map_base' = 0 /\ mmap_offset' = 0
        /\ cur' = len /\ rot' = rot /\ refused' = refused
        /\ total_bytes_written' = total_bytes_written /\ file_offset' = 0
        /\ rotation_count' \in Nat /\ fd' = FALSE /\ pc' = "unlink"
    BY <1>1, <1>8 DEF WriteInNewFile, NoMapping, SinkTypeOK
  <2>1. SinkTypeOK'
    BY <1>1, <1>2, <1>3, <1>4, <2>0 DEF SinkTypeOK
  <2>2. ~mapped' /\ pc' = "unlink"
    BY <1>8 DEF WriteInNewFile, NoMapping
  <2> QED
    BY <1>2, <2>1, <2>2 DEF SinkInv, MappingInFile, CopyIsSafe
<1> QED
  BY <1>5, <1>6, <1>7, <1>8 DEF Write

\* What the rename of rotate_files does to the name `a` and the next one, given
\* that there is a name after it (mmap_sink.cpp:182-190).
LEMMA RenameResult ==
  ASSUME files \in [Names -> Seq(Nat) \cup {NoFile}], NEW a \in Names, a + 1 \in Names,
         Rename(a, a + 1)
  PROVE  /\ files' \in [Names -> Seq(Nat) \cup {NoFile}]
         /\ \/ /\ files[a] # NoFile /\ stuck' = stuck
               /\ files' = [files EXCEPT ![a + 1] = files[a], ![a] = NoFile]
               /\ files'[a] = NoFile /\ files'[a + 1] = files[a]
               /\ \A n \in Names : n # a /\ n # a + 1 => files'[n] = files[n]
            \/ /\ files[a] # NoFile /\ files' = files
               /\ stuck' = stuck \cup {a} /\ "rename" \in Faults
            \/ files[a] = NoFile /\ files' = files /\ stuck' = stuck
<1>0. a # a + 1
  BY SinkAssumption DEF Names
<1>1. CASE Exists(a) /\ files' = Moved(a, a + 1) /\ stuck' = stuck
  <2>1. files' = [files EXCEPT ![a + 1] = files[a], ![a] = NoFile]
    BY <1>1 DEF Moved
  <2>2. /\ files'[a] = NoFile /\ files'[a + 1] = files[a]
        /\ \A n \in Names : n # a /\ n # a + 1 => files'[n] = files[n]
    BY <1>0, <2>1
  <2>3. files' \in [Names -> Seq(Nat) \cup {NoFile}]
    BY <2>1
  <2> QED
    BY <1>1, <2>1, <2>2, <2>3 DEF Exists
<1>2. CASE ~(Exists(a) /\ files' = Moved(a, a + 1) /\ stuck' = stuck)
  BY <1>2 DEF Rename, Exists
<1> QED
  BY <1>1, <1>2

\* The unlink of rotate_files takes the oldest name or fails (mmap_sink.cpp:177-179).
LEMMA UnlinkResult ==
  ASSUME files \in [Names -> Seq(Nat) \cup {NoFile}], UnlinkOldest
  PROVE  /\ files' \in [Names -> Seq(Nat) \cup {NoFile}] /\ MAX_ROTATED \in Names
         /\ stuck' = stuck
         /\ files' = files \/ files' = [files EXCEPT ![MAX_ROTATED] = NoFile]
         /\ \A n \in Names : n # MAX_ROTATED => files'[n] = files[n]
         /\ \A n \in Names : files'[n] # NoFile => files'[n] = files[n]
<1>1. MAX_ROTATED \in Names
  BY SinkAssumption DEF Names
<1>2. files' = files \/ files' = [files EXCEPT ![MAX_ROTATED] = NoFile]
  BY DEF UnlinkOldest, Unlink, Oldest
<1>3. stuck' = stuck
  BY DEF UnlinkOldest, history
<1> QED
  BY <1>1, <1>2, <1>3

\* The rotation moves whole files while nothing is mapped (mmap_sink.cpp:174-191).
LEMMA RotationKeeps ==
  ASSUME SinkInv, UnlinkOldest \/ ShiftFile \/ RenameBase
  PROVE  SinkInv'
<1> USE SinkAssumption
<1>1. /\ SinkTypeOK /\ ~mapped
      /\ cur > 0 => lens # <<>>
      /\ pc \in {"unlink", "shift"}
  BY DEF SinkInv, UnlinkOldest, ShiftFile, RenameBase, Goto
<1>2. /\ UNCHANGED <<members, cur, lens, accepted, refused, synced, lives, flushes>>
      /\ pc' \in {"shift", "open"}
  BY <1>1 DEF UnlinkOldest, ShiftFile, RenameBase, Goto, history
<1>3. files \in [Names -> Seq(Nat) \cup {NoFile}] /\ rot \in 0 .. MAX_ROTATED - 1
  BY <1>1 DEF SinkTypeOK
<1>4. rot' \in 0 .. MAX_ROTATED - 1
  BY <1>3 DEF UnlinkOldest, ShiftFile, RenameBase, NextIndex
<1>5. /\ files' \in [Names -> Seq(Nat) \cup {NoFile}]
      /\ stuck' \subseteq Names /\ ("rename" \notin Faults => stuck' = {})
  <2>1. stuck \subseteq Names /\ ("rename" \notin Faults => stuck = {})
    BY <1>1 DEF SinkTypeOK
  <2>2. CASE UnlinkOldest
    BY <1>3, <2>1, <2>2, UnlinkResult
  <2>3. CASE ShiftFile \/ RenameBase
    <3>1. rot \in Names /\ rot + 1 \in Names /\ Rename(rot, rot + 1)
      BY <1>3, <2>3 DEF ShiftFile, RenameBase, Shifted, Names
    <3>2. /\ files' \in [Names -> Seq(Nat) \cup {NoFile}]
          /\ stuck' = stuck \/ (stuck' = stuck \cup {rot} /\ "rename" \in Faults)
      BY <1>3, <3>1, RenameResult
    <3> QED
      BY <2>1, <3>1, <3>2
  <2> QED
    BY <2>2, <2>3
<1>6. SinkTypeOK'
  BY <1>1, <1>2, <1>4, <1>5 DEF SinkTypeOK, members
<1>7. ~mapped' /\ (cur' > 0 => lens' # <<>>)
  BY <1>1, <1>2 DEF members
<1> QED
  BY <1>2, <1>6, <1>7 DEF SinkInv, MappingInFile, CopyIsSafe

\* The memcpy stays in the file and moves both offsets alike (mmap_sink.cpp:76-79).
LEMMA CopyKeeps ==
  ASSUME SinkInv, Copy
  PROVE  SinkInv'
<1> USE SinkAssumption
<1>1. /\ SinkTypeOK /\ pc = "copy" /\ cur > 0 /\ lens # <<>>
      /\ mapped /\ fd /\ Exists(0)
      /\ map_base + REGION <= Len(Base)
      /\ file_offset = map_base + mmap_offset
      /\ mmap_offset + cur <= REGION
  BY DEF SinkInv, MappingInFile, CopyIsSafe, Copy, Goto
<1>2. /\ files' = [files EXCEPT ![0] = Paste(@, map_base + mmap_offset, Record, cur)]
      /\ pc' = "ready" /\ cur' = 0
      /\ mmap_offset' = mmap_offset + cur /\ file_offset' = file_offset + cur
      /\ total_bytes_written' = total_bytes_written + cur
      /\ accepted' = accepted \cup {Record}
      /\ UNCHANGED <<fd, mapped, map_base, rotation_count, rot, lens, refused,
                     synced, stuck, lives, flushes>>
  BY DEF Copy, Goto, Advance
<1>3. /\ files[0] \in Seq(Nat) /\ map_base + mmap_offset \in Nat /\ cur \in Nat
      /\ mmap_offset \in Nat /\ 0 \in Names
  BY <1>1 DEF SinkTypeOK, Exists, Names
<1>4. Record \in 1 .. Len(lens) /\ Record \in Nat
  BY <1>1, RecordKnown DEF SinkTypeOK, Record
<1>5. /\ Paste(files[0], map_base + mmap_offset, Record, cur) \in Seq(Nat)
      /\ Len(Paste(files[0], map_base + mmap_offset, Record, cur)) = Len(files[0])
  BY <1>3, <1>4, PasteResult
<1>6. /\ files' \in [Names -> Seq(Nat) \cup {NoFile}]
      /\ files'[0] \in Seq(Nat) /\ Len(files'[0]) = Len(files[0])
  BY <1>1, <1>2, <1>3, <1>5 DEF SinkTypeOK
<1>7. mmap_offset' \in 0 .. REGION /\ file_offset' \in Nat /\ total_bytes_written' \in Nat
  BY <1>1, <1>2, <1>3 DEF SinkTypeOK
<1>8. accepted' \subseteq 1 .. Len(lens')
  BY <1>1, <1>2, <1>4 DEF SinkTypeOK
<1>9. SinkTypeOK'
  BY <1>1, <1>2, <1>6, <1>7, <1>8 DEF SinkTypeOK
<1>10. MappingInFile'
  BY <1>1, <1>2, <1>3, <1>6 DEF MappingInFile, Exists, Base, SinkTypeOK
<1> QED
  BY <1>1, <1>2, <1>9, <1>10 DEF SinkInv, CopyIsSafe

\* flush changes nothing but what is on the disk (mmap_sink.cpp:86-90).
LEMMA SyncedTyped ==
  ASSUME SinkTypeOK, MappingInFile
  PROVE  InRegion \subseteq Nat
<1> USE SinkAssumption
<1>1. CASE mapped
  <2>1. /\ Base \in Seq(Nat) /\ map_base \in Nat /\ mmap_offset \in 0 .. REGION
        /\ map_base + REGION <= Len(Base)
    BY <1>1 DEF SinkTypeOK, MappingInFile, Exists, Base, Names
  <2>2. \A k \in map_base + 1 .. map_base + mmap_offset : Base[k] \in Nat
    BY <2>1
  <2> QED
    BY <1>1, <2>2 DEF InRegion
<1>2. CASE ~mapped
  BY <1>2 DEF InRegion
<1> QED
  BY <1>1, <1>2

\* flush changes no member.
LEMMA FlushKeeps ==
  ASSUME SinkInv, Flush
  PROVE  SinkInv'
<1> USE SinkAssumption
<1>1. SinkTypeOK /\ MappingInFile
  BY DEF SinkInv
<1>2. synced' \subseteq Nat
  BY <1>1, SyncedTyped DEF Flush, SinkTypeOK
<1>3. flushes' \in 0 .. MaxFlushes
  BY <1>1 DEF Flush, SinkTypeOK
<1>4. UNCHANGED <<files, members, pc, cur, rot, lens, accepted, refused, stuck, lives>>
  BY DEF Flush
<1>5. SinkTypeOK'
  BY <1>1, <1>2, <1>3, <1>4 DEF SinkTypeOK, members
<1> QED
  BY <1>4, <1>5 DEF SinkInv, MappingInFile, CopyIsSafe, Exists, Base, members

\* The destructor unmaps, cuts the file and closes it.
LEMMA DestructKeeps ==
  ASSUME SinkInv, Destruct
  PROVE  SinkInv'
<1>1. SinkTypeOK /\ MappingInFile
  BY DEF SinkInv
<1>2. /\ Vanish("none")
      /\ UNCHANGED <<lens, accepted, refused, stuck, lives>>
      /\ files' = files /\ flushes' = flushes
  BY DEF Destruct
<1>3. synced' \subseteq Nat
  BY <1>1, SyncedTyped DEF Destruct, SinkTypeOK
<1>4. files' \in [Names -> Seq(Nat) \cup {NoFile}] /\ flushes' \in 0 .. MaxFlushes
  BY <1>1, <1>2 DEF SinkTypeOK
<1> QED
  BY <1>2, <1>3, <1>4, VanishKeeps

\* A crash leaves at most a prefix of the record under way in the file.
LEMMA CrashKeeps ==
  ASSUME SinkInv, Crash
  PROVE  SinkInv'
<1> USE SinkAssumption
<1>1. /\ Vanish("none")
      /\ UNCHANGED <<lens, accepted, refused, stuck, lives>>
      /\ synced' = synced /\ flushes' = flushes
  BY DEF Crash, history
<1>2. SinkTypeOK /\ synced' \subseteq Nat /\ flushes' \in 0 .. MaxFlushes
  BY <1>1 DEF SinkInv, SinkTypeOK
<1>3. files' \in [Names -> Seq(Nat) \cup {NoFile}]
  <2>1. CASE pc = "copy"
    <3>1. PICK d \in 0 .. cur - 1 :
            files' = [files EXCEPT ![0] = Paste(@, map_base + mmap_offset, Record, d)]
      BY <2>1 DEF Crash
    <3>2. /\ mapped /\ Exists(0) /\ lens # <<>> /\ cur \in Nat /\ 0 \in Names
      BY <2>1 DEF SinkInv, SinkTypeOK, MappingInFile, CopyIsSafe, Names
    <3>3. files[0] \in Seq(Nat) /\ map_base + mmap_offset \in Nat /\ d \in Nat
      BY <1>2, <3>2 DEF SinkTypeOK, Exists
    <3>4. Record \in Nat
      BY <1>2, <3>2, RecordKnown DEF SinkTypeOK, Record
    <3>5. Paste(files[0], map_base + mmap_offset, Record, d) \in Seq(Nat)
      BY <3>3, <3>4, PasteResult
    <3> QED
      BY <1>2, <3>1, <3>2, <3>5 DEF SinkTypeOK
  <2>2. CASE pc # "copy"
    BY <1>2, <2>2 DEF Crash, SinkTypeOK
  <2> QED
    BY <2>1, <2>2
<1> QED
  BY <1>1, <1>2, <1>3, VanishKeeps

-----------------------------------------------------------------------------
\* No sink, no mapping.
LEMMA SinkStart ==
  ASSUME Init
  PROVE  SinkInv
<1>1. 0 \in 0 .. REGION /\ 0 \in 0 .. MAX_ROTATED - 1 /\ 0 \in 0 .. MaxLives
      /\ 0 \in 0 .. MaxFlushes
  BY SinkAssumption
<1>2. lens \in Seq(Lens) /\ files \in [Names -> Seq(Nat) \cup {NoFile}]
  BY DEF Init
<1>3. SinkTypeOK
  BY <1>1, <1>2 DEF Init, SinkTypeOK
<1> QED
  BY <1>3 DEF Init, SinkInv, MappingInFile, CopyIsSafe

\* SinkInv is inductive.
LEMMA SinkStep ==
  ASSUME SinkInv, [Next]_vars
  PROVE  SinkInv'
<1>1. CASE Construct
  BY <1>1, ConstructKeeps
<1>2. CASE \E len \in Lens : Write(len)
  BY <1>2, WriteKeeps
<1>3. CASE OpenFile
  BY <1>3, OpenFileKeeps
<1>4. CASE OpenFails
  BY <1>4, OpenFailsKeeps
<1>5. CASE ExtendFile
  BY <1>5, ExtendFileKeeps
<1>6. CASE MapRegion
  BY <1>6, MapRegionKeeps
<1>7. CASE UnlinkOldest \/ ShiftFile \/ RenameBase
  BY <1>7, RotationKeeps
<1>8. CASE Copy
  BY <1>8, CopyKeeps
<1>9. CASE Flush
  BY <1>9, FlushKeeps
<1>10. CASE Destruct
  BY <1>10, DestructKeeps
<1>11. CASE Crash
  BY <1>11, CrashKeeps
<1>12. CASE UNCHANGED vars
  BY <1>12 DEF SinkInv, SinkTypeOK, MappingInFile, CopyIsSafe, Exists, Base, vars
<1> QED
  BY <1>1, <1>2, <1>3, <1>4, <1>5, <1>6, <1>7, <1>8, <1>9, <1>10, <1>11, <1>12
  DEF Next, CallStep

\* SinkInv is an invariant: every member keeps its type and the invariants
\* below hold, whatever fails and wherever the process dies.
THEOREM SinkInvariance == Spec => []SinkInv
<1>1. Init => SinkInv
  BY SinkStart
<1>2. SinkInv /\ [Next]_vars => SinkInv'
  BY SinkStep
<1> QED
  BY <1>1, <1>2, PTL DEF Spec

\* The mapped region always lies inside the file (mmap_sink.cpp:127-140).
THEOREM MappingAlwaysInFile == Spec => []MappingInFile
<1>1. SinkInv => MappingInFile
  BY DEF SinkInv
<1> QED
  BY <1>1, SinkInvariance, PTL

\* The memcpy of write is always inside a live mapping (mmap_sink.cpp:76).
THEOREM CopyAlwaysSafe == Spec => []CopyIsSafe
<1>1. SinkInv => CopyIsSafe
  BY DEF SinkInv
<1> QED
  BY <1>1, SinkInvariance, PTL

\* Every member keeps the range of its declaration (mmap_sink.hpp:70-81),
\* whatever fails and wherever the process dies.
THEOREM SinkTypeCorrect == Spec => []SinkTypeOK
<1>1. SinkInv => SinkTypeOK
  BY DEF SinkInv
<1> QED
  BY <1>1, SinkInvariance, PTL

-----------------------------------------------------------------------------
(***************************************************************************)
(* What the files hold.  FilesInv is inductive when a sink that opens a    *)
(* file goes on at its end: it asked fstat, or the file is new, which it   *)
(* is when the one before it could be renamed.                             *)
(***************************************************************************)
OpensAtEnd ==
  \/ "fstat" \notin Faults
  \/ MaxLives = 1 /\ "rename" \notin Faults

\* Cells are zero or records passed to write, and a record under way is in no
\* file yet.
CellsKnown ==
  \A n \in Names : Exists(n) => \A k \in DOMAIN files[n] :
    files[n][k] <= Len(lens) /\ (cur > 0 => files[n][k] < Len(lens))

\* Nothing was written at or after the place where the next record goes.
TailEmpty ==
  pc \in {"extend", "map", "ready", "copy"} =>
    /\ fd /\ Exists(0)
    /\ \A k \in DOMAIN Base : k > file_offset => Base[k] = 0

\* What the names denote on the way from close_file to open_file.  The name a
\* file moves to is free, unless the unlink of the oldest or an earlier rename
\* failed, and so is the base path when its file was renamed.
OnTheWay ==
  /\ pc \in {"none", "terminated", "open", "unlink", "shift"} => file_offset = 0
  /\ pc \in {"unlink", "shift"} => cur > 0 /\ Exists(0)
  /\ pc = "shift" /\ stuck \subseteq {0} => rot + 1 = MAX_ROTATED \/ ~Exists(rot + 1)
  /\ pc = "open" /\ (cur > 0 \/ MaxLives = 1) /\ 0 \notin stuck => ~Exists(0)
  /\ lives = 0 => pc = "none" /\ \A n \in Names : ~Exists(n)
  /\ pc \in {"none", "terminated"} => cur = 0

FilesInv == SinkInv /\ CellsKnown /\ TailEmpty /\ OnTheWay /\ OrderKept

-----------------------------------------------------------------------------
(* Order, for any content of the names.                                    *)

\* OrderKept for the contents fs.
OrderedIn(fs) ==
  \A m, n \in Names : fs[m] # NoFile /\ fs[n] # NoFile =>
    \A j \in DOMAIN fs[m], k \in DOMAIN fs[n] :
      /\ fs[m][j] > 0 /\ fs[n][k] > 0
      /\ m > n \/ (m = n /\ j < k)
      => fs[m][j] <= fs[n][k]

Contents == [Names -> Seq(Nat) \cup {NoFile}]

\* A file is a sequence of numbers, with the domain of its length.
LEMMA FileCells ==
  ASSUME NEW fs \in Contents, NEW n \in Names, fs[n] # NoFile
  PROVE  /\ fs[n] \in Seq(Nat) /\ Len(fs[n]) \in Nat
         /\ DOMAIN fs[n] = 1 .. Len(fs[n])
         /\ \A k \in DOMAIN fs[n] : fs[n][k] \in Nat
<1>1. fs[n] \in Seq(Nat)
  BY DEF Contents
<1> QED
  BY <1>1

\* Taking names away keeps the order.
LEMMA RemovalOrdered ==
  ASSUME NEW fs \in Contents, NEW gs \in Contents, OrderedIn(fs),
         \A n \in Names : gs[n] # NoFile => gs[n] = fs[n]
  PROVE  OrderedIn(gs)
<1> SUFFICES ASSUME NEW m \in Names, NEW n \in Names, gs[m] # NoFile, gs[n] # NoFile,
                    NEW j \in DOMAIN gs[m], NEW k \in DOMAIN gs[n],
                    gs[m][j] > 0, gs[n][k] > 0, m > n \/ (m = n /\ j < k)
             PROVE  gs[m][j] <= gs[n][k]
  BY DEF OrderedIn
<1>1. gs[m] = fs[m] /\ gs[n] = fs[n]
  OBVIOUS
<1> QED
  BY <1>1 DEF OrderedIn

\* Moving a file to the next higher name keeps the order.
LEMMA MoveOrdered ==
  ASSUME NEW fs \in Contents, NEW gs \in Contents, OrderedIn(fs),
         NEW a \in Names, a + 1 \in Names, fs[a] # NoFile,
         gs = [fs EXCEPT ![a + 1] = fs[a], ![a] = NoFile]
  PROVE  OrderedIn(gs)
<1> USE SinkAssumption
<1> SUFFICES ASSUME NEW m \in Names, NEW n \in Names, gs[m] # NoFile, gs[n] # NoFile,
                    NEW j \in DOMAIN gs[m], NEW k \in DOMAIN gs[n],
                    gs[m][j] > 0, gs[n][k] > 0, m > n \/ (m = n /\ j < k)
             PROVE  gs[m][j] <= gs[n][k]
  BY DEF OrderedIn
<1> DEFINE old(x) == IF x = a + 1 THEN a ELSE x
<1>1. m # a /\ n # a
  BY DEF Contents
<1>2. /\ old(m) \in Names /\ old(n) \in Names
      /\ gs[m] = fs[old(m)] /\ gs[n] = fs[old(n)]
  BY <1>1 DEF Contents
<1>3. old(m) > old(n) \/ (old(m) = old(n) /\ j < k)
  BY <1>1 DEF Names
<1> HIDE DEF old
<1> QED
  BY <1>2, <1>3 DEF OrderedIn

\* A base file whose cells differ from the old ones only where they were zero
\* or missing, and there are all zero, keeps the order.
LEMMA ResizeOrdered ==
  ASSUME NEW fs \in Contents, OrderedIn(fs), fs[0] # NoFile, NEW n \in Nat
  PROVE  OrderedIn([fs EXCEPT ![0] = Resize(fs[0], n)])
<1> USE SinkAssumption
<1> DEFINE f == Resize(fs[0], n)
           gs == [fs EXCEPT ![0] = f]
<1>0. 0 \in Names /\ NoFile \notin Seq(Nat)
  BY DEF Names
<1>1. fs[0] \in Seq(Nat) /\ DOMAIN fs[0] = 1 .. Len(fs[0])
  BY <1>0, FileCells
<1>2. /\ f \in Seq(Nat) /\ Len(f) = n /\ DOMAIN f = 1 .. n
      /\ \A k \in 1 .. n : f[k] = IF k <= Len(fs[0]) THEN fs[0][k] ELSE 0
  BY <1>1, ResizeResult DEF Resize
<1>3. \A k \in DOMAIN f : f[k] > 0 => k \in DOMAIN fs[0] /\ f[k] = fs[0][k]
  BY <1>1, <1>2
<1>4. gs[0] = f /\ \A m \in Names : m # 0 => gs[m] = fs[m]
  BY <1>0 DEF Contents
<1> HIDE DEF f, gs
<1>5. \A m \in Names : gs[m] # NoFile => fs[m] # NoFile /\
        \A k \in DOMAIN gs[m] : gs[m][k] > 0 => k \in DOMAIN fs[m] /\ gs[m][k] = fs[m][k]
  BY <1>3, <1>4
<1>6. OrderedIn(gs)
  BY <1>5 DEF OrderedIn
<1> QED
  BY <1>6 DEF gs, f

\* So does the memcpy of a record newer than all others at the end of what the
\* base file holds.
LEMMA PasteOrdered ==
  ASSUME NEW fs \in Contents, OrderedIn(fs), fs[0] # NoFile,
         NEW o \in Nat, NEW r \in Nat, NEW d \in Nat,
         \A k \in DOMAIN fs[0] : k > o => fs[0][k] = 0,
         \A n \in Names : fs[n] # NoFile => \A k \in DOMAIN fs[n] : fs[n][k] <= r
  PROVE  OrderedIn([fs EXCEPT ![0] = Paste(fs[0], o, r, d)])
<1> USE SinkAssumption
<1> DEFINE f == Paste(fs[0], o, r, d)
           gs == [fs EXCEPT ![0] = f]
<1>0. 0 \in Names /\ NoFile \notin Seq(Nat)
  BY DEF Names
<1>1. fs[0] \in Seq(Nat) /\ Len(fs[0]) \in Nat /\ DOMAIN fs[0] = 1 .. Len(fs[0])
  BY <1>0, FileCells
<1>2. /\ DOMAIN f = DOMAIN fs[0] /\ f \in Seq(Nat)
      /\ \A k \in DOMAIN f : f[k] = IF k \in o + 1 .. o + d THEN r ELSE fs[0][k]
  BY <1>1, PasteResult DEF Paste
<1>3. gs[0] = f /\ \A m \in Names : m # 0 => gs[m] = fs[m]
  BY <1>0 DEF Contents
<1>4. \A k \in DOMAIN f : f[k] > 0 => \/ k > o /\ f[k] = r
                                      \/ k <= o /\ f[k] = fs[0][k]
  <2> SUFFICES ASSUME NEW k \in DOMAIN f, f[k] > 0
               PROVE  \/ k > o /\ f[k] = r
                      \/ k <= o /\ f[k] = fs[0][k]
    OBVIOUS
  <2>1. k \in Nat /\ f[k] = IF k \in o + 1 .. o + d THEN r ELSE fs[0][k]
    BY <1>1, <1>2
  <2> HIDE DEF f
  <2>2. CASE k > o
    <3>1. fs[0][k] = 0
      BY <1>2, <2>2
    <3> QED
      BY <2>1, <2>2, <3>1
  <2>3. CASE k <= o
    BY <2>1, <2>3
  <2> QED
    BY <2>1, <2>2, <2>3
<1> HIDE DEF f, gs
<1> SUFFICES ASSUME NEW m \in Names, NEW n \in Names, gs[m] # NoFile, gs[n] # NoFile,
                    NEW j \in DOMAIN gs[m], NEW k \in DOMAIN gs[n],
                    gs[m][j] > 0, gs[n][k] > 0, m > n \/ (m = n /\ j < k)
             PROVE  gs[m][j] <= gs[n][k]
  BY DEF OrderedIn, gs, f
<1>5. m \in Nat /\ n \in Nat
  BY DEF Names
<1>6. fs[m] # NoFile /\ fs[n] # NoFile /\ j \in DOMAIN fs[m] /\ k \in DOMAIN fs[n]
  BY <1>0, <1>2, <1>3
<1>7. j \in Nat /\ k \in Nat /\ fs[m][j] \in Nat /\ fs[n][k] \in Nat
  <2>1. j \in Nat /\ fs[m][j] \in Nat
    BY <1>6, FileCells
  <2>2. k \in Nat /\ fs[n][k] \in Nat
    BY <1>6, FileCells
  <2> QED
    BY <2>1, <2>2
<1>8. fs[m][j] <= r /\ fs[n][k] <= r
  BY <1>6
<1>9. gs[m][j] = r \/ gs[m][j] = fs[m][j]
  BY <1>2, <1>3
<1>10. CASE gs[n][k] = r
  BY <1>7, <1>8, <1>9, <1>10
<1>11. CASE gs[n][k] # r
  <2>1. gs[n][k] = fs[n][k] /\ (n = 0 => k <= o)
    BY <1>3, <1>4, <1>11
  <2>2. gs[m][j] = fs[m][j]
    <3>1. CASE m # 0
      BY <1>3, <3>1
    <3>2. CASE m = 0
      <4>1. n = 0 /\ j < k
        BY <1>5, <3>2
      <4>2. j <= o
        BY <1>7, <2>1, <4>1
      <4> QED
        BY <1>3, <1>4, <1>7, <3>2, <4>2
    <3> QED
      BY <3>1, <3>2
  <2> QED
    BY <1>6, <2>1, <2>2 DEF OrderedIn
<1> QED
  BY <1>10, <1>11

-----------------------------------------------------------------------------
(* One lemma per group of actions: each keeps what the files hold.         *)

FilesKept == CellsKnown /\ TailEmpty /\ OrderKept

\* The facts about types every step below uses.
LEMMA FilesTyped ==
  ASSUME SinkInv
  PROVE  /\ files \in Contents /\ 0 \in Names /\ NoFile \notin Seq(Nat)
         /\ lens \in Seq(Lens) /\ Len(lens) \in Nat
         /\ file_offset \in Nat /\ cur \in Nat /\ rot \in Nat /\ rot + 1 \in Names
         /\ lives \in Nat
<1> USE SinkAssumption
<1>1. SinkTypeOK
  BY DEF SinkInv
<1>2. rot \in 0 .. MAX_ROTATED - 1
  BY <1>1 DEF SinkTypeOK
<1>3. lens \in Seq(Lens) /\ Len(lens) \in Nat
  BY <1>1 DEF SinkTypeOK
<1>4. cur \in Nat
  BY <1>1 DEF SinkTypeOK
<1> QED
  BY <1>1, <1>2, <1>3, <1>4 DEF SinkTypeOK, Contents, Names

\* A step that leaves the files alone.
LEMMA SameFiles ==
  ASSUME FilesInv, UNCHANGED <<files, lens>>, cur' \in {cur, 0}
  PROVE  CellsKnown' /\ OrderKept'
<1>1. CellsKnown /\ OrderKept /\ files' = files /\ lens' = lens
  BY DEF FilesInv
<1>2. CellsKnown'
  BY <1>1 DEF CellsKnown, Exists
<1>3. OrderKept'
  BY <1>1 DEF OrderKept, Exists
<1> QED
  BY <1>2, <1>3

\* The end of an object.
LEMMA VanishKeepsFiles ==
  ASSUME NEW to \in {"none", "terminated"}, Vanish(to), CellsKnown', OrderKept'
  PROVE  FilesKept'
<1>1. pc' \in {"none", "terminated"}
  BY DEF Vanish
<1>2. TailEmpty'
  BY <1>1 DEF TailEmpty
<1> QED
  BY <1>2 DEF FilesKept

\* A new sink finds the files as they are.
LEMMA ConstructKeepsFiles ==
  ASSUME FilesInv, Construct
  PROVE  FilesKept'
<1>1. pc' = "open" /\ UNCHANGED <<files, lens, cur>>
  BY DEF Construct
<1>2. CellsKnown' /\ OrderKept'
  BY <1>1, SameFiles
<1>3. TailEmpty'
  BY <1>1 DEF TailEmpty
<1> QED
  BY <1>2, <1>3 DEF FilesKept

\* open_file goes on at the end of the file it finds or makes
\* (mmap_sink.cpp:94-109).
LEMMA OpensAtItsEnd ==
  ASSUME FilesInv, OpensAtEnd, OpenFile
  PROVE  file_offset' = Len(files'[0])
<1>1. PICK fails \in May("fstat") :
        file_offset' = IF fails THEN file_offset ELSE AppendAt(files'[0])
  BY DEF OpenFile
<1>2. CASE fails
  <2>1. MaxLives = 1 /\ stuck = {}
    BY <1>2 DEF May, OpensAtEnd, FilesInv, SinkInv, SinkTypeOK
  <2>2. pc = "open" /\ ~Exists(0) /\ file_offset = 0
    BY <2>1 DEF FilesInv, OnTheWay, OpenFile, Goto
  <2>3. files'[0] = <<>>
    BY <2>2, FilesTyped DEF OpenFile, FilesInv, Contents
  <2> QED
    BY <1>1, <1>2, <2>2, <2>3
<1>3. CASE ~fails
  BY <1>1, <1>3 DEF AppendAt
<1> QED
  BY <1>2, <1>3 DEF May

\* open_file writes nothing.
LEMMA OpenFileKeepsFiles ==
  ASSUME FilesInv, OpensAtEnd, OpenFile, SinkInv'
  PROVE  FilesKept'
<1> USE SinkAssumption
<1>1. /\ pc = "open" /\ pc' = "extend" /\ fd'
      /\ files' = IF Exists(0) THEN files ELSE [files EXCEPT ![0] = <<>>]
      /\ UNCHANGED <<lens, cur>>
  BY DEF OpenFile, Goto, history
<1>2. /\ CellsKnown /\ OrderKept
      /\ files \in Contents /\ 0 \in Names
  BY FilesTyped DEF FilesInv
<1>3. Exists(0)' /\ files'[0] \in Seq(Nat) /\ Len(files'[0]) \in Nat
      /\ DOMAIN files'[0] = 1 .. Len(files'[0])
  <2>1. files'[0] \in Seq(Nat)
    BY <1>1, <1>2 DEF Contents, Exists
  <2>2. files'[0] # NoFile
    BY <2>1
  <2> QED
    BY <2>1, <2>2 DEF Exists
<1>4. ASSUME NEW n \in Names, files'[n] # NoFile
      PROVE  \A k \in DOMAIN files'[n] : files[n] # NoFile /\ files'[n] = files[n]
  <2>1. CASE Exists(0) \/ n # 0
    BY <1>1, <1>2, <1>4, <2>1 DEF Contents
  <2>2. CASE ~Exists(0) /\ n = 0
    <3>1. files'[n] = <<>> /\ DOMAIN <<>> = {}
      BY <1>1, <1>2, <2>2 DEF Contents
    <3> QED
      BY <3>1
  <2> QED
    BY <2>1, <2>2
<1>5. CellsKnown'
  BY <1>1, <1>2, <1>4 DEF CellsKnown, Exists
<1>6. OrderKept'
  BY <1>2, <1>4 DEF OrderKept, Exists
<1>7. TailEmpty'
  BY <1>1, <1>3, OpensAtItsEnd DEF TailEmpty, Base
<1> QED
  BY <1>5, <1>6, <1>7 DEF FilesKept

\* ftruncate adds zeros, and what it could cut off is zero (mmap_sink.cpp:127-131).
LEMMA ExtendFileKeepsFiles ==
  ASSUME FilesInv, ExtendFile
  PROVE  FilesKept'
<1> USE SinkAssumption
<1>1. PICK fails \in May("ftruncate") :
        IF fails
        THEN GiveUp /\ UNCHANGED files
        ELSE /\ files' = [files EXCEPT ![0] = Resize(@, file_offset + REGION)]
             /\ pc' = "map"
             /\ UNCHANGED <<cur, refused>>
  BY DEF ExtendFile
<1>2. /\ pc = "extend" /\ UNCHANGED <<fd, file_offset, rot, lens, lives>>
  BY DEF ExtendFile, members
<1>3. /\ CellsKnown /\ OrderKept
      /\ fd /\ Exists(0) /\ \A k \in DOMAIN Base : k > file_offset => Base[k] = 0
  BY <1>2 DEF FilesInv, TailEmpty
<1>4. CASE fails
  <2>1. files' = files /\ pc' = "ready" /\ cur' = 0
    BY <1>1, <1>4 DEF GiveUp
  <2>2. CellsKnown' /\ OrderKept'
    BY <1>2, <2>1, SameFiles
  <2>3. TailEmpty'
    BY <1>2, <1>3, <2>1 DEF TailEmpty, Exists, Base
  <2> QED
    BY <2>2, <2>3 DEF FilesKept
<1>5. CASE ~fails
  <2> DEFINE f == Resize(files[0], file_offset + REGION)
  <2>1. files' = [files EXCEPT ![0] = f] /\ pc' = "map" /\ cur' = cur
    BY <1>1, <1>5
  <2>2. /\ files \in Contents /\ 0 \in Names /\ files[0] # NoFile
        /\ file_offset + REGION \in Nat
    BY <1>3, FilesTyped DEF FilesInv, Exists
  <2>3. files[0] \in Seq(Nat) /\ DOMAIN files[0] = 1 .. Len(files[0]) /\ Len(files[0]) \in Nat
    BY <2>2, FileCells
  <2>4. /\ f \in Seq(Nat) /\ DOMAIN f = 1 .. file_offset + REGION
        /\ \A k \in DOMAIN f : f[k] = IF k <= Len(files[0]) THEN files[0][k] ELSE 0
    BY <2>2, <2>3, ResizeResult DEF Resize
  <2>5. OrderedIn(files)
    BY <1>3 DEF OrderKept, OrderedIn, Exists
  <2>6. OrderedIn(files')
    BY <2>1, <2>2, <2>5, ResizeOrdered
  <2> HIDE DEF f
  <2>7. \A k \in DOMAIN f : f[k] = 0 \/ (k \in DOMAIN files[0] /\ f[k] = files[0][k])
    BY <2>2, <2>3, <2>4
  <2>8. files'[0] = f /\ f # NoFile /\ \A n \in Names : n # 0 => files'[n] = files[n]
    BY <2>1, <2>2, <2>4, FilesTyped DEF Contents, FilesInv
  <2>9. CellsKnown'
    <3> SUFFICES ASSUME NEW n \in Names, files'[n] # NoFile, NEW k \in DOMAIN files'[n]
                 PROVE  files'[n][k] <= Len(lens) /\ (cur > 0 => files'[n][k] < Len(lens))
      BY <1>2, <2>1 DEF CellsKnown, Exists
    <3>0. Len(lens) \in Nat /\ (cur > 0 => Len(lens) > 0)
      <4>1. cur > 0 => lens # <<>>
        BY DEF FilesInv, SinkInv
      <4> QED
        BY <4>1, FilesTyped DEF FilesInv
    <3>1. CASE n # 0
      BY <1>3, <2>8, <3>1 DEF CellsKnown, Exists
    <3>2. CASE n = 0
      BY <1>3, <2>2, <2>7, <2>8, <3>0, <3>2 DEF CellsKnown, Exists
    <3> QED
      BY <3>1, <3>2
  <2>10. OrderKept'
    BY <2>6 DEF OrderKept, OrderedIn, Exists
  <2>11. TailEmpty'
    BY <1>2, <1>3, <2>1, <2>7, <2>8 DEF TailEmpty, Exists, Base
  <2> QED
    BY <2>9, <2>10, <2>11 DEF FilesKept
<1> QED
  BY <1>4, <1>5 DEF May

\* mmap touches no file.
LEMMA MapRegionKeepsFiles ==
  ASSUME FilesInv, MapRegion
  PROVE  FilesKept'
<1>1. PICK fails \in May("mmap") :
        IF MapFails(fails)
        THEN GiveUp /\ UNCHANGED <<mapped, map_base, mmap_offset>>
        ELSE /\ mapped' = TRUE
             /\ map_base' = file_offset
             /\ mmap_offset' = 0
             /\ pc' = IF cur = 0 THEN "ready" ELSE "copy"
             /\ UNCHANGED <<cur, refused>>
  BY DEF MapRegion
<1>2. pc = "map" /\ UNCHANGED <<files, fd, file_offset, rot, lens, lives>>
  BY DEF MapRegion
<1>3. pc' \in {"ready", "copy"} /\ cur' \in {cur, 0}
  BY <1>1 DEF GiveUp
<1>4. CellsKnown' /\ OrderKept'
  BY <1>2, <1>3, SameFiles
<1>5. TailEmpty
  BY DEF FilesInv
<1>6. TailEmpty'
  BY <1>2, <1>3, <1>5 DEF TailEmpty, Exists, Base
<1> QED
  BY <1>4, <1>6 DEF FilesKept

\* A record that begins is newer than all cells (mmap_sink.cpp:50-73).
LEMMA WriteKeepsFiles ==
  ASSUME FilesInv, NEW len \in Lens, Write(len)
  PROVE  FilesKept'
<1> USE SinkAssumption
<1>1. /\ pc = "ready" /\ lens' = Append(lens, len)
      /\ UNCHANGED <<files, lives>>
  BY DEF Write
<1>2. CellsKnown /\ TailEmpty /\ OrderKept
  BY DEF FilesInv
<1>3. Len(lens) \in Nat /\ Len(lens') = Len(lens) + 1
  BY <1>1, FilesTyped DEF FilesInv
<1>4. CellsKnown'
  <2> SUFFICES ASSUME NEW n \in Names, files[n] # NoFile, NEW k \in DOMAIN files[n]
               PROVE  files[n][k] < Len(lens')
    BY <1>1, <1>3, FilesTyped, FileCells DEF CellsKnown, Exists, FilesInv
  <2>1. files[n][k] <= Len(lens)
    BY <1>2 DEF CellsKnown, Exists
  <2>2. files[n][k] \in Nat
    BY FilesTyped, FileCells DEF FilesInv
  <2> QED
    BY <1>3, <2>1, <2>2
<1>5. OrderKept'
  BY <1>1, <1>2 DEF OrderKept, Exists
<1>6. /\ fd /\ Exists(0) /\ \A k \in DOMAIN Base : k > file_offset => Base[k] = 0
  BY <1>1, <1>2 DEF TailEmpty
<1>7. CASE WriteRefused(len) \/ WriteInRegion(len) \/ WriteInNewRegion(len)
  <2>1. UNCHANGED <<fd, file_offset>> /\ pc' \in {"ready", "copy", "extend"}
    BY <1>1, <1>7 DEF WriteRefused, WriteInRegion, WriteInNewRegion, members
  <2>2. TailEmpty'
    BY <1>1, <1>6, <2>1 DEF TailEmpty, Exists, Base
  <2> QED
    BY <1>4, <1>5, <2>2 DEF FilesKept
<1>8. CASE WriteInNewFile(len)
  <2>1. pc' = "unlink"
    BY <1>8 DEF WriteInNewFile
  <2>2. TailEmpty'
    BY <2>1 DEF TailEmpty
  <2> QED
    BY <1>4, <1>5, <2>2 DEF FilesKept
<1> QED
  BY <1>7, <1>8 DEF Write

\* Removing or moving files adds no cell.
LEMMA CellsOfOldFiles ==
  ASSUME FilesInv, UNCHANGED <<lens, cur>>,
         \A n \in Names : files'[n] # NoFile =>
           \E m \in Names : files[m] # NoFile /\ files'[n] = files[m]
  PROVE  CellsKnown'
<1>1. CellsKnown
  BY DEF FilesInv
<1> QED
  BY <1>1 DEF CellsKnown, Exists

\* rotate_files removes a file, moves one whole to the next name, also over
\* another, or leaves all as they are (mmap_sink.cpp:174-191).
LEMMA RotationKeepsFiles ==
  ASSUME FilesInv, UnlinkOldest \/ ShiftFile \/ RenameBase
  PROVE  FilesKept'
<1> USE SinkAssumption
<1>1. files \in Contents /\ rot \in Names /\ rot + 1 \in Names /\ OrderedIn(files)
  BY FilesTyped DEF FilesInv, Names, OrderKept, OrderedIn, Exists
<1>2. pc' \in {"shift", "open"} /\ UNCHANGED <<lens, cur>>
  BY DEF UnlinkOldest, ShiftFile, RenameBase, Goto, FilesInv, SinkInv, history
<1>3. TailEmpty'
  BY <1>2 DEF TailEmpty
<1>4. OrderedIn(files') /\ \A n \in Names : files'[n] # NoFile =>
                            \E m \in Names : files[m] # NoFile /\ files'[n] = files[m]
  <2>1. CASE files' = files
    BY <1>1, <2>1
  <2>2. CASE UnlinkOldest
    <3>1. files' \in Contents /\ \A n \in Names : files'[n] # NoFile => files'[n] = files[n]
      BY <1>1, <2>2, UnlinkResult DEF Contents
    <3>2. OrderedIn(files')
      BY <1>1, <3>1, RemovalOrdered
    <3> QED
      BY <3>1, <3>2
  <2>3. CASE (ShiftFile \/ RenameBase) /\ files' # files
    <3>1. Rename(rot, rot + 1)
      BY <2>3 DEF ShiftFile, RenameBase, Shifted
    <3>2. /\ files' \in Contents /\ files[rot] # NoFile
          /\ files' = [files EXCEPT ![rot + 1] = files[rot], ![rot] = NoFile]
          /\ files'[rot] = NoFile /\ files'[rot + 1] = files[rot]
          /\ \A n \in Names : n # rot /\ n # rot + 1 => files'[n] = files[n]
      BY <1>1, <2>3, <3>1, RenameResult DEF Contents
    <3>3. OrderedIn(files')
      BY <1>1, <3>2, MoveOrdered
    <3>4. ASSUME NEW n \in Names, files'[n] # NoFile
          PROVE  \E m \in Names : files[m] # NoFile /\ files'[n] = files[m]
      <4>1. CASE n = rot + 1
        BY <1>1, <3>2, <4>1
      <4>2. CASE n # rot + 1
        BY <1>1, <3>2, <3>4, <4>2
      <4> QED
        BY <4>1, <4>2
    <3> QED
      BY <3>3, <3>4
  <2> QED
    BY <2>1, <2>2, <2>3
<1>5. OrderKept'
  BY <1>4 DEF OrderKept, OrderedIn, Exists
<1>6. CellsKnown'
  BY <1>2, <1>4, CellsOfOldFiles
<1> QED
  BY <1>3, <1>5, <1>6 DEF FilesKept

\* What a memcpy of d cells leaves, all of the record or only the first cells
\* of it (mmap_sink.cpp:76).
LEMMA PasteKeeps ==
  ASSUME FilesInv, pc = "copy", NEW d \in 0 .. cur,
         files' = [files EXCEPT ![0] = Paste(@, map_base + mmap_offset, Record, d)],
         lens' = lens, cur' = 0
  PROVE  /\ CellsKnown' /\ OrderKept' /\ Exists(0)'
         /\ \A k \in DOMAIN Base' : k > file_offset + d => Base'[k] = 0
<1> USE SinkAssumption
<1> DEFINE f == Paste(files[0], file_offset, Record, d)
<1>1. /\ Exists(0) /\ cur > 0 /\ lens # <<>> /\ file_offset = map_base + mmap_offset
      /\ \A k \in DOMAIN Base : k > file_offset => Base[k] = 0
      /\ CellsKnown /\ OrderKept
  BY DEF FilesInv, SinkInv, MappingInFile, CopyIsSafe, TailEmpty
<1>2. /\ files \in Contents /\ 0 \in Names /\ file_offset \in Nat /\ d \in Nat
      /\ Record = Len(lens) /\ Record \in Nat /\ cur \in Nat
  BY FilesTyped DEF FilesInv, Record
<1>3. files' = [files EXCEPT ![0] = f]
  BY <1>1
<1>4. files[0] \in Seq(Nat) /\ DOMAIN files[0] = 1 .. Len(files[0]) /\ Len(files[0]) \in Nat
  BY <1>1, <1>2, FileCells DEF Exists
<1>5. /\ f \in Seq(Nat) /\ DOMAIN f = DOMAIN files[0]
      /\ \A k \in DOMAIN f : f[k] = IF k \in file_offset + 1 .. file_offset + d
                                    THEN Record ELSE files[0][k]
  BY <1>2, <1>4, PasteResult DEF Paste
<1>6. /\ OrderedIn(files)
      /\ \A n \in Names : files[n] # NoFile =>
           \A k \in DOMAIN files[n] : files[n][k] <= Record
  BY <1>1, <1>2 DEF OrderKept, OrderedIn, CellsKnown, Exists
<1>7. OrderedIn(files')
  <2>1. /\ files[0] # NoFile
        /\ \A k \in DOMAIN files[0] : k > file_offset => files[0][k] = 0
    BY <1>1 DEF Exists, Base
  <2>2. \A n \in Names : files[n] # NoFile => \A k \in DOMAIN files[n] : files[n][k] <= Record
    BY <1>6
  <2> HIDE DEF f
  <2>3. OrderedIn([files EXCEPT ![0] = Paste(files[0], file_offset, Record, d)])
    BY <1>2, <1>6, <2>1, <2>2, PasteOrdered
  <2> QED
    BY <1>3, <2>3 DEF f
<1> HIDE DEF f
<1>8. files'[0] = f /\ f # NoFile /\ \A n \in Names : n # 0 => files'[n] = files[n]
  BY <1>2, <1>3, <1>5, FilesTyped DEF Contents, FilesInv
<1>9. OrderKept'
  BY <1>7 DEF OrderKept, OrderedIn, Exists
<1>10. CellsKnown'
  <2> SUFFICES ASSUME NEW n \in Names, files'[n] # NoFile, NEW k \in DOMAIN files'[n]
               PROVE  files'[n][k] <= Record
    BY <1>2 DEF CellsKnown, Exists
  <2>1. CASE n # 0
    BY <1>6, <1>8, <2>1
  <2>2. CASE n = 0
    BY <1>1, <1>2, <1>5, <1>6, <1>8, <2>2 DEF Exists
  <2> QED
    BY <2>1, <2>2
<1>11. Exists(0)'
  BY <1>8 DEF Exists
<1>12. ASSUME NEW k \in DOMAIN f, k > file_offset + d
       PROVE  f[k] = 0
  <2>1. k \in Nat /\ k \notin file_offset + 1 .. file_offset + d /\ k > file_offset
    BY <1>2, <1>4, <1>5, <1>12
  <2> QED
    BY <1>1, <1>5, <2>1 DEF Base
<1>13. Base' = f
  BY <1>8 DEF Base
<1> QED
  BY <1>9, <1>10, <1>11, <1>12, <1>13

\* The memcpy puts the newest record after all others.
LEMMA CopyKeepsFiles ==
  ASSUME FilesInv, Copy
  PROVE  FilesKept'
<1> USE SinkAssumption
<1>1. /\ pc = "copy" /\ pc' = "ready" /\ cur' = 0
      /\ files' = [files EXCEPT ![0] = Paste(@, map_base + mmap_offset, Record, cur)]
      /\ file_offset' = file_offset + cur
      /\ UNCHANGED <<fd, lens, lives>>
  BY DEF Copy, Goto, Advance
<1>2. cur \in 0 .. cur
  BY FilesTyped DEF FilesInv
<1>3. /\ CellsKnown' /\ OrderKept' /\ Exists(0)'
      /\ \A k \in DOMAIN Base' : k > file_offset + cur => Base'[k] = 0
  BY <1>1, <1>2, PasteKeeps
<1>4. TailEmpty
  BY DEF FilesInv
<1>5. TailEmpty'
  BY <1>1, <1>3, <1>4 DEF TailEmpty
<1> QED
  BY <1>3, <1>5 DEF FilesKept

\* flush writes to no file; destructor and failed open leave them as they are;
\* a crash leaves at most the first cells of the record under way.
LEMMA EndsKeepFiles ==
  ASSUME FilesInv, Flush \/ Destruct \/ OpenFails \/ Crash
  PROVE  FilesKept'
<1> USE SinkAssumption
<1>1. CASE Flush
  <2>1. UNCHANGED <<files, lens, cur, pc, fd, file_offset>>
    BY <1>1 DEF Flush, members
  <2>2. TailEmpty
    BY DEF FilesInv
  <2>3. CellsKnown' /\ OrderKept'
    BY <2>1, SameFiles
  <2> QED
    BY <2>1, <2>2, <2>3 DEF FilesKept, TailEmpty, Exists, Base
<1>2. CASE Destruct \/ OpenFails
  <2>1. PICK to \in {"none", "terminated"} : Vanish(to)
    BY <1>2 DEF Destruct, OpenFails
  <2>2. UNCHANGED <<files, lens>> /\ cur' = 0
    BY <1>2 DEF Destruct, OpenFails, Vanish, history
  <2>3. CellsKnown' /\ OrderKept'
    BY <2>2, SameFiles
  <2> QED
    BY <2>1, <2>2, <2>3, VanishKeepsFiles
<1>3. CASE Crash
  <2>1. Vanish("none") /\ UNCHANGED lens /\ cur' = 0
    BY <1>3 DEF Crash, Vanish, history
  <2>2. CASE pc = "copy"
    <3>1. PICK d \in 0 .. cur - 1 :
            files' = [files EXCEPT ![0] = Paste(@, map_base + mmap_offset, Record, d)]
      BY <1>3, <2>2 DEF Crash
    <3>2. d \in 0 .. cur
      BY FilesTyped DEF FilesInv
    <3>3. CellsKnown' /\ OrderKept'
      BY <2>1, <2>2, <3>1, <3>2, PasteKeeps
    <3> QED
      BY <2>1, <3>3, VanishKeepsFiles
  <2>3. CASE pc # "copy"
    <3>1. files' = files
      BY <1>3, <2>3 DEF Crash
    <3>2. CellsKnown' /\ OrderKept'
      BY <2>1, <3>1, SameFiles
    <3> QED
      BY <2>1, <3>2, VanishKeepsFiles
  <2> QED
    BY <2>2, <2>3
<1> QED
  BY <1>1, <1>2, <1>3

\* OnTheWay is inductive, whatever calls fail: a rename that leaves its file
\* where it was is remembered in stuck (mmap_sink.cpp:174-195).
LEMMA OnTheWayStep ==
  ASSUME SinkInv, OnTheWay, [Next]_vars
  PROVE  OnTheWay'
<1> USE SinkAssumption
<1>1. /\ files \in Contents /\ 0 \in Names /\ lives \in Nat /\ cur \in Nat
      /\ rot \in 0 .. MAX_ROTATED - 1 /\ rot \in Names /\ rot + 1 \in Names
  BY FilesTyped DEF SinkInv, SinkTypeOK, Names
<1>2. CASE Construct
  BY <1>1, <1>2 DEF Construct, members, OnTheWay, Exists
<1>3. ASSUME NEW len \in Lens, Write(len)
      PROVE  OnTheWay'
  <2>1. pc = "ready" /\ UNCHANGED <<files, lives>> /\ lives # 0
    BY <1>3 DEF Write, OnTheWay
  <2>2. CASE WriteRefused(len) \/ WriteInRegion(len) \/ WriteInNewRegion(len)
    <3>1. pc' \in {"ready", "copy", "extend"}
      BY <2>1, <2>2 DEF WriteRefused, WriteInRegion, WriteInNewRegion
    <3> QED
      BY <2>1, <3>1 DEF OnTheWay
  <2>3. CASE WriteInNewFile(len)
    <3>1. pc' = "unlink" /\ file_offset' = 0 /\ cur' = len /\ len > 0 /\ mapped
      BY <2>3 DEF WriteInNewFile
    <3>2. Exists(0)
      BY <3>1 DEF SinkInv, MappingInFile
    <3> QED
      BY <2>1, <3>1, <3>2 DEF OnTheWay, Exists
  <2> QED
    BY <1>3, <2>2, <2>3 DEF Write
<1>4. CASE OpenFile \/ ExtendFile \/ MapRegion \/ Copy \/ Flush
  <2>1. pc \in {"open", "extend", "map", "copy", "ready"} /\ lives' = lives
    BY <1>4 DEF OpenFile, ExtendFile, MapRegion, Copy, Flush, Goto, history
  <2>2. pc' \in {"extend", "map", "ready", "copy"}
    BY <1>4 DEF OpenFile, ExtendFile, MapRegion, GiveUp, Copy, Flush, Goto
  <2>3. lives' # 0
    BY <2>1 DEF OnTheWay
  <2> QED
    BY <2>2, <2>3 DEF OnTheWay
<1>5. CASE OpenFails \/ Destruct \/ Crash
  <2>1. /\ pc \notin {"none", "terminated"} /\ lives' = lives
        /\ pc' \in {"none", "terminated"} /\ file_offset' = 0 /\ cur' = 0
    BY <1>5 DEF OpenFails, Destruct, Crash, Vanish, history
  <2>2. lives' # 0
    BY <2>1 DEF OnTheWay
  <2> QED
    BY <2>1, <2>2 DEF OnTheWay
<1>6. CASE UnlinkOldest
  <2>1. /\ pc = "unlink" /\ pc' = "shift" /\ rot' = MAX_ROTATED - 1
        /\ UNCHANGED <<file_offset, cur, lives>>
    BY <1>6 DEF UnlinkOldest, Goto, members, history
  <2>2. files'[0] = files[0]
    BY <1>1, <1>6, UnlinkResult DEF Contents
  <2>3. file_offset = 0 /\ cur > 0 /\ Exists(0) /\ lives # 0
    BY <2>1 DEF OnTheWay
  <2> QED
    BY <2>1, <2>2, <2>3 DEF OnTheWay, Exists
<1>7. CASE ShiftFile \/ RenameBase
  <2>1. pc = "shift" /\ UNCHANGED <<file_offset, cur, lives>> /\ Rename(rot, rot + 1)
    BY <1>7 DEF ShiftFile, RenameBase, Shifted, Goto, members
  <2>2. file_offset = 0 /\ cur > 0 /\ Exists(0) /\ lives # 0
    BY <2>1 DEF OnTheWay
  <2>3. \/ files'[rot] = NoFile /\ \A n \in Names : n # rot /\ n # rot + 1 => files'[n] = files[n]
        \/ files' = files /\ rot \in stuck'
    BY <1>1, <2>1, RenameResult DEF Contents
  <2>4. CASE ShiftFile
    <3>1. rot >= 1 /\ rot' + 1 = rot /\ pc' = "shift"
      BY <1>1, <2>1, <2>4 DEF ShiftFile, NextIndex
    <3>2. files'[0] = files[0]
      BY <1>1, <2>3, <3>1
    <3>3. stuck' \subseteq {0} => files'[rot] = NoFile
      BY <1>1, <2>3, <3>1
    <3> QED
      BY <2>1, <2>2, <3>1, <3>2, <3>3 DEF OnTheWay, Exists
  <2>5. CASE RenameBase
    <3>1. rot = 0 /\ pc' = "open"
      BY <2>5 DEF RenameBase, Goto
    <3>2. 0 \notin stuck' => files'[0] = NoFile
      BY <2>3, <3>1
    <3> QED
      BY <2>1, <2>2, <3>1, <3>2 DEF OnTheWay, Exists
  <2> QED
    BY <1>7, <2>4, <2>5
<1>8. CASE UNCHANGED vars
  BY <1>8 DEF OnTheWay, Exists, vars
<1> QED
  BY <1>2, <1>3, <1>4, <1>5, <1>6, <1>7, <1>8 DEF Next, CallStep

\* FilesInv is inductive.
LEMMA FilesStep ==
  ASSUME OpensAtEnd, FilesInv, [Next]_vars
  PROVE  FilesInv'
<1>1. SinkInv'
  BY SinkStep DEF FilesInv
<1>2. FilesKept'
  <2>1. CASE Construct
    BY <2>1, ConstructKeepsFiles
  <2>2. CASE \E len \in Lens : Write(len)
    BY <2>2, WriteKeepsFiles
  <2>3. CASE OpenFile
    BY <1>1, <2>3, OpenFileKeepsFiles
  <2>4. CASE ExtendFile
    BY <2>4, ExtendFileKeepsFiles
  <2>5. CASE MapRegion
    BY <2>5, MapRegionKeepsFiles
  <2>6. CASE UnlinkOldest \/ ShiftFile \/ RenameBase
    BY <2>6, RotationKeepsFiles
  <2>7. CASE Copy
    BY <2>7, CopyKeepsFiles
  <2>8. CASE Flush \/ Destruct \/ OpenFails \/ Crash
    BY <2>8, EndsKeepFiles
  <2>9. CASE UNCHANGED vars
    BY <2>9 DEF FilesInv, FilesKept, CellsKnown, TailEmpty, OrderKept,
      Exists, Base, vars
  <2> QED
    BY <2>1, <2>2, <2>3, <2>4, <2>5, <2>6, <2>7, <2>8, <2>9 DEF Next, CallStep
<1>3. OnTheWay'
  BY OnTheWayStep DEF FilesInv
<1> QED
  BY <1>1, <1>2, <1>3 DEF FilesInv, FilesKept

\* There is no file at first.
LEMMA FilesInit ==
  ASSUME Init
  PROVE  FilesInv
<1>1. SinkInv
  BY SinkStart
<1>2. \A n \in Names : ~Exists(n)
  BY DEF Init, Exists
<1>3. /\ pc = "none" /\ cur = 0 /\ file_offset = 0
  BY DEF Init
<1> QED
  BY <1>1, <1>2, <1>3 DEF FilesInv, CellsKnown, TailEmpty, OnTheWay, OrderKept

\* From the oldest file to the base file records come in the order they were
\* written, across rotations, restarts and crashes, whatever record lengths and
\* whichever system calls fail, when a sink goes on at the end of the file it
\* opens (write, rotate_files, open_file).
THEOREM OrderAlwaysKept ==
  ASSUME OpensAtEnd
  PROVE  Spec => []OrderKept
<1>1. Init => FilesInv
  BY FilesInit
<1>2. FilesInv /\ [Next]_vars => FilesInv'
  BY FilesStep
<1>3. FilesInv => OrderKept
  BY DEF FilesInv
<1> QED
  BY <1>1, <1>2, <1>3, PTL DEF Spec

-----------------------------------------------------------------------------
(***************************************************************************)
(* Which records are in the files.                                         *)
(***************************************************************************)

\* The cells of a file that belong to record i.
CellsOf(f, i) == {k \in DOMAIN f : f[k] = i}

\* d cells of record i in a row, in some file.
HeldIn(fs, i, d) ==
  \E n \in Names : fs[n] # NoFile /\ \E o \in Nat : o + 1 .. o + d \subseteq CellsOf(fs[n], i)

\* Every file of fs that has cells of record i is, with them, a file of gs.
Carried(fs, gs, i) ==
  \A n \in Names : fs[n] # NoFile =>
    \/ CellsOf(fs[n], i) = {}
    \/ \E m \in Names : gs[m] # NoFile /\ CellsOf(fs[n], i) \subseteq CellsOf(gs[m], i)

\* Inductive when a sink goes on at the end of the file it opens: the record
\* under way is the last one passed to write, and none is under way when the
\* sink is ready.
StoreInv ==
  /\ FilesInv
  /\ pc = "ready" => cur = 0
  /\ cur > 0 => cur = lens[Record] /\ Record \notin accepted
  /\ OldestLostFirst

\* A record is whole in a file when its cells stand there in a row.
LEMMA WholeIsHeld ==
  ASSUME NEW fs \in Contents, NEW i, NEW d \in Nat \ {0}
  PROVE  (\E n \in Names : fs[n] # NoFile /\ \E o \in 0 .. Len(fs[n]) - d :
            \A k \in o + 1 .. o + d : fs[n][k] = i)
         <=> HeldIn(fs, i, d)
<1>1. ASSUME NEW n \in Names, fs[n] # NoFile
      PROVE  (\E o \in 0 .. Len(fs[n]) - d : \A k \in o + 1 .. o + d : fs[n][k] = i)
             <=> \E o \in Nat : o + 1 .. o + d \subseteq CellsOf(fs[n], i)
  <2>1. DOMAIN fs[n] = 1 .. Len(fs[n]) /\ Len(fs[n]) \in Nat
    BY <1>1, FileCells
  <2>2. ASSUME NEW o \in 0 .. Len(fs[n]) - d,
               \A k \in o + 1 .. o + d : fs[n][k] = i
        PROVE  o \in Nat /\ o + 1 .. o + d \subseteq CellsOf(fs[n], i)
    BY <2>1, <2>2 DEF CellsOf
  <2>3. ASSUME NEW o \in Nat, o + 1 .. o + d \subseteq CellsOf(fs[n], i)
        PROVE  /\ o \in 0 .. Len(fs[n]) - d
               /\ \A k \in o + 1 .. o + d : fs[n][k] = i
    <3>1. o + d \in o + 1 .. o + d
      OBVIOUS
    <3>2. o + d \in DOMAIN fs[n]
      BY <2>3, <3>1 DEF CellsOf
    <3> QED
      BY <2>1, <2>3, <3>2 DEF CellsOf
  <2> QED
    BY <2>2, <2>3
<1> QED
  BY <1>1 DEF HeldIn

\* The same, of the records passed to write, now and after a step.
LEMMA StoredIsHeld ==
  ASSUME SinkInv, SinkInv', NEW i \in 1 .. Len(lens), NEW j \in 1 .. Len(lens')
  PROVE  /\ lens[i] \in Nat \ {0} /\ (Stored(i) <=> HeldIn(files, i, lens[i]))
         /\ lens'[j] \in Nat \ {0} /\ (Stored(j)' <=> HeldIn(files', j, lens'[j]))
<1> USE SinkAssumption
<1>1. files \in Contents /\ lens \in Seq(Lens)
  BY DEF SinkInv, SinkTypeOK, Contents
<1>2. files' \in Contents /\ lens' \in Seq(Lens)
  BY DEF SinkInv, SinkTypeOK, Contents
<1>3. lens[i] \in 1 .. REGION
  <2>1. lens[i] \in Lens
    BY <1>1
  <2> QED
    BY <2>1
<1>4. lens'[j] \in 1 .. REGION
  <2>1. lens'[j] \in Lens
    BY <1>2
  <2> QED
    BY <2>1
<1>5. lens[i] \in Nat \ {0} /\ lens'[j] \in Nat \ {0}
  BY <1>3, <1>4
<1>6. Stored(i) <=> HeldIn(files, i, lens[i])
  BY <1>1, <1>5, WholeIsHeld DEF Stored, Exists
<1>7. Stored(j)' <=> HeldIn(files', j, lens'[j])
  BY <1>2, <1>5, WholeIsHeld DEF Stored, Exists
<1> QED
  BY <1>5, <1>6, <1>7

\* What is carried over stays held.
LEMMA CarriedIsHeld ==
  ASSUME NEW fs, NEW gs, NEW i, NEW d \in Nat \ {0}, Carried(fs, gs, i), HeldIn(fs, i, d)
  PROVE  HeldIn(gs, i, d)
<1>1. PICK n \in Names, o \in Nat :
        fs[n] # NoFile /\ o + 1 .. o + d \subseteq CellsOf(fs[n], i)
  BY DEF HeldIn
<1>2. o + 1 \in CellsOf(fs[n], i)
  BY <1>1
<1>3. PICK m \in Names : gs[m] # NoFile /\ CellsOf(fs[n], i) \subseteq CellsOf(gs[m], i)
  BY <1>1, <1>2 DEF Carried
<1> QED
  BY <1>1, <1>3 DEF HeldIn

\* One file changes, and not in its cells of record i.
LEMMA OneFileCarried ==
  ASSUME NEW fs \in Contents, NEW f \in Seq(Nat), NEW i, fs[0] # NoFile,
         CellsOf(f, i) = CellsOf(fs[0], i)
  PROVE  LET gs == [fs EXCEPT ![0] = f] IN Carried(fs, gs, i) /\ Carried(gs, fs, i)
<1> USE SinkAssumption
<1> DEFINE gs == [fs EXCEPT ![0] = f]
<1>1. 0 \in Names /\ f # NoFile
  BY DEF Names
<1>2. gs[0] = f /\ \A n \in Names : n # 0 => gs[n] = fs[n]
  BY <1>1 DEF Contents
<1> HIDE DEF gs
<1>3. \A n \in Names : fs[n] # NoFile => gs[n] # NoFile /\ CellsOf(gs[n], i) = CellsOf(fs[n], i)
  BY <1>1, <1>2
<1>4. \A n \in Names : gs[n] # NoFile => fs[n] # NoFile
  BY <1>1, <1>2
<1>5. Carried(fs, gs, i) /\ Carried(gs, fs, i)
  BY <1>3, <1>4 DEF Carried
<1> QED
  BY <1>5 DEF gs

\* ftruncate leaves the cells of every record (mmap_sink.cpp:127-131).
LEMMA ExtendCarries ==
  ASSUME FilesInv, ExtendFile, NEW i \in Nat \ {0}
  PROVE  Carried(files, files', i) /\ Carried(files', files, i)
<1> USE SinkAssumption
<1>1. PICK fails \in May("ftruncate") :
        IF fails
        THEN UNCHANGED files
        ELSE files' = [files EXCEPT ![0] = Resize(@, file_offset + REGION)]
  BY DEF ExtendFile
<1>2. CASE fails
  BY <1>1, <1>2 DEF Carried
<1>3. CASE ~fails
  <2> DEFINE f == Resize(files[0], file_offset + REGION)
  <2>1. files' = [files EXCEPT ![0] = f]
    BY <1>1, <1>3
  <2>2. /\ files[0] # NoFile
        /\ \A k \in DOMAIN files[0] : k > file_offset => files[0][k] = 0
    BY DEF FilesInv, TailEmpty, ExtendFile, Exists, Base
  <2>3. files \in Contents /\ 0 \in Names /\ file_offset \in Nat /\ file_offset + REGION \in Nat
    BY FilesTyped DEF FilesInv
  <2>4. files[0] \in Seq(Nat) /\ DOMAIN files[0] = 1 .. Len(files[0]) /\ Len(files[0]) \in Nat
    BY <2>2, <2>3, FileCells
  <2>5. /\ f \in Seq(Nat) /\ DOMAIN f = 1 .. file_offset + REGION
        /\ \A k \in DOMAIN f : f[k] = IF k <= Len(files[0]) THEN files[0][k] ELSE 0
    BY <2>3, <2>4, ResizeResult DEF Resize
  <2> HIDE DEF f
  <2>6. CellsOf(f, i) = CellsOf(files[0], i)
    <3>1. ASSUME NEW k \in CellsOf(f, i)
          PROVE  k \in CellsOf(files[0], i)
      BY <2>3, <2>4, <2>5, <3>1 DEF CellsOf
    <3>2. ASSUME NEW k \in CellsOf(files[0], i)
          PROVE  k \in CellsOf(f, i)
      <4>1. k \in 1 .. Len(files[0]) /\ files[0][k] = i
        BY <2>4, <3>2 DEF CellsOf
      <4>2. k <= file_offset
        <5>1. k \in DOMAIN files[0] /\ k \in Nat
          BY <2>4, <4>1
        <5>2. ~(k > file_offset)
          BY <2>2, <4>1, <5>1
        <5> QED
          BY <2>3, <5>1, <5>2
      <4> QED
        BY <2>3, <2>5, <4>1, <4>2 DEF CellsOf
    <3> QED
      BY <3>1, <3>2
  <2> QED
    BY <2>1, <2>2, <2>3, <2>5, <2>6, OneFileCarried
<1> QED
  BY <1>2, <1>3 DEF May

\* The memcpy, whole or cut short, leaves the cells of every older record
\* (mmap_sink.cpp:76).
LEMMA PasteCarries ==
  ASSUME FilesInv, pc = "copy", NEW d \in 0 .. cur,
         files' = [files EXCEPT ![0] = Paste(@, map_base + mmap_offset, Record, d)],
         NEW i \in Nat \ {0}, i # Record
  PROVE  Carried(files, files', i) /\ Carried(files', files, i)
<1> USE SinkAssumption
<1> DEFINE f == Paste(files[0], file_offset, Record, d)
<1>1. /\ files[0] # NoFile /\ file_offset = map_base + mmap_offset
      /\ \A k \in DOMAIN files[0] : k > file_offset => files[0][k] = 0
  BY DEF FilesInv, SinkInv, MappingInFile, CopyIsSafe, TailEmpty, Exists, Base
<1>2. /\ files \in Contents /\ 0 \in Names /\ file_offset \in Nat /\ d \in Nat
      /\ Record \in Nat
  BY FilesTyped DEF FilesInv, Record
<1>3. files' = [files EXCEPT ![0] = f]
  BY <1>1
<1>4. files[0] \in Seq(Nat) /\ DOMAIN files[0] = 1 .. Len(files[0]) /\ Len(files[0]) \in Nat
  BY <1>1, <1>2, FileCells
<1>5. /\ f \in Seq(Nat) /\ DOMAIN f = DOMAIN files[0]
      /\ \A k \in DOMAIN f : f[k] = IF k \in file_offset + 1 .. file_offset + d
                                    THEN Record ELSE files[0][k]
  BY <1>2, <1>4, PasteResult DEF Paste
<1> HIDE DEF f
<1>6. ASSUME NEW k \in DOMAIN files[0]
      PROVE  f[k] = i <=> files[0][k] = i
  <2>1. CASE k \in file_offset + 1 .. file_offset + d
    <3>1. k > file_offset
      BY <1>2, <2>1
    <3> QED
      BY <1>1, <1>5, <2>1, <3>1
  <2>2. CASE k \notin file_offset + 1 .. file_offset + d
    BY <1>5, <2>2
  <2> QED
    BY <2>1, <2>2
<1>7. CellsOf(f, i) = CellsOf(files[0], i)
  BY <1>5, <1>6 DEF CellsOf
<1>8. LET gs == [files EXCEPT ![0] = f] IN Carried(files, gs, i) /\ Carried(gs, files, i)
  BY <1>1, <1>2, <1>5, <1>7, OneFileCarried
<1> QED
  BY <1>3, <1>8

\* open(O_CREAT) carries every file over (mmap_sink.cpp:100-105).
LEMMA OpenCarries ==
  ASSUME FilesInv, OpenFile, NEW i
  PROVE  Carried(files, files', i) /\ Carried(files', files, i)
<1> USE SinkAssumption
<1>1. files \in Contents /\ 0 \in Names
  BY FilesTyped DEF FilesInv, Names
<1>2. CASE Exists(0)
  BY <1>2 DEF OpenFile, Carried
<1>3. CASE ~Exists(0)
  <2>1. files' = [files EXCEPT ![0] = <<>>]
    BY <1>3 DEF OpenFile
  <2>2. files'[0] = <<>> /\ \A n \in Names : n # 0 => files'[n] = files[n]
    BY <1>1, <2>1 DEF Contents
  <2>3. CellsOf(files'[0], i) = {}
    BY <2>2 DEF CellsOf
  <2>4. Carried(files, files', i)
    BY <1>3, <2>2 DEF Carried, Exists
  <2>5. Carried(files', files, i)
    BY <2>2, <2>3 DEF Carried
  <2> QED
    BY <2>4, <2>5
<1> QED
  BY <1>2, <1>3

\* The steps of rotate_files on the file system.
Rotates == UnlinkOldest \/ ShiftFile \/ RenameBase

\* Of the files nothing but the one called t goes, and nothing comes.
MovedOver(t) ==
  /\ \A n \in Names : files[n] # NoFile /\ n # t => \E m \in Names : files'[m] = files[n]
  /\ \A n \in Names : files'[n] # NoFile => \E m \in Names : m # t /\ files[m] = files'[n]

\* A step of rotate_files removes a file or moves one over the next name: the
\* oldest, or a free one while the old files can be renamed
\* (mmap_sink.cpp:177-190).
LEMMA RotationMoves ==
  ASSUME FilesInv, Rotates
  PROVE  /\ UNCHANGED <<cur, lens, accepted, refused>> /\ cur > 0 /\ stuck \subseteq stuck'
         /\ pc \in {"unlink", "shift"}
         /\ \/ files' = files
            \/ \E t \in Names : /\ MovedOver(t) /\ t > 0 /\ (pc = "shift" => t = rot + 1)
                                /\ stuck \subseteq {0} => t = MAX_ROTATED \/ ~Exists(t)
<1> USE SinkAssumption
<1>1. /\ files \in Contents /\ SinkInv /\ OnTheWay
      /\ rot \in Nat /\ rot \in Names /\ rot + 1 \in Names /\ MAX_ROTATED > 0
  BY FilesTyped DEF FilesInv, Names
<1>2. UNCHANGED <<cur, lens, accepted, refused>> /\ cur > 0 /\ pc \in {"unlink", "shift"}
  BY <1>1 DEF Rotates, UnlinkOldest, ShiftFile, RenameBase, Goto, OnTheWay, history
<1>3. CASE UnlinkOldest
  <2>1. /\ MAX_ROTATED \in Names /\ stuck' = stuck /\ pc = "unlink"
        /\ \A n \in Names : n # MAX_ROTATED => files'[n] = files[n]
        /\ \A n \in Names : files'[n] # NoFile => files'[n] = files[n]
        /\ files' = files \/ files' = [files EXCEPT ![MAX_ROTATED] = NoFile]
    BY <1>1, <1>3, UnlinkResult DEF Contents, UnlinkOldest, Goto
  <2>2. CASE files' = [files EXCEPT ![MAX_ROTATED] = NoFile]
    <3>1. files'[MAX_ROTATED] = NoFile
      BY <1>1, <2>1, <2>2 DEF Contents
    <3>2. MovedOver(MAX_ROTATED)
      BY <2>1, <3>1 DEF MovedOver
    <3> QED
      BY <1>1, <1>2, <2>1, <3>2
  <2> QED
    BY <1>2, <2>1, <2>2
<1>4. CASE (ShiftFile \/ RenameBase) /\ files' = files
  <2>1. Rename(rot, rot + 1)
    BY <1>4 DEF ShiftFile, RenameBase, Shifted
  <2>2. stuck \subseteq stuck'
    BY <2>1 DEF Rename
  <2> QED
    BY <1>2, <1>4, <2>2
<1>5. CASE (ShiftFile \/ RenameBase) /\ files' # files
  <2>1. Rename(rot, rot + 1) /\ pc = "shift"
    BY <1>5 DEF ShiftFile, RenameBase, Shifted, Goto
  <2>2. /\ stuck' = stuck
        /\ files'[rot] = NoFile /\ files'[rot + 1] = files[rot]
        /\ \A n \in Names : n # rot /\ n # rot + 1 => files'[n] = files[n]
    BY <1>1, <1>5, <2>1, RenameResult DEF Contents
  <2>3. stuck \subseteq {0} => rot + 1 = MAX_ROTATED \/ ~Exists(rot + 1)
    BY <1>1, <2>1 DEF OnTheWay
  <2>4. ASSUME NEW n \in Names, n # rot + 1
        PROVE  \E m \in Names : files'[m] = files[n]
    <3>1. CASE n = rot
      BY <1>1, <2>2, <3>1
    <3>2. CASE n # rot
      BY <2>2, <2>4, <3>2
    <3> QED
      BY <3>1, <3>2
  <2>5. ASSUME NEW n \in Names, files'[n] # NoFile
        PROVE  \E m \in Names : m # rot + 1 /\ files[m] = files'[n]
    <3>1. CASE n = rot + 1
      BY <1>1, <2>2, <3>1
    <3>2. CASE n # rot + 1
      BY <2>2, <2>5, <3>2
    <3> QED
      BY <3>1, <3>2
  <2>6. MovedOver(rot + 1) /\ rot + 1 > 0
    BY <1>1, <2>4, <2>5 DEF MovedOver
  <2> QED
    BY <1>1, <1>2, <2>2, <2>3, <2>6
<1> QED
  BY <1>3, <1>4, <1>5 DEF Rotates

\* What is stuck is remembered.
LEMMA StuckGrows ==
  ASSUME [Next]_vars
  PROVE  stuck \subseteq stuck'
<1>1. CASE ShiftFile \/ RenameBase
  BY <1>1 DEF ShiftFile, RenameBase, Rename
<1>2. CASE ~ShiftFile /\ ~RenameBase
  BY <1>2 DEF Next, CallStep, Construct, Write, OpenFile, OpenFails, ExtendFile, MapRegion,
    UnlinkOldest, Copy, Flush, Destruct, Crash, vars, history
<1> QED
  BY <1>1, <1>2

\* No step but those of rotate_files takes a record from the files or brings one
\* about, other than the one the memcpy is at.
LEMMA WholeSame ==
  ASSUME StoreInv, SinkInv', [Next]_vars, ~Rotates, NEW i \in 1 .. Len(lens),
         pc = "copy" => i # Record
  PROVE  /\ i \in 1 .. Len(lens') /\ lens'[i] = lens[i]
         /\ Stored(i)' <=> Stored(i)
<1> USE SinkAssumption
<1>1. /\ FilesInv /\ SinkInv /\ lens \in Seq(Lens) /\ Len(lens) \in Nat
      /\ i \in 1 .. Len(lens) /\ i \in Nat \ {0}
  <2>1. FilesInv /\ SinkInv
    BY DEF StoreInv, FilesInv
  <2>2. lens \in Seq(Lens) /\ Len(lens) \in Nat
    BY <2>1, FilesTyped
  <2>3. i \in 1 .. Len(lens)
    OBVIOUS
  <2> QED
    BY <2>1, <2>2, <2>3
<1>2. Carried(files, files', i) /\ Carried(files', files, i)
  <2>1. CASE UNCHANGED files
    BY <2>1 DEF Carried
  <2>2. CASE ExtendFile
    BY <1>1, <2>2, ExtendCarries
  <2>3. CASE OpenFile
    BY <1>1, <2>3, OpenCarries
  <2>4. CASE Copy \/ (Crash /\ pc = "copy")
    <3>1. pc = "copy"
      BY <2>4 DEF Copy, Goto
    <3>2. PICK d \in 0 .. cur :
            files' = [files EXCEPT ![0] = Paste(@, map_base + mmap_offset, Record, d)]
      <4>1. cur \in Nat
        BY <1>1, FilesTyped
      <4>2. CASE Copy
        <5>1. cur \in 0 .. cur
          BY <4>1
        <5> QED
          BY <4>2, <5>1 DEF Copy
      <4>3. CASE Crash
        <5>1. PICK d \in 0 .. cur - 1 :
                files' = [files EXCEPT ![0] = Paste(@, map_base + mmap_offset, Record, d)]
          BY <3>1, <4>3 DEF Crash
        <5>2. d \in 0 .. cur
          BY <4>1
        <5> QED
          BY <5>1, <5>2
      <4> QED
        BY <2>4, <4>2, <4>3
    <3>3. i # Record
      BY <3>1
    <3> QED
      BY <1>1, <3>1, <3>2, <3>3, PasteCarries
  <2> QED
    BY <2>1, <2>2, <2>3, <2>4 DEF Next, CallStep, Construct, Write, OpenFails,
      MapRegion, Flush, Destruct, Crash, vars, Rotates
<1>3. i \in 1 .. Len(lens') /\ lens'[i] = lens[i]
  <2>1. CASE UNCHANGED lens
    BY <1>1, <2>1
  <2>2. ASSUME NEW len \in Lens, Write(len)
        PROVE  i \in 1 .. Len(lens') /\ lens'[i] = lens[i]
    BY <1>1, <2>2 DEF Write
  <2> QED
    BY <2>1, <2>2 DEF Next, CallStep, Construct, OpenFile, OpenFails, ExtendFile,
      MapRegion, UnlinkOldest, ShiftFile, RenameBase, Copy, Flush, Destruct,
      Crash, vars, history
<1>4. /\ lens[i] \in Nat \ {0}
      /\ Stored(i) <=> HeldIn(files, i, lens[i])
      /\ Stored(i)' <=> HeldIn(files', i, lens[i])
  BY <1>1, <1>3, StoredIsHeld
<1> QED
  BY <1>2, <1>3, <1>4, CarriedIsHeld

\* So an accepted record stays where it is.
LEMMA StoredSame ==
  ASSUME StoreInv, SinkInv', [Next]_vars, ~Rotates, NEW i \in accepted
  PROVE  Stored(i)' <=> Stored(i)
<1>1. i \in 1 .. Len(lens)
  BY DEF StoreInv, FilesInv, SinkInv, SinkTypeOK
<1>2. pc = "copy" => i # Record
  BY DEF StoreInv, FilesInv, SinkInv
<1> QED
  BY <1>1, <1>2, WholeSame

\* It loses only records that are in that file alone (mmap_sink.cpp:177-190).
LEMMA RotationLoses ==
  ASSUME StoreInv, SinkInv', Rotates, NEW t \in Names, MovedOver(t), NEW i \in 1 .. Len(lens)
  PROVE  /\ Stored(i)' => \E n \in Names : /\ n # t /\ Exists(n)
                                           /\ i \in {files[n][k] : k \in DOMAIN files[n]}
         /\ Stored(i) /\ ~Stored(i)' =>
              Exists(t) /\ i \in {files[t][k] : k \in DOMAIN files[t]}
         /\ Stored(i)' => Stored(i)
<1> USE SinkAssumption
<1>1. /\ FilesInv /\ SinkInv /\ files \in Contents /\ lens' = lens
      /\ i \in 1 .. Len(lens) /\ i \in Nat \ {0}
  <2>1. FilesInv /\ SinkInv
    BY DEF StoreInv, FilesInv
  <2>2. files \in Contents /\ Len(lens) \in Nat
    BY <2>1, FilesTyped
  <2>3. i \in Nat \ {0}
    BY <2>2
  <2>4. lens' = lens
    BY <2>1, RotationMoves
  <2> QED
    BY <2>1, <2>2, <2>3, <2>4
<1>2. /\ lens[i] \in Nat \ {0}
      /\ Stored(i) <=> HeldIn(files, i, lens[i])
      /\ Stored(i)' <=> HeldIn(files', i, lens[i])
  BY <1>1, StoredIsHeld
<1>3. ASSUME NEW fs, NEW n \in Names, NEW o \in Nat,
             o + 1 .. o + lens[i] \subseteq CellsOf(fs[n], i)
      PROVE  i \in {fs[n][k] : k \in DOMAIN fs[n]}
  <2>1. o + 1 \in CellsOf(fs[n], i)
    BY <1>2, <1>3
  <2> QED
    BY <2>1 DEF CellsOf
<1>4. ASSUME HeldIn(files', i, lens[i])
      PROVE  /\ HeldIn(files, i, lens[i])
             /\ \E n \in Names : /\ n # t /\ Exists(n)
                                 /\ i \in {files[n][k] : k \in DOMAIN files[n]}
  <2>1. PICK n \in Names, o \in Nat :
          files'[n] # NoFile /\ o + 1 .. o + lens[i] \subseteq CellsOf(files'[n], i)
    BY <1>4 DEF HeldIn
  <2>2. PICK m \in Names : m # t /\ files[m] = files'[n]
    BY <2>1 DEF MovedOver
  <2>3. HeldIn(files, i, lens[i])
    BY <2>1, <2>2 DEF HeldIn
  <2>4. i \in {files[m][k] : k \in DOMAIN files[m]}
    BY <1>3, <2>1, <2>2
  <2> QED
    BY <2>1, <2>2, <2>3, <2>4 DEF Exists
<1>5. ASSUME HeldIn(files, i, lens[i]), ~HeldIn(files', i, lens[i])
      PROVE  Exists(t) /\ i \in {files[t][k] : k \in DOMAIN files[t]}
  <2>1. PICK n \in Names, o \in Nat :
          files[n] # NoFile /\ o + 1 .. o + lens[i] \subseteq CellsOf(files[n], i)
    BY <1>5 DEF HeldIn
  <2>2. n = t
    <3> SUFFICES ASSUME n # t PROVE FALSE
      OBVIOUS
    <3>1. PICK m \in Names : files'[m] = files[n]
      BY <2>1 DEF MovedOver
    <3> QED
      BY <1>5, <2>1, <3>1 DEF HeldIn
  <2> QED
    BY <1>3, <2>1, <2>2 DEF Exists
<1> QED
  BY <1>2, <1>4, <1>5

\* The memcpy leaves the whole record in the base file (mmap_sink.cpp:76).
LEMMA CopyStores ==
  ASSUME StoreInv, SinkInv', Copy
  PROVE  Stored(Record)' /\ accepted' = accepted \cup {Record} /\ Record = Len(lens)
<1> USE SinkAssumption
<1>1. /\ FilesInv /\ SinkInv /\ pc = "copy" /\ cur > 0 /\ cur = lens[Record]
      /\ map_base \in Nat /\ mmap_offset \in Nat /\ files[0] # NoFile
      /\ map_base + mmap_offset + cur <= Len(files[0])
  <2>1. FilesInv /\ SinkInv /\ SinkTypeOK /\ pc = "copy" /\ cur > 0 /\ cur = lens[Record]
    BY DEF StoreInv, FilesInv, SinkInv, Copy, Goto
  <2>2. /\ files[0] # NoFile /\ map_base + REGION <= Len(files[0])
        /\ mmap_offset + cur <= REGION
    BY <2>1 DEF SinkInv, MappingInFile, CopyIsSafe, Exists, Base
  <2>3. files[0] \in Seq(Nat) /\ Len(files[0]) \in Nat /\ cur \in Nat
    BY <2>1, <2>2, FilesTyped, FileCells
  <2>4. map_base \in Nat /\ mmap_offset \in Nat
    BY <2>1 DEF SinkTypeOK
  <2> QED
    BY <2>1, <2>2, <2>3, <2>4
<1>2. /\ files \in Contents /\ 0 \in Names /\ cur \in Nat \ {0} /\ lens \in Seq(Lens)
      /\ Len(lens) \in Nat /\ lens # <<>>
  BY <1>1, FilesTyped DEF SinkInv
<1>3. Record = Len(lens) /\ Record \in 1 .. Len(lens) /\ lens' = lens
  BY <1>2 DEF Record, Copy
<1> DEFINE o == map_base + mmap_offset
           f == Paste(files[0], o, Record, cur)
<1>4. files[0] \in Seq(Nat) /\ DOMAIN files[0] = 1 .. Len(files[0]) /\ Len(files[0]) \in Nat
  BY <1>1, <1>2, FileCells
<1>5. /\ DOMAIN f = 1 .. Len(files[0])
      /\ \A k \in DOMAIN f : f[k] = IF k \in o + 1 .. o + cur
                                    THEN Record ELSE files[0][k]
  BY <1>1, <1>2, <1>3, <1>4, PasteResult DEF Paste
<1>6. files'[0] = f /\ files' \in Contents
  BY <1>2 DEF Copy, Contents, SinkInv, SinkTypeOK
<1>7. o \in Nat /\ o + 1 .. o + cur \subseteq CellsOf(files'[0], Record)
  <2>1. o \in Nat /\ \A k \in o + 1 .. o + cur : k \in 1 .. Len(files[0])
    BY <1>1, <1>2, <1>4
  <2> HIDE DEF f, o
  <2> QED
    BY <1>5, <1>6, <2>1 DEF CellsOf
<1>8. HeldIn(files', Record, cur)
  <2>1. files'[0] # NoFile
    BY <1>1 DEF Copy, SinkInv, MappingInFile, CopyIsSafe, Exists
  <2> QED
    BY <1>2, <1>7, <2>1 DEF HeldIn
<1>9. \A i \in 1 .. Len(lens) : lens'[i] = lens[i] /\ (Stored(i)' <=> HeldIn(files', i, lens[i]))
  BY <1>1, <1>3, StoredIsHeld
<1>10. Stored(Record)'
  <2>1. Record' = Record
    BY <1>3 DEF Record
  <2> QED
    BY <1>1, <1>3, <1>8, <1>9, <2>1
<1> QED
  BY <1>3, <1>10 DEF Copy

\* The record under way.
LEMMA RecordUnderWay ==
  ASSUME StoreInv, [Next]_vars
  PROVE  /\ pc' = "ready" => cur' = 0
         /\ cur' > 0 => cur' = lens'[Record'] /\ Record' \notin accepted'
<1> USE SinkAssumption
<1>1. /\ SinkInv /\ OnTheWay /\ lens \in Seq(Lens) /\ Len(lens) \in Nat
      /\ accepted \subseteq 1 .. Len(lens)
  <2>1. SinkInv /\ OnTheWay
    BY DEF StoreInv, FilesInv
  <2> QED
    BY <2>1, FilesTyped DEF SinkInv, SinkTypeOK
<1>2. /\ pc = "ready" => cur = 0
      /\ cur > 0 => cur = lens[Len(lens)] /\ Len(lens) \notin accepted
  BY DEF StoreInv, Record
<1>3. ASSUME cur' = 0
      PROVE  ~(cur' > 0)
  BY <1>3
<1>4. CASE UNCHANGED <<cur, lens, accepted>> /\ (pc' # "ready" \/ UNCHANGED pc)
  BY <1>2, <1>4 DEF Record
<1>5. ASSUME NEW len \in Lens, Write(len)
      PROVE  /\ pc' = "ready" => cur' = 0
             /\ cur' > 0 => cur' = lens'[Len(lens')] /\ Len(lens') \notin accepted'
  <2>1. /\ pc = "ready" /\ lens' = Append(lens, len) /\ accepted' = accepted
    BY <1>5 DEF Write
  <2>2. Len(lens') = Len(lens) + 1 /\ lens'[Len(lens) + 1] = len
    BY <1>1, <2>1
  <2>3. Len(lens') \notin accepted'
    BY <1>1, <2>1, <2>2
  <2>4. CASE WriteRefused(len)
    <3>1. cur' = 0
      BY <1>2, <2>1, <2>4 DEF WriteRefused
    <3> QED
      BY <3>1
  <2>5. CASE WriteInRegion(len) \/ WriteInNewRegion(len) \/ WriteInNewFile(len)
    <3>1. cur' = len /\ pc' # "ready"
      BY <2>5 DEF WriteInRegion, WriteInNewRegion, WriteInNewFile
    <3> QED
      BY <2>2, <2>3, <3>1
  <2> QED
    BY <1>5, <2>4, <2>5 DEF Write
<1>6. CASE ExtendFile
  <2>1. PICK fails \in May("ftruncate") :
          IF fails THEN GiveUp ELSE pc' = "map" /\ cur' = cur
    BY <1>6 DEF ExtendFile
  <2>2. CASE fails
    BY <1>3, <2>1, <2>2 DEF GiveUp
  <2>3. CASE ~fails
    BY <1>4, <1>6, <2>1, <2>3 DEF ExtendFile
  <2> QED
    BY <2>2, <2>3
<1>7. CASE MapRegion
  <2>1. PICK fails \in May("mmap") :
          IF MapFails(fails) THEN GiveUp
          ELSE pc' = (IF cur = 0 THEN "ready" ELSE "copy") /\ cur' = cur
    BY <1>7 DEF MapRegion
  <2>2. CASE MapFails(fails) \/ cur = 0
    <3>1. cur' = 0
      BY <2>1, <2>2 DEF GiveUp
    <3> QED
      BY <3>1
  <2>3. CASE ~MapFails(fails) /\ cur # 0
    BY <1>4, <1>7, <2>1, <2>3 DEF MapRegion
  <2> QED
    BY <2>2, <2>3
<1>8. CASE Copy \/ OpenFails \/ Destruct \/ Crash
  <2>1. cur' = 0
    BY <1>8 DEF Copy, OpenFails, Destruct, Crash, Vanish
  <2> QED
    BY <2>1
<1>9. CASE Construct \/ OpenFile \/ UnlinkOldest \/ ShiftFile \/ RenameBase \/ Flush \/ UNCHANGED vars
  BY <1>4, <1>9 DEF Construct, OpenFile, UnlinkOldest, ShiftFile, RenameBase, Flush, vars,
    Goto, history
<1> QED
  BY <1>5, <1>6, <1>7, <1>8, <1>9 DEF Next, CallStep, Record

\* StoreInv is inductive.
LEMMA StoreStep ==
  ASSUME OpensAtEnd, StoreInv, [Next]_vars
  PROVE  StoreInv'
<1> USE SinkAssumption
<1>1. FilesInv' /\ SinkInv'
  BY FilesStep DEF StoreInv, FilesInv
<1>2. /\ pc' = "ready" => cur' = 0
      /\ cur' > 0 => cur' = lens'[Record'] /\ Record' \notin accepted'
  BY RecordUnderWay
<1>3. accepted \subseteq 1 .. Len(lens) /\ Len(lens) \in Nat
  BY FilesTyped DEF StoreInv, FilesInv, SinkInv, SinkTypeOK
<1>4. stuck \subseteq {0} => \A i, j \in accepted : i < j /\ Stored(i) => Stored(j)
  BY DEF StoreInv, OldestLostFirst
<1>5. OldestLostFirst'
  <2>1. CASE ~Rotates /\ ~Copy
    <3>1. accepted' = accepted /\ stuck' = stuck
      BY <2>1 DEF Next, CallStep, Construct, Write, OpenFile, OpenFails, ExtendFile,
        MapRegion, Flush, Destruct, Crash, vars, history, Rotates
    <3>2. \A i \in accepted : Stored(i)' <=> Stored(i)
      BY <1>1, <2>1, StoredSame
    <3> QED
      BY <1>4, <3>1, <3>2 DEF OldestLostFirst
  <2>2. CASE Copy
    <3>1. Stored(Record)' /\ accepted' = accepted \cup {Record} /\ Record = Len(lens)
      BY <1>1, <2>2, CopyStores
    <3>2. ~Rotates /\ stuck' = stuck
      BY <2>2 DEF Copy, Rotates, UnlinkOldest, ShiftFile, RenameBase, Goto
    <3>3. \A i \in accepted : Stored(i)' <=> Stored(i)
      BY <1>1, <3>2, StoredSame
    <3>4. Record' = Record
      BY <2>2 DEF Copy, Record
    <3> SUFFICES ASSUME stuck \subseteq {0}, NEW i \in accepted', NEW j \in accepted',
                        i < j, Stored(i)'
                 PROVE  Stored(j)'
      BY <3>2 DEF OldestLostFirst
    <3>5. CASE j = Record
      BY <3>1, <3>4, <3>5
    <3>6. CASE j # Record
      <4>1. j \in accepted /\ i \in accepted
        BY <1>3, <3>1, <3>6
      <4> QED
        BY <1>4, <3>3, <4>1
    <3> QED
      BY <3>5, <3>6
  <2>3. CASE Rotates
    <3>1. UNCHANGED <<accepted, lens>> /\ stuck \subseteq stuck'
      BY <2>3, RotationMoves DEF StoreInv
    <3>2. CASE files' = files
      <4>1. \A i \in accepted : Stored(i)' <=> Stored(i)
        BY <3>1, <3>2 DEF Stored, Exists
      <4> QED
        BY <1>4, <3>1, <4>1 DEF OldestLostFirst
    <3>3. CASE files' # files
      <4>1. PICK t \in Names : /\ MovedOver(t) /\ t > 0
                               /\ stuck \subseteq {0} => t = MAX_ROTATED \/ ~Exists(t)
        BY <2>3, <3>3, RotationMoves DEF StoreInv
      <4> SUFFICES ASSUME stuck \subseteq {0}, NEW i \in accepted, NEW j \in accepted,
                          i < j, Stored(i)', ~Stored(j)'
                   PROVE  FALSE
        BY <3>1 DEF OldestLostFirst
      <4>2. Stored(i) /\ Stored(j)
        BY <1>1, <1>3, <1>4, <2>3, <4>1, RotationLoses
      <4>3. PICK n \in Names : /\ n # t /\ Exists(n)
                               /\ i \in {files[n][k] : k \in DOMAIN files[n]}
        BY <1>1, <1>3, <2>3, <4>1, RotationLoses
      <4>4. Exists(t) /\ j \in {files[t][k] : k \in DOMAIN files[t]}
        BY <1>1, <1>3, <2>3, <4>1, <4>2, RotationLoses
      <4>5. t > n
        BY <4>1, <4>3, <4>4 DEF Names
      <4>6. i > 0 /\ j > 0 /\ i \in Nat /\ j \in Nat
        BY <1>3
      <4>7. PICK k \in DOMAIN files[n] : files[n][k] = i
        BY <4>3
      <4>8. PICK l \in DOMAIN files[t] : files[t][l] = j
        BY <4>4
      <4>9. j <= i
        BY <4>3, <4>4, <4>5, <4>6, <4>7, <4>8 DEF StoreInv, FilesInv, OrderKept
      <4> QED
        BY <4>6, <4>9
    <3> QED
      BY <3>2, <3>3
  <2> QED
    BY <2>1, <2>2, <2>3
<1> QED
  BY <1>1, <1>2, <1>5 DEF StoreInv

\* Nothing was accepted at first.
LEMMA StoreInit ==
  ASSUME Init
  PROVE  StoreInv
<1>1. FilesInv
  BY FilesInit
<1> QED
  BY <1>1 DEF Init, StoreInv, OldestLostFirst

\* Accepted records are lost only from the old end, until a rename of an old
\* file fails, whatever other call fails (the unlink and the rename of the base
\* file too) and wherever the process dies, when a sink goes on at the end of
\* the file it opens (rotate_files, mmap_sink.cpp:174-191).
THEOREM OnlyOldestLost ==
  ASSUME OpensAtEnd
  PROVE  Spec => []OldestLostFirst
<1>1. Init => StoreInv
  BY StoreInit
<1>2. StoreInv /\ [Next]_vars => StoreInv'
  BY StoreStep
<1>3. StoreInv => OldestLostFirst
  BY DEF StoreInv
<1> QED
  BY <1>1, <1>2, <1>3, PTL DEF Spec

-----------------------------------------------------------------------------
(***************************************************************************)
(* The files as a log of records: no step but the memcpy makes a record    *)
(* whole, and none but a rotation's takes one away.                        *)
(***************************************************************************)
\* A record none of whose cells is in a file is not there.
LEMMA NoCellsNotHeld ==
  ASSUME NEW fs, NEW i, NEW d \in Nat \ {0},
         \A n \in Names : fs[n] # NoFile => CellsOf(fs[n], i) = {}
  PROVE  ~HeldIn(fs, i, d)
<1> SUFFICES ASSUME NEW n \in Names, fs[n] # NoFile, NEW o \in Nat,
                    o + 1 .. o + d \subseteq CellsOf(fs[n], i)
             PROVE  FALSE
  BY DEF HeldIn
<1>1. o + 1 \in o + 1 .. o + d
  OBVIOUS
<1> QED
  BY <1>1

\* Before its memcpy a record is in no file.
LEMMA UnderWayNotStored ==
  ASSUME FilesInv, cur > 0
  PROVE  /\ Record \in 1 .. Len(lens) /\ ~Stored(Record)
         /\ \A n \in Names : Exists(n) => CellsOf(files[n], Record) = {}
<1> USE SinkAssumption
<1>1. /\ SinkInv /\ files \in Contents /\ lens \in Seq(Lens) /\ Len(lens) \in Nat
      /\ lens # <<>>
  BY FilesTyped DEF FilesInv, SinkInv
<1>2. Record \in 1 .. Len(lens) /\ Record = Len(lens)
  BY <1>1 DEF Record
<1>3. \A n \in Names : Exists(n) => CellsOf(files[n], Record) = {}
  <2> SUFFICES ASSUME NEW n \in Names, Exists(n), NEW k \in DOMAIN files[n],
                      files[n][k] = Record
               PROVE  FALSE
    BY DEF CellsOf
  <2>1. files[n][k] < Len(lens)
    BY DEF FilesInv, CellsKnown
  <2> QED
    BY <1>1, <1>2, <2>1
<1>4. lens[Record] \in Nat \ {0}
  <2>1. lens[Record] \in Lens
    BY <1>1, <1>2
  <2>2. lens[Record] \in 1 .. REGION
    BY <2>1
  <2> QED
    BY <2>2
<1>5. ~HeldIn(files, Record, lens[Record])
  BY <1>3, <1>4, NoCellsNotHeld DEF Exists
<1>6. ~Stored(Record)
  BY <1>1, <1>4, <1>5, WholeIsHeld DEF Stored, Exists
<1> QED
  BY <1>2, <1>3, <1>6

\* A memcpy the process did not survive leaves only a part of the record
\* (mmap_sink.cpp:76).
LEMMA CutShort ==
  ASSUME StoreInv, SinkInv', pc = "copy", Crash
  PROVE  ~Stored(Record)'
<1> USE SinkAssumption
<1>1. /\ FilesInv /\ SinkInv /\ cur > 0 /\ cur = lens[Record] /\ cur \in Nat
      /\ files \in Contents /\ files' \in Contents /\ 0 \in Names
      /\ Len(lens) \in Nat /\ lens' = lens /\ files[0] # NoFile
  <2>1. FilesInv /\ SinkInv
    BY DEF StoreInv, FilesInv
  <2>2. cur > 0 /\ cur = lens[Record]
    BY <2>1 DEF StoreInv, SinkInv
  <2>3. files \in Contents /\ 0 \in Names /\ Len(lens) \in Nat /\ cur \in Nat
    BY <2>1, FilesTyped
  <2>4. SinkTypeOK'
    BY DEF SinkInv
  <2>5. files' \in Contents
    BY <2>4 DEF SinkTypeOK, Contents
  <2>6. lens' = lens
    BY DEF Crash, history
  <2>7. files[0] # NoFile
    BY <2>1 DEF SinkInv, MappingInFile, CopyIsSafe, Exists
  <2> QED
    BY <2>1, <2>2, <2>3, <2>5, <2>6, <2>7
<1>2. PICK d \in 0 .. cur - 1 :
        files' = [files EXCEPT ![0] = Paste(@, map_base + mmap_offset, Record, d)]
  BY DEF Crash
<1> DEFINE o == map_base + mmap_offset
           f == Paste(files[0], o, Record, d)
<1>3. /\ o \in Nat /\ d \in Nat /\ d < cur
      /\ Record \in 1 .. Len(lens) /\ Record \in Nat /\ Record' = Record
      /\ \A n \in Names : files[n] # NoFile => CellsOf(files[n], Record) = {}
  <2>1. map_base \in Nat /\ mmap_offset \in Nat
    BY <1>1 DEF SinkInv, SinkTypeOK
  <2>2. o \in Nat
    BY <2>1
  <2> HIDE DEF o
  <2>3. d \in Nat /\ d < cur
    BY <1>1
  <2>4. /\ Record \in 1 .. Len(lens)
        /\ \A n \in Names : files[n] # NoFile => CellsOf(files[n], Record) = {}
    BY <1>1, UnderWayNotStored DEF Exists
  <2>5. Record \in Nat
    BY <1>1 DEF Record
  <2>6. Record' = Record
    BY <1>1 DEF Record
  <2> QED
    BY <2>2, <2>3, <2>4, <2>5, <2>6
<1>4. /\ DOMAIN f = DOMAIN files[0]
      /\ \A k \in DOMAIN f : f[k] = IF k \in o + 1 .. o + d THEN Record ELSE files[0][k]
  <2>1. files[0] \in Seq(Nat)
    BY <1>1, FileCells
  <2> QED
    BY <1>3, <2>1, PasteResult DEF Paste
<1>5. files'[0] = f /\ \A n \in Names : n # 0 => files'[n] = files[n]
  BY <1>1, <1>2 DEF Contents
<1> HIDE DEF o, f
<1>6. CellsOf(f, Record) \subseteq o + 1 .. o + d
  BY <1>1, <1>3, <1>4 DEF CellsOf
<1>7. ~HeldIn(files', Record, cur)
  <2> SUFFICES ASSUME NEW n \in Names, files'[n] # NoFile, NEW q \in Nat,
                      q + 1 .. q + cur \subseteq CellsOf(files'[n], Record)
               PROVE  FALSE
    BY DEF HeldIn
  <2>1. q + 1 \in q + 1 .. q + cur /\ q + cur \in q + 1 .. q + cur
    BY <1>1
  <2>2. CASE n # 0
    BY <1>3, <1>5, <2>1, <2>2
  <2>3. CASE n = 0
    <3>1. q + 1 \in o + 1 .. o + d /\ q + cur \in o + 1 .. o + d
      BY <1>5, <1>6, <2>1, <2>3
    <3> QED
      BY <1>1, <1>3, <3>1
  <2> QED
    BY <2>2, <2>3
<1>8. \A i \in 1 .. Len(lens) : Stored(i)' <=> HeldIn(files', i, lens'[i])
  BY <1>1, StoredIsHeld
<1> QED
  BY <1>1, <1>3, <1>7, <1>8

\* A record passed to write is in no file yet.
LEMMA WriteStoresNothing ==
  ASSUME StoreInv, NEW len \in Lens, Write(len)
  PROVE  /\ Len(lens') = Len(lens) + 1
         /\ \A i : i = Len(lens) + 1 => ~Stored(i)'
<1> USE SinkAssumption
<1>1. /\ FilesInv /\ SinkInv /\ lens \in Seq(Lens) /\ Len(lens) \in Nat
      /\ files' = files /\ lens' = Append(lens, len) /\ files \in Contents
  BY FilesTyped DEF StoreInv, FilesInv, Write
<1>2. Len(lens') = Len(lens) + 1 /\ lens'[Len(lens) + 1] = len
  BY <1>1
<1>3. len \in 1 .. REGION
  OBVIOUS
<1>4. len \in Nat \ {0}
  BY <1>3
<1>5. ASSUME NEW i, i = Len(lens) + 1
      PROVE  ~Stored(i)'
  <2>1. ASSUME NEW n \in Names, files[n] # NoFile
        PROVE  CellsOf(files[n], i) = {}
    <3> SUFFICES ASSUME NEW k \in DOMAIN files[n], files[n][k] = i
                 PROVE  FALSE
      BY DEF CellsOf
    <3>1. files[n][k] <= Len(lens)
      BY <1>1, <2>1 DEF FilesInv, CellsKnown, Exists
    <3> QED
      BY <1>1, <1>5, <3>1
  <2>2. ~HeldIn(files, i, len)
    BY <1>4, <2>1, NoCellsNotHeld
  <2>3. ~(\E n \in Names : files[n] # NoFile /\ \E o \in 0 .. Len(files[n]) - len :
            \A k \in o + 1 .. o + len : files[n][k] = i)
    BY <1>1, <1>4, <2>2, WholeIsHeld
  <2>4. lens'[i] = len /\ files' = files
    BY <1>1, <1>2, <1>5
  <2> QED
    BY <2>3, <2>4 DEF Stored, Exists
<1> QED
  BY <1>2, <1>5

\* The memcpy adds its record to those that are whole, and no other step but
\* those of rotate_files changes them (mmap_sink.cpp:76).
LEMMA WholeAfter ==
  ASSUME StoreInv, SinkInv', [Next]_vars, ~Rotates
  PROVE  /\ Copy => Whole' = Whole \cup {Record}
         /\ ~Copy => Whole' = Whole
<1>1. /\ FilesInv /\ SinkInv /\ Len(lens) \in Nat /\ (pc = "copy" => cur > 0)
  BY FilesTyped DEF StoreInv, FilesInv, SinkInv
<1>2. CASE pc # "copy"
  <2>1. \A i \in 1 .. Len(lens) : i \in 1 .. Len(lens') /\ (Stored(i)' <=> Stored(i))
    BY <1>2, WholeSame
  <2>2. ~Copy
    BY <1>2 DEF Copy, Goto
  <2>3. CASE lens' = lens
    BY <2>1, <2>2, <2>3 DEF Whole
  <2>4. ASSUME NEW len \in Lens, Write(len)
        PROVE  Whole' = Whole
    <3>1. Len(lens') = Len(lens) + 1 /\ \A i : i = Len(lens) + 1 => ~Stored(i)'
      BY <2>4, WriteStoresNothing
    <3>2. \A i \in 1 .. Len(lens') : i \in 1 .. Len(lens) \/ i = Len(lens) + 1
      BY <1>1, <3>1
    <3> QED
      BY <2>1, <3>1, <3>2 DEF Whole
  <2> QED
    BY <2>2, <2>3, <2>4 DEF Next, CallStep, Construct, OpenFile, OpenFails, ExtendFile,
      MapRegion, Rotates, Copy, Flush, Destruct, Crash, vars, history
<1>3. CASE pc = "copy"
  <2>1. /\ Copy \/ Crash \/ UNCHANGED vars
        /\ lens' = lens
    BY <1>3 DEF Next, CallStep, Construct, Write, OpenFile, OpenFails, ExtendFile,
      MapRegion, UnlinkOldest, ShiftFile, RenameBase, Copy, Flush, Destruct, Crash, vars,
      history, Goto
  <2>2. Record \in 1 .. Len(lens) /\ ~Stored(Record)
    BY <1>1, <1>3, UnderWayNotStored
  <2>3. \A i \in 1 .. Len(lens) : i # Record => (Stored(i)' <=> Stored(i))
    BY WholeSame
  <2>4. Record' = Record
    BY <2>1 DEF Record
  <2>5. CASE Copy
    <3>1. Stored(Record)'
      BY <2>5, CopyStores
    <3> QED
      BY <2>1, <2>2, <2>3, <2>4, <2>5, <3>1 DEF Whole
  <2>6. CASE Crash /\ ~Copy
    <3>1. ~Stored(Record)'
      BY <1>3, <2>6, CutShort
    <3> QED
      BY <2>1, <2>2, <2>3, <2>4, <2>6, <3>1 DEF Whole
  <2>7. CASE UNCHANGED vars
    <3>1. ~Copy /\ Whole' = Whole
      BY <1>3, <2>7 DEF vars, Copy, Goto, Whole, Stored, Exists
    <3> QED
      BY <3>1
  <2> QED
    BY <2>1, <2>5, <2>6, <2>7
<1> QED
  BY <1>2, <1>3

\* On top of StoreInv: nothing but accepted records can be read whole.
LogInv == StoreInv /\ Whole \subseteq accepted

\* A rotation brings no record about (mmap_sink.cpp:174-191).
LEMMA RotationOnlyLoses ==
  ASSUME StoreInv, SinkInv', Rotates
  PROVE  Whole' \subseteq Whole
<1>1. lens' = lens
  BY RotationMoves DEF StoreInv
<1>2. CASE files' = files
  BY <1>1, <1>2 DEF Whole, Stored, Exists
<1>3. CASE files' # files
  <2>1. PICK t \in Names : MovedOver(t)
    BY <1>3, RotationMoves DEF StoreInv
  <2>2. \A i \in 1 .. Len(lens) : Stored(i)' => Stored(i)
    BY <2>1, RotationLoses
  <2> QED
    BY <1>1, <2>2 DEF Whole
<1> QED
  BY <1>2, <1>3

\* LogInv is inductive.
LEMMA LogStep ==
  ASSUME OpensAtEnd, LogInv, [Next]_vars
  PROVE  LogInv'
<1>1. StoreInv' /\ SinkInv' /\ StoreInv
  BY StoreStep DEF LogInv, StoreInv, FilesInv
<1>2. Whole \subseteq accepted /\ accepted \subseteq accepted'
  <2>1. accepted \subseteq accepted'
    BY DEF Next, CallStep, Construct, Write, OpenFile, OpenFails, ExtendFile, MapRegion,
      UnlinkOldest, ShiftFile, RenameBase, Copy, Flush, Destruct, Crash, vars, history
  <2> QED
    BY <2>1 DEF LogInv
<1>3. CASE Rotates
  <2>1. Whole' \subseteq Whole
    BY <1>1, <1>3, RotationOnlyLoses
  <2> QED
    BY <1>1, <1>2, <2>1 DEF LogInv
<1>4. CASE ~Rotates /\ Copy
  <2>1. Whole' = Whole \cup {Record} /\ accepted' = accepted \cup {Record}
    BY <1>1, <1>4, WholeAfter, CopyStores
  <2> QED
    BY <1>1, <1>2, <2>1 DEF LogInv
<1>5. CASE ~Rotates /\ ~Copy
  <2>1. Whole' = Whole
    BY <1>1, <1>5, WholeAfter
  <2> QED
    BY <1>1, <1>2, <2>1 DEF LogInv
<1> QED
  BY <1>3, <1>4, <1>5

\* A step that changes nothing a caller or a reader sees.
Unseen == UNCHANGED <<Len(lens), cur > 0, accepted, refused, Whole, stuck \subseteq {0}>>

\* write's first step asks, or refuses when there is no region
\* (mmap_sink.cpp:50-60).
LEMMA WriteAsks ==
  ASSUME LogInv, LogInv', NEW len \in Lens, Write(len)
  PROVE  Records!Ask \/ Records!RefuseAtOnce
<1> USE SinkAssumption
<1>1. /\ ~(cur > 0) /\ StoreInv /\ SinkInv' /\ Len(lens') = Len(lens) + 1
      /\ accepted' = accepted
  BY WriteStoresNothing DEF LogInv, StoreInv, FilesInv, Write
<1>2. Whole' = Whole /\ stuck' = stuck
  <2>1. ~Rotates /\ ~Copy /\ [Next]_vars /\ stuck' = stuck
    BY DEF Write, Rotates, UnlinkOldest, ShiftFile, RenameBase, Copy, Goto, Next
  <2> QED
    BY <1>1, <2>1, WholeAfter
<1>3. CASE WriteRefused(len)
  BY <1>1, <1>2, <1>3 DEF WriteRefused, Records!RefuseAtOnce
<1>4. CASE WriteInRegion(len) \/ WriteInNewRegion(len) \/ WriteInNewFile(len)
  <2>1. cur' = len /\ refused' = refused
    BY <1>4 DEF WriteInRegion, WriteInNewRegion, WriteInNewFile
  <2>2. cur' > 0
    BY <2>1
  <2> QED
    BY <1>1, <1>2, <2>1, <2>2 DEF Records!Ask
<1> QED
  BY <1>3, <1>4 DEF Write

\* rotate_files drops the oldest, until a rename of an old file fails
\* (mmap_sink.cpp:177-190).
LEMMA RotationDrops ==
  ASSUME LogInv, LogInv', Rotates
  PROVE  Records!DropOldest \/ Records!DropAny
<1>1. /\ StoreInv /\ SinkInv' /\ cur > 0 /\ lens' = lens /\ cur' = cur
      /\ accepted' = accepted /\ refused' = refused /\ stuck \subseteq stuck'
  BY RotationMoves DEF LogInv, StoreInv, FilesInv
<1>2. Whole' \subseteq Whole
  BY <1>1, RotationOnlyLoses
<1>3. CASE stuck' \subseteq {0}
  <2>1. ASSUME NEW i \in Whole \ Whole', NEW j \in Whole'
        PROVE  i < j
    <3>1. /\ i \in Nat /\ j \in Nat /\ i # j /\ i \in accepted' /\ j \in accepted'
          /\ ~Stored(i)' /\ Stored(j)'
      BY <1>1, <1>2 DEF Whole, LogInv
    <3>2. ~(j < i)
      BY <1>3, <3>1 DEF LogInv, StoreInv, OldestLostFirst
    <3> QED
      BY <3>1, <3>2
  <2> QED
    BY <1>1, <1>2, <1>3, <2>1 DEF Records!DropOldest
<1>4. CASE ~(stuck' \subseteq {0})
  BY <1>1, <1>2, <1>4 DEF Records!DropAny
<1> QED
  BY <1>3, <1>4

\* The memcpy accepts.
LEMMA CopyAccepts ==
  ASSUME LogInv, LogInv', Copy
  PROVE  Records!Accept
<1>1. /\ StoreInv /\ SinkInv' /\ cur > 0 /\ cur' = 0 /\ lens' = lens
      /\ refused' = refused /\ stuck' = stuck
  BY DEF LogInv, StoreInv, FilesInv, SinkInv, Copy, Goto
<1>2. accepted' = accepted \cup {Record} /\ Record = Len(lens)
  BY <1>1, CopyStores
<1>3. Whole' = Whole \cup {Record}
  <2>1. ~Rotates /\ [Next]_vars
    BY DEF Copy, Rotates, UnlinkOldest, ShiftFile, RenameBase, Goto, Next, CallStep
  <2> QED
    BY <1>1, <2>1, WholeAfter
<1> QED
  BY <1>1, <1>2, <1>3 DEF Records!Accept

\* The other steps, between which a write may end without its record
\* (mmap_sink.cpp:61-74, :100-125).
LEMMA OthersEndAtMost ==
  ASSUME LogInv, LogInv', [Next]_vars, ~Copy, ~Rotates, \A len \in Lens : ~Write(len)
  PROVE  Records!Refuse \/ Records!Abandon \/ Unseen
<1>1. StoreInv /\ SinkInv' /\ Whole' = Whole
  BY WholeAfter DEF LogInv, StoreInv, FilesInv
<1>2. lens' = lens /\ accepted' = accepted /\ stuck' = stuck
  BY DEF Next, CallStep, Construct, OpenFile, OpenFails, ExtendFile, MapRegion,
    Rotates, Flush, Destruct, Crash, vars, history
<1>3. Record = Len(lens) /\ (cur = 0 => ~(cur > 0))
  BY DEF Record
<1>4. CASE UNCHANGED <<cur, refused>>
  BY <1>1, <1>2, <1>4 DEF Unseen
<1>5. CASE GiveUp
  <2>1. ~(cur' > 0)
    BY <1>5 DEF GiveUp
  <2>2. CASE cur > 0
    <3>1. refused' = refused \cup {Len(lens)}
      BY <1>3, <1>5, <2>2 DEF GiveUp
    <3> QED
      BY <1>1, <1>2, <2>1, <2>2, <3>1 DEF Records!Refuse
  <2>3. CASE ~(cur > 0)
    <3>1. cur \in Nat
      BY <1>1, FilesTyped DEF StoreInv, FilesInv
    <3>2. cur = 0
      BY <2>3, <3>1
    <3>3. refused' = refused
      BY <1>5, <3>2 DEF GiveUp
    <3> QED
      BY <1>1, <1>2, <2>1, <2>3, <3>3 DEF Unseen
  <2> QED
    BY <2>2, <2>3
<1>6. CASE cur' = 0 /\ refused' = refused
  <2>1. ~(cur' > 0)
    BY <1>6
  <2>2. CASE cur > 0
    BY <1>1, <1>2, <1>6, <2>1, <2>2 DEF Records!Abandon
  <2>3. CASE ~(cur > 0)
    BY <1>1, <1>2, <1>6, <2>1, <2>3 DEF Unseen
  <2> QED
    BY <2>2, <2>3
<1>7. \/ UNCHANGED <<cur, refused>> \/ GiveUp \/ (cur' = 0 /\ refused' = refused)
  BY DEF Next, CallStep, Construct, OpenFile, OpenFails, ExtendFile, MapRegion,
    Rotates, Flush, Destruct, Crash, Vanish, vars, history
<1> QED
  BY <1>4, <1>5, <1>6, <1>7

\* Every step is a step of the log, or none.
LEMMA RecordLogStep ==
  ASSUME LogInv, LogInv', [Next]_vars
  PROVE  [Records!RNext]_<<Len(lens), cur > 0, accepted, refused, Whole, stuck \subseteq {0}>>
<1>1. CASE \E len \in Lens : Write(len)
  BY <1>1, WriteAsks DEF Records!RNext
<1>2. CASE Rotates
  BY <1>2, RotationDrops DEF Records!RNext
<1>3. CASE Copy
  BY <1>3, CopyAccepts DEF Records!RNext
<1>4. CASE ~Copy /\ ~Rotates /\ \A len \in Lens : ~Write(len)
  BY <1>4, OthersEndAtMost DEF Unseen, Records!RNext
<1> QED
  BY <1>1, <1>2, <1>3, <1>4

\* No files are an empty log.
LEMMA RecordLogStart ==
  ASSUME Init
  PROVE  LogInv /\ Records!RInit
<1>1. /\ Whole = {} /\ ~(cur > 0) /\ Len(lens) = 0 /\ accepted = {} /\ refused = {}
      /\ stuck \subseteq {0}
  BY DEF Init, Whole
<1> QED
  BY <1>1, StoreInit DEF LogInv, Records!RInit

\* Whatever calls fail and wherever processes die, the files are a log of
\* records, when a sink goes on at the end of the file it opens: until a rename
\* of an old file fails, of the records that were accepted but for the oldest,
\* and after that of accepted records that go in any order, but only while a
\* write makes room (mmap_sink.cpp:50-82, :174-195).
THEOREM SinkIsRecordLog ==
  ASSUME OpensAtEnd
  PROVE  Spec => ImplementsRecordLog
<1>1. Init => LogInv /\ Records!RInit
  BY RecordLogStart
<1>2. LogInv /\ [Next]_vars => LogInv'
  BY LogStep
<1>3. LogInv /\ LogInv' /\ [Next]_vars =>
        [Records!RNext]_<<Len(lens), cur > 0, accepted, refused, Whole, stuck \subseteq {0}>>
  BY RecordLogStep
<1> QED
  BY <1>1, <1>2, <1>3, PTL DEF Spec, ImplementsRecordLog, Records!RSpec, Records!rvars

\* What the log keeps is the new end of what it accepted.
KeepsNewEnd ==
  /\ Len(lens) \in Nat /\ accepted \subseteq 1 .. Len(lens)
  /\ cur > 0 => Len(lens) > 0 /\ Len(lens) \notin accepted
  /\ Whole \subseteq accepted
  /\ stuck \subseteq {0} => \A i, j \in accepted : i < j /\ i \in Whole => j \in Whole

\* The log cannot do otherwise.
LEMMA RecordLogKeepsNewEnd ==
  ASSUME KeepsNewEnd, [Records!RNext]_<<Len(lens), cur > 0, accepted, refused, Whole, stuck \subseteq {0}>>
  PROVE  KeepsNewEnd'
<1>1. CASE Records!Ask \/ Records!RefuseAtOnce
  <2>1. /\ Len(lens') = Len(lens) + 1 /\ accepted' = accepted /\ Whole' = Whole
        /\ (stuck' \subseteq {0}) = (stuck \subseteq {0})
    BY <1>1 DEF Records!Ask, Records!RefuseAtOnce
  <2>2. Len(lens') \in Nat /\ Len(lens') > 0 /\ accepted \subseteq 1 .. Len(lens')
        /\ Len(lens') \notin accepted
    BY <2>1 DEF KeepsNewEnd
  <2> QED
    BY <2>1, <2>2 DEF KeepsNewEnd
<1>2. CASE Records!Accept
  <2>1. /\ Len(lens) > 0 /\ ~(cur' > 0) /\ Len(lens') = Len(lens)
        /\ accepted' = accepted \cup {Len(lens)} /\ Whole' = Whole \cup {Len(lens)}
        /\ (stuck' \subseteq {0}) = (stuck \subseteq {0})
    BY <1>2 DEF Records!Accept, KeepsNewEnd
  <2>2. ASSUME stuck \subseteq {0}, NEW i \in accepted', NEW j \in accepted', i < j,
               i \in Whole'
        PROVE  j \in Whole'
    <3>1. CASE j = Len(lens)
      BY <2>1, <3>1
    <3>2. CASE j # Len(lens)
      <4>1. j \in accepted /\ i # Len(lens)
        BY <2>1, <2>2, <3>2 DEF KeepsNewEnd
      <4> QED
        BY <2>1, <2>2, <4>1 DEF KeepsNewEnd
    <3> QED
      BY <3>1, <3>2
  <2>3. accepted' \subseteq 1 .. Len(lens')
    <3>1. Len(lens) \in 1 .. Len(lens) /\ accepted \subseteq 1 .. Len(lens)
      BY <2>1 DEF KeepsNewEnd
    <3> QED
      BY <2>1, <3>1
  <2>4. Whole' \subseteq accepted'
    BY <2>1 DEF KeepsNewEnd
  <2> QED
    BY <2>1, <2>2, <2>3, <2>4 DEF KeepsNewEnd
<1>3. CASE Records!Refuse \/ Records!Abandon
  BY <1>3 DEF Records!Refuse, Records!Abandon, KeepsNewEnd
<1>4. CASE Records!DropOldest
  <2>1. /\ Len(lens') = Len(lens) /\ accepted' = accepted /\ Whole' \subseteq Whole
        /\ (cur' > 0) = (cur > 0) /\ (stuck' \subseteq {0}) = (stuck \subseteq {0})
        /\ \A i \in Whole \ Whole', j \in Whole' : i < j
    BY <1>4 DEF Records!DropOldest
  <2>2. ASSUME stuck \subseteq {0}, NEW i \in accepted, NEW j \in accepted, i < j, i \in Whole', j \notin Whole'
        PROVE  FALSE
    <3>1. j \in Whole /\ i \in Nat /\ j \in Nat
      BY <2>1, <2>2 DEF KeepsNewEnd
    <3>2. j < i
      BY <2>1, <2>2, <3>1
    <3> QED
      BY <2>2, <3>1, <3>2
  <2> QED
    BY <2>1, <2>2 DEF KeepsNewEnd
<1>5. CASE Records!DropAny
  BY <1>5 DEF Records!DropAny, KeepsNewEnd
<1>6. CASE UNCHANGED <<Len(lens), cur > 0, accepted, refused, Whole, stuck \subseteq {0}>>
  BY <1>6 DEF KeepsNewEnd
<1> QED
  BY <1>1, <1>2, <1>3, <1>4, <1>5, <1>6 DEF Records!RNext

\* RecordLog promises enough: that only the oldest records are lost follows
\* from it alone, without files or regions (mmap_sink.cpp:174-191).
THEOREM RecordLogLosesOldest == ImplementsRecordLog => []OldestLostFirst
<1>1. Records!RInit => KeepsNewEnd
  <2> SUFFICES ASSUME Records!RInit PROVE KeepsNewEnd
    OBVIOUS
  <2> QED
    BY DEF Records!RInit, KeepsNewEnd
<1>2. KeepsNewEnd /\ [Records!RNext]_<<Len(lens), cur > 0, accepted, refused, Whole, stuck \subseteq {0}>>
        => KeepsNewEnd'
  BY RecordLogKeepsNewEnd
<1>3. KeepsNewEnd => OldestLostFirst
  BY DEF KeepsNewEnd, OldestLostFirst, Whole
<1> QED
  BY <1>1, <1>2, <1>3, PTL DEF ImplementsRecordLog, Records!RSpec, Records!rvars

-----------------------------------------------------------------------------
(***************************************************************************)
(* How many old files are kept.                                            *)
(***************************************************************************)

\* A rotation, once begun, is not cut short, or no process follows.
RotationsEnd == ~Crashes \/ MaxLives = 1

\* Old files are numbered from 1 without gaps, but for the one the loop of
\* rotate_files has just made, until a rename fails.
NoGap ==
  \/ stuck # {}
  \/ pc \in {"none", "terminated"} /\ lives = MaxLives
  \/ \A m, n \in 1 .. MAX_ROTATED :
       m < n /\ Exists(n) /\ ~(pc = "shift" /\ m = rot + 1) => Exists(m)

\* rotate_files leaves no gap in the numbers (mmap_sink.cpp:174-191).
LEMMA NoGapStep ==
  ASSUME RotationsEnd, FilesInv, NoGap, [Next]_vars
  PROVE  NoGap'
<1> USE SinkAssumption
<1> DEFINE Dense == \A m, n \in 1 .. MAX_ROTATED :
             m < n /\ Exists(n) /\ ~(pc = "shift" /\ m = rot + 1) => Exists(m)
<1>1. /\ files \in Contents /\ OnTheWay /\ lives \in Nat /\ rot \in 0 .. MAX_ROTATED - 1
      /\ lives \in 0 .. MaxLives
  <2>1. SinkTypeOK /\ OnTheWay
    BY DEF FilesInv, SinkInv
  <2> QED
    BY <2>1 DEF SinkTypeOK, Contents
<1>2. CASE Construct
  <2>1. /\ pc \in {"none", "terminated"} /\ lives # MaxLives /\ pc' = "open"
        /\ files' = files /\ stuck' = stuck
    BY <1>1, <1>2 DEF Construct
  <2>2. Dense \/ stuck # {}
    BY <2>1 DEF NoGap
  <2> QED
    BY <2>1, <2>2 DEF NoGap, Exists
<1>3. CASE ~Construct /\ ~UNCHANGED vars /\ stuck' = {}
  <2>1. Dense
    <3>1. pc \notin {"none", "terminated"} /\ stuck = {}
      BY <1>3, StuckGrows DEF Next, CallStep, Write, OpenFile, OpenFails, ExtendFile, MapRegion,
        UnlinkOldest, ShiftFile, RenameBase, Copy, Flush, Destruct, Crash, Goto
    <3> QED
      BY <3>1 DEF NoGap
  <2> SUFFICES Dense' \/ (pc' \in {"none", "terminated"} /\ lives' = MaxLives)
    BY DEF NoGap
  <2>2. ASSUME NEW n \in 1 .. MAX_ROTATED
        PROVE  n \in Names /\ n # 0
    BY DEF Names
  <2>3. CASE Crash
    <3>1. MaxLives = 1 /\ lives' = lives /\ lives # 0 /\ pc' = "none"
      BY <1>1, <2>3 DEF RotationsEnd, Crash, OnTheWay, Vanish, history
    <3>2. lives' = MaxLives
      BY <1>1, <3>1
    <3> QED
      BY <3>1, <3>2
  <2>4. CASE UnlinkOldest
    <3>1. pc = "unlink" /\ pc' = "shift" /\ rot' = MAX_ROTATED - 1
      BY <2>4 DEF UnlinkOldest, Goto
    <3>2. /\ \A n \in Names : n # MAX_ROTATED => files'[n] = files[n]
          /\ \A n \in Names : files'[n] # NoFile => files'[n] = files[n]
      BY <1>1, <2>4, UnlinkResult DEF Contents
    <3> QED
      BY <2>1, <2>2, <3>1, <3>2 DEF Exists
  <2>5. CASE ShiftFile
    <3>1. /\ rot >= 1 /\ Rename(rot, rot + 1) /\ rot' = rot - 1
          /\ pc = "shift" /\ pc' = "shift" /\ rot \in Names /\ rot + 1 \in Names
      BY <1>1, <2>5 DEF ShiftFile, Shifted, NextIndex, Names
    <3>2. /\ files'[rot] = NoFile
          /\ \/ files[rot] # NoFile /\ files'[rot + 1] = files[rot]
             \/ files[rot] = NoFile /\ files'[rot + 1] = files[rot + 1]
          /\ \A n \in Names : n # rot /\ n # rot + 1 => files'[n] = files[n]
      <4>1. rot \notin stuck'
        BY <1>3
      <4> QED
        BY <1>1, <3>1, <4>1, RenameResult DEF Contents
    <3> SUFFICES ASSUME NEW m \in 1 .. MAX_ROTATED, NEW n \in 1 .. MAX_ROTATED,
                        m < n, files'[n] # NoFile, m # rot
                 PROVE  files'[m] # NoFile
      BY <1>1, <3>1 DEF Exists
    <3>4. n # rot
      BY <3>2
    <3>5. CASE files[rot] # NoFile
      <4>1. CASE m = rot + 1
        BY <3>2, <3>5, <4>1
      <4>2. CASE m # rot + 1 /\ n = rot + 1
        <5>1. m < rot /\ rot \in 1 .. MAX_ROTATED
          BY <1>1, <3>1, <4>2
        <5>2. files[m] # NoFile
          BY <2>1, <3>5, <5>1, <4>2 DEF Exists
        <5> QED
          BY <2>2, <3>2, <4>2, <5>2
      <4>3. CASE m # rot + 1 /\ n # rot + 1
        <5>1. files[n] # NoFile
          BY <2>2, <3>2, <3>4, <4>3
        <5>2. files[m] # NoFile
          BY <2>1, <4>3, <5>1 DEF Exists
        <5> QED
          BY <2>2, <3>2, <4>3, <5>2
      <4> QED
        BY <4>1, <4>2, <4>3
    <3>6. CASE files[rot] = NoFile
      <4>1. files[n] # NoFile
        BY <2>2, <3>2, <3>4, <3>6
      <4>2. n < rot
        <5>1. rot \in 1 .. MAX_ROTATED
          BY <1>1, <3>1
        <5>2. ~(rot < n)
          BY <2>1, <3>6, <4>1, <5>1 DEF Exists
        <5> QED
          BY <3>4, <5>1, <5>2
      <4>3. files[m] # NoFile /\ m # rot + 1
        BY <1>1, <2>1, <4>1, <4>2 DEF Exists
      <4> QED
        BY <2>2, <3>2, <4>3
    <3> QED
      BY <3>5, <3>6
  <2>6. CASE RenameBase
    <3>1. /\ rot = 0 /\ Rename(0, 1)
          /\ pc = "shift" /\ pc' = "open" /\ 0 \in Names /\ 1 \in Names
      BY <1>1, <2>6 DEF RenameBase, Goto, Names
    <3>2. files[0] # NoFile
      BY <1>1, <3>1 DEF OnTheWay, Exists
    <3>3. /\ files'[1] = files[0]
          /\ \A n \in Names : n # 0 /\ n # 1 => files'[n] = files[n]
      <4>1. 0 \notin stuck' /\ 0 + 1 = 1
        BY <1>3
      <4> QED
        BY <1>1, <3>1, <3>2, <4>1, RenameResult DEF Contents
    <3> SUFFICES ASSUME NEW m \in 1 .. MAX_ROTATED, NEW n \in 1 .. MAX_ROTATED,
                        m < n, files'[n] # NoFile
                 PROVE  files'[m] # NoFile
      BY DEF Exists
    <3>4. CASE m = 1
      BY <3>2, <3>3, <3>4
    <3>5. CASE m # 1
      <4>1. n \in Names /\ m \in Names /\ n # 0 /\ n # 1 /\ m # 0 /\ m # 1
        BY <2>2, <3>5
      <4>2. files[n] # NoFile
        BY <3>3, <4>1
      <4>3. files[m] # NoFile
        BY <2>1, <3>1, <3>5, <4>2 DEF Exists
      <4> QED
        BY <3>3, <4>1, <4>3
    <3> QED
      BY <3>4, <3>5
  <2>7. CASE ~Crash /\ ~UnlinkOldest /\ ~ShiftFile /\ ~RenameBase
    <3>1. pc # "shift" /\ pc' # "shift"
      BY <1>3, <2>7 DEF Next, CallStep, Write, WriteRefused, WriteInRegion, WriteInNewRegion,
        WriteInNewFile, OpenFile, OpenFails, ExtendFile, MapRegion, GiveUp, Copy,
        Flush, Destruct, Goto, Vanish
    <3>2. \A n \in Names : n # 0 => files'[n] = files[n]
      BY <1>1, <1>3, <2>7 DEF Next, CallStep, Write, OpenFile, OpenFails, ExtendFile,
        MapRegion, Copy, Flush, Destruct, Contents
    <3>3. \A n \in 1 .. MAX_ROTATED : files'[n] = files[n]
      BY <2>2, <3>2
    <3> QED
      BY <2>1, <3>1, <3>3 DEF Exists
  <2> QED
    BY <2>3, <2>4, <2>5, <2>6, <2>7
<1>4. CASE UNCHANGED vars
  BY <1>4 DEF NoGap, Exists, vars
<1>5. CASE stuck' # {}
  BY <1>5 DEF NoGap
<1> QED
  BY <1>2, <1>3, <1>4, <1>5

\* Until a rename fails, an accepted record goes only when max_rotated_ old
\* files exist, if every rotation ends and a sink goes on at the end of the file
\* it opens (rotate_files, mmap_sink.cpp:174-191).
THEOREM OldFilesKept ==
  ASSUME OpensAtEnd, RotationsEnd
  PROVE  Spec => KeepsOldFiles
<1> USE SinkAssumption
<1> DEFINE Inv == StoreInv /\ NoGap
           Lost == \A i \in accepted : stuck = {} /\ Stored(i) /\ ~Stored(i)' =>
                     \A n \in 1 .. MAX_ROTATED : Exists(n)
<1>1. Init => Inv
  <2>1. Init => StoreInv
    BY StoreInit
  <2>2. Init => NoGap
    BY DEF Init, NoGap, Exists, Names
  <2> QED
    BY <2>1, <2>2
<1>2. Inv /\ [Next]_vars => Inv'
  <2>1. StoreInv /\ NoGap /\ [Next]_vars => StoreInv' /\ NoGap'
    BY StoreStep, NoGapStep DEF StoreInv
  <2> QED
    BY <2>1
<1>3. Inv /\ Inv' /\ [Next]_vars => Lost
  <2> SUFFICES ASSUME StoreInv, NoGap, SinkInv', [Next]_vars, stuck = {},
                      NEW i \in accepted, Stored(i), ~Stored(i)',
                      NEW n \in 1 .. MAX_ROTATED
               PROVE  Exists(n)
    BY DEF StoreInv, FilesInv
  <2>1. Rotates
    BY StoredSame
  <2>2. files' # files
    <3>1. lens' = lens
      BY <2>1, RotationMoves DEF StoreInv
    <3> QED
      BY <3>1 DEF Stored, Exists
  <2>3. PICK t \in Names : /\ MovedOver(t) /\ (pc = "shift" => t = rot + 1)
                           /\ t = MAX_ROTATED \/ ~Exists(t)
    BY <2>1, <2>2, RotationMoves DEF StoreInv
  <2>4. t = MAX_ROTATED /\ Exists(MAX_ROTATED)
    <3>1. i \in 1 .. Len(lens)
      BY DEF StoreInv, FilesInv, SinkInv, SinkTypeOK
    <3>2. Exists(t)
      BY <2>1, <2>3, <3>1, RotationLoses
    <3> QED
      BY <2>3, <3>2
  <2>5. CASE n = MAX_ROTATED
    BY <2>4, <2>5
  <2>6. CASE n # MAX_ROTATED
    <3>1. n < MAX_ROTATED /\ MAX_ROTATED \in 1 .. MAX_ROTATED
      BY <2>6
    <3>2. pc \in {"unlink", "shift"} /\ ~(pc = "shift" /\ n = rot + 1)
      BY <2>1, <2>3, <2>4, <2>6, RotationMoves DEF StoreInv
    <3> QED
      BY <2>4, <3>1, <3>2 DEF NoGap
  <2> QED
    BY <2>5, <2>6
<1>4. Inv /\ Inv' /\ [Next]_vars => [Lost]_vars
  BY <1>3
<1> HIDE DEF Inv
<1>5. Spec => [][Lost]_vars
  BY <1>1, <1>2, <1>4, PTL DEF Spec
<1> QED
  BY <1>5 DEF KeepsOldFiles

-----------------------------------------------------------------------------
(***************************************************************************)
(* Where regions begin.                                                    *)
(***************************************************************************)
Multiple(x, y) == \E k \in Nat : x = k * y

\* The next multiple, and the least.
LEMMA MultipleNext ==
  ASSUME NEW y \in Nat, NEW x, Multiple(x, y)
  PROVE  x \in Nat /\ Multiple(x + y, y) /\ Multiple(0, y)
<1>1. PICK k \in Nat : x = k * y
  BY DEF Multiple
<1>2. x \in Nat
  BY <1>1
<1>3. x + y = (k + 1) * y /\ 0 = 0 * y
  BY <1>1
<1> QED
  BY <1>2, <1>3 DEF Multiple

\* A multiple of a multiple.
LEMMA MultipleTransitive ==
  ASSUME NEW z \in Nat, NEW y, NEW x, Multiple(x, y), Multiple(y, z)
  PROVE  Multiple(x, z)
<1>1. PICK k \in Nat : x = k * y
  BY DEF Multiple
<1>2. PICK l \in Nat : y = l * z
  BY DEF Multiple
<1>3. x = (k * l) * z /\ k * l \in Nat
  BY <1>1, <1>2
<1> QED
  BY <1>3 DEF Multiple

\* A smaller factor makes a product smaller by d or more.
LEMMA FactorsOrdered ==
  ASSUME NEW d \in Nat \ {0}, NEW k \in Nat, NEW l \in Nat, k < l
  PROVE  k * d + d <= l * d
<1>1. PICK e \in Nat : l = k + 1 + e
  <2>1. l - k - 1 \in Nat
    OBVIOUS
  <2> QED
    BY <2>1
<1>2. l * d = k * d + d + e * d
  BY <1>1
<1>3. e * d \in Nat /\ k * d \in Nat
  OBVIOUS
<1> QED
  BY <1>2, <1>3

\* Two multiples of d that are closer than d are equal.
LEMMA LastMultiple ==
  ASSUME NEW d \in Nat \ {0}, NEW x, NEW y, Multiple(x, d), Multiple(y, d), x <= y, x + d > y
  PROVE  x = y
<1>1. PICK k \in Nat : x = k * d
  BY DEF Multiple
<1>2. PICK l \in Nat : y = l * d
  BY DEF Multiple
<1>3. x \in Nat /\ y \in Nat
  BY <1>1, <1>2
<1>4. ~(k < l)
  BY <1>1, <1>2, <1>3, FactorsOrdered
<1>5. ~(l < k)
  BY <1>1, <1>2, <1>3, FactorsOrdered
<1> QED
  BY <1>1, <1>2, <1>4, <1>5

\* What the test of mmap says of an offset.
LEMMA MultipleRemainder ==
  ASSUME NEW p \in Nat \ {0}, NEW x \in Nat
  PROVE  x % p = 0 <=> Multiple(x, p)
<1>1. ASSUME NEW k \in Nat, x = k * p
      PROVE  x % p = 0
  BY <1>1
<1>2. ASSUME x % p = 0
      PROVE  Multiple(x, p)
  BY <1>2 DEF Multiple
<1> QED
  BY <1>1, <1>2 DEF Multiple

\* All records have one length, and a whole number of them fills a region, as
\* in binary mode: 32-byte entries, regions of 2^n bytes.
RecordsTile == \E d \in Nat \ {0} : Lens = {d} /\ Multiple(REGION, d)

\* Inductive when records tile regions: files consist of whole regions, regions
\* begin at multiples of their size and hold whole records.
TileInv ==
  /\ SinkInv
  /\ \A n \in Names : Exists(n) => Multiple(Len(files[n]), REGION)
  /\ pc \notin {"extend", "map", "ready", "copy"} => file_offset = 0
  /\ pc \in {"extend", "map"} => Multiple(file_offset, REGION)
  /\ mapped => /\ Multiple(map_base, REGION)
               /\ \A d \in Lens : Multiple(mmap_offset, d)

\* A region that has no room for one more record is full to the last cell
\* (mmap_sink.cpp:56-70).
LEMMA FullToTheEnd ==
  ASSUME RecordsTile, TileInv, mapped, NEW len \in Lens, RegionFull(len)
  PROVE  mmap_offset = REGION /\ Multiple(file_offset, REGION)
<1> USE SinkAssumption
<1>1. PICK d \in Nat \ {0} : Lens = {d} /\ Multiple(REGION, d)
  BY DEF RecordsTile
<1>2. /\ Multiple(mmap_offset, d) /\ Multiple(map_base, REGION)
      /\ mmap_offset \in 0 .. REGION /\ map_base \in Nat
      /\ file_offset = map_base + mmap_offset
  BY <1>1 DEF TileInv, SinkInv, SinkTypeOK, MappingInFile
<1>3. mmap_offset + d > REGION /\ mmap_offset <= REGION
  BY <1>1, <1>2 DEF RegionFull
<1>4. mmap_offset = REGION
  BY <1>1, <1>2, <1>3, LastMultiple
<1> QED
  BY <1>2, <1>4, MultipleNext

\* rotate_files makes no new content.
LEMMA NamesMoved ==
  ASSUME SinkInv, UnlinkOldest \/ ShiftFile \/ RenameBase
  PROVE  \A n \in Names : files'[n] # NoFile =>
           \E m \in Names : files[m] # NoFile /\ files'[n] = files[m]
<1> USE SinkAssumption
<1>1. files \in Contents
  BY FilesTyped
<1>2. /\ rot \in Names /\ rot + 1 \in Names
  BY DEF SinkInv, SinkTypeOK, Names
<1>3. CASE UnlinkOldest
  BY <1>1, <1>3, UnlinkResult DEF Contents
<1>4. CASE (ShiftFile \/ RenameBase) /\ files' # files
  <2>1. Rename(rot, rot + 1)
    BY <1>4 DEF ShiftFile, RenameBase, Shifted
  <2>2. /\ files[rot] # NoFile /\ files'[rot] = NoFile /\ files'[rot + 1] = files[rot]
        /\ \A n \in Names : n # rot /\ n # rot + 1 => files'[n] = files[n]
    BY <1>1, <1>2, <1>4, <2>1, RenameResult DEF Contents
  <2> QED
    BY <1>2, <2>2
<1>5. CASE files' = files
  BY <1>5
<1> QED
  BY <1>3, <1>4, <1>5

\* No file grows or shrinks by a memcpy or a crash.
LEMMA LengthsKept ==
  ASSUME SinkInv, Copy \/ Crash
  PROVE  \A n \in Names : files'[n] # NoFile =>
           files[n] # NoFile /\ Len(files'[n]) = Len(files[n])
<1> USE SinkAssumption
<1>1. files \in Contents /\ 0 \in Names /\ cur \in Nat
  BY FilesTyped
<1>2. CASE files' = files
  BY <1>2
<1>3. ASSUME NEW d \in Nat, pc = "copy",
             files' = [files EXCEPT ![0] = Paste(@, map_base + mmap_offset, Record, d)]
      PROVE  \A n \in Names : files'[n] # NoFile =>
               files[n] # NoFile /\ Len(files'[n]) = Len(files[n])
  <2>1. /\ files[0] \in Seq(Nat) /\ Record \in Nat /\ map_base + mmap_offset \in Nat
        /\ files[0] # NoFile
    <3>1. Exists(0) /\ map_base \in Nat /\ mmap_offset \in 0 .. REGION /\ Len(lens) \in Nat
      BY <1>3, FilesTyped DEF SinkInv, SinkTypeOK, CopyIsSafe, MappingInFile
    <3> QED
      BY <1>1, <3>1, FileCells DEF Exists, Record
  <2> DEFINE f == Paste(files[0], map_base + mmap_offset, Record, d)
  <2>2. f \in Seq(Nat) /\ Len(f) = Len(files[0])
    BY <2>1, PasteResult DEF Paste
  <2>3. files' = [files EXCEPT ![0] = f]
    BY <1>3
  <2> HIDE DEF f
  <2> QED
    BY <1>1, <2>1, <2>2, <2>3 DEF Contents
<1>4. CASE Copy
  BY <1>1, <1>3, <1>4 DEF Copy, Goto
<1>5. CASE Crash /\ pc = "copy"
  <2>1. PICK d \in 0 .. cur - 1 :
          files' = [files EXCEPT ![0] = Paste(@, map_base + mmap_offset, Record, d)]
    BY <1>5 DEF Crash
  <2>2. d \in Nat
    BY <1>1
  <2> QED
    BY <1>3, <1>5, <2>1, <2>2
<1> QED
  BY <1>2, <1>4, <1>5 DEF Crash

\* TileInv is inductive.
LEMMA TileStep ==
  ASSUME RecordsTile, TileInv, [Next]_vars
  PROVE  TileInv'
<1> USE SinkAssumption
<1>0. SinkInv' /\ SinkInv
  BY SinkStep DEF TileInv
<1> DEFINE Tiled == \A n \in Names : Exists(n) => Multiple(Len(files[n]), REGION)
           Offset == /\ pc \notin {"extend", "map", "ready", "copy"} => file_offset = 0
                     /\ pc \in {"extend", "map"} => Multiple(file_offset, REGION)
           Region == mapped => /\ Multiple(map_base, REGION)
                               /\ \A d \in Lens : Multiple(mmap_offset, d)
<1>1. /\ Tiled /\ Offset /\ Region /\ files \in Contents /\ 0 \in Names
      /\ file_offset \in Nat /\ Multiple(0, REGION)
  <2>1. Multiple(0, REGION)
    <3>1. 0 = 0 * REGION
      OBVIOUS
    <3> QED
      BY <3>1 DEF Multiple
  <2> QED
    BY <1>0, <2>1, FilesTyped DEF TileInv
<1>2. SUFFICES Tiled' /\ Offset' /\ Region'
  BY <1>0 DEF TileInv
<1>3. CASE Construct
  BY <1>1, <1>3 DEF Construct, members, Exists
<1>4. ASSUME NEW len \in Lens, Write(len)
      PROVE  Tiled' /\ Offset' /\ Region'
  <2>1. pc = "ready" /\ files' = files
    BY <1>4 DEF Write
  <2>2. CASE WriteRefused(len) \/ WriteInRegion(len)
    BY <1>1, <2>1, <2>2 DEF WriteRefused, WriteInRegion, members, Exists
  <2>3. CASE WriteInNewRegion(len)
    <3>1. Multiple(file_offset, REGION)
      BY <2>3, FullToTheEnd DEF WriteInNewRegion
    <3> QED
      BY <1>1, <2>1, <2>3, <3>1 DEF WriteInNewRegion, NoMapping, Exists
  <2>4. CASE WriteInNewFile(len)
    BY <1>1, <2>1, <2>4 DEF WriteInNewFile, NoMapping, Exists
  <2> QED
    BY <1>4, <2>2, <2>3, <2>4 DEF Write
<1>5. CASE OpenFile
  <2>1. pc = "open" /\ pc' = "extend" /\ ~mapped' /\ file_offset = 0
    BY <1>0, <1>1, <1>5 DEF OpenFile, Goto, SinkInv
  <2>2. files' = files \/ files' = [files EXCEPT ![0] = <<>>]
    BY <1>5 DEF OpenFile
  <2>3. Tiled'
    BY <1>1, <2>2 DEF Exists, Contents
  <2>4. Exists(0)'
    BY <1>0, <2>1 DEF SinkInv
  <2>5. file_offset' = 0 \/ file_offset' = Len(files'[0])
    BY <1>5, <2>1 DEF OpenFile, AppendAt
  <2>6. Multiple(file_offset', REGION)
    BY <1>1, <2>3, <2>4, <2>5
  <2> QED
    BY <2>1, <2>3, <2>6
<1>6. CASE ExtendFile
  <2>1. pc = "extend" /\ ~mapped /\ Exists(0) /\ UNCHANGED <<file_offset, mapped, map_base, mmap_offset>>
    BY <1>0, <1>6 DEF ExtendFile, members, SinkInv
  <2>2. PICK fails \in May("ftruncate") :
          IF fails THEN GiveUp /\ UNCHANGED files
          ELSE /\ files' = [files EXCEPT ![0] = Resize(@, file_offset + REGION)]
               /\ pc' = "map"
    BY <1>6 DEF ExtendFile
  <2>3. CASE fails
    BY <1>1, <2>1, <2>2, <2>3 DEF GiveUp, Exists
  <2>4. CASE ~fails
    <3>1. Multiple(file_offset, REGION) /\ Multiple(file_offset + REGION, REGION)
      BY <1>1, <2>1, MultipleNext
    <3>2. files[0] \in Seq(Nat)
      BY <1>1, <2>1, FileCells DEF Exists
    <3>3. Len(Resize(files[0], file_offset + REGION)) = file_offset + REGION
      BY <1>1, <3>2, ResizeResult DEF Resize
    <3>4. Tiled'
      BY <1>1, <2>2, <2>4, <3>1, <3>3 DEF Exists, Contents
    <3> QED
      BY <2>1, <2>2, <2>4, <3>1, <3>4
  <2> QED
    BY <2>3, <2>4 DEF May
<1>7. CASE MapRegion
  <2>1. /\ pc = "map" /\ files' = files /\ file_offset' = file_offset
        /\ pc' \in {"ready", "copy"}
        /\ \/ UNCHANGED <<mapped, map_base, mmap_offset>>
           \/ map_base' = file_offset /\ mmap_offset' = 0
    BY <1>7 DEF MapRegion, GiveUp
  <2>2. Multiple(file_offset, REGION)
    BY <1>1, <2>1
  <2>3. \A d \in Lens : Multiple(0, d)
    <3>1. \A d \in Lens : 0 = 0 * d
      OBVIOUS
    <3> QED
      BY <3>1 DEF Multiple
  <2> QED
    BY <1>1, <2>1, <2>2, <2>3 DEF Exists
<1>8. CASE UnlinkOldest \/ ShiftFile \/ RenameBase
  <2>1. /\ UNCHANGED <<file_offset, mapped, map_base, mmap_offset>>
        /\ pc \in {"unlink", "shift"} /\ pc' \in {"shift", "open"}
    BY <1>8 DEF UnlinkOldest, ShiftFile, RenameBase, Goto, members
  <2>2. \A n \in Names : files'[n] # NoFile =>
          \E m \in Names : files[m] # NoFile /\ files'[n] = files[m]
    BY <1>0, <1>8, NamesMoved
  <2>3. Tiled'
    BY <1>1, <2>2 DEF Exists
  <2> QED
    BY <1>1, <2>1, <2>3
<1>9. CASE Copy \/ Crash
  <2>1. \A n \in Names : files'[n] # NoFile =>
          files[n] # NoFile /\ Len(files'[n]) = Len(files[n])
    BY <1>0, <1>9, LengthsKept
  <2>2. Tiled'
    BY <1>1, <2>1 DEF Exists
  <2>3. CASE Copy
    <3>1. /\ pc = "copy" /\ pc' = "ready" /\ UNCHANGED <<mapped, map_base>>
          /\ mmap_offset' = mmap_offset + cur
      BY <2>3 DEF Copy, Goto, Advance
    <3>2. mapped /\ cur \in Lens
      BY <1>0, <3>1 DEF SinkInv, CopyIsSafe, SinkTypeOK
    <3>3. PICK d \in Nat \ {0} : Lens = {d}
      BY DEF RecordsTile
    <3>4. \A e \in Lens : Multiple(mmap_offset', e)
      BY <1>1, <3>1, <3>2, <3>3, MultipleNext
    <3> QED
      BY <1>1, <2>2, <3>1, <3>4
  <2>4. CASE Crash
    <3>1. file_offset' = 0 /\ ~mapped' /\ pc' = "none"
      BY <2>4 DEF Crash, Vanish, NoMapping
    <3> QED
      BY <2>2, <3>1
  <2> QED
    BY <1>9, <2>3, <2>4
<1>10. CASE Flush
  BY <1>1, <1>10 DEF Flush, members, Exists
<1>11. CASE Destruct \/ OpenFails
  <2>1. files' = files /\ file_offset' = 0 /\ ~mapped' /\ pc' \in {"none", "terminated"}
    BY <1>11 DEF Destruct, OpenFails, Vanish, NoMapping
  <2> QED
    BY <1>1, <2>1 DEF Exists
<1>12. CASE UNCHANGED vars
  BY <1>1, <1>12 DEF vars, Exists
<1> QED
  BY <1>3, <1>4, <1>5, <1>6, <1>7, <1>8, <1>9, <1>10, <1>11, <1>12
  DEF Next, CallStep

\* There is no region at first.
LEMMA TileStart ==
  ASSUME Init
  PROVE  TileInv
<1>1. SinkInv
  BY SinkStart
<1> QED
  BY <1>1 DEF Init, TileInv, Exists

\* When only unlink and rename may fail, and with regions of whole pages, a sink
\* that waits has a region: no write finds it without one.
RoomInv ==
  /\ TileInv
  /\ pc = "ready" => mapped
  /\ refused = {}

\* No write is refused when no call of map_region fails, records tile regions and
\* regions pages, over restarts and crashes at any point and unlinks and renames
\* that fail (write, map_region).
THEOREM WritesAccepted ==
  ASSUME RecordsTile, Multiple(REGION, PAGE), Faults \subseteq {"unlink", "rename"}
  PROVE  Spec => []NoWriteRefused
<1> USE SinkAssumption
<1>1. Init => RoomInv
  BY TileStart DEF Init, RoomInv
<1>2. RoomInv /\ [Next]_vars => RoomInv'
  <2> SUFFICES ASSUME RoomInv, [Next]_vars
               PROVE  RoomInv'
    OBVIOUS
  <2>1. TileInv' /\ SinkInv /\ SinkInv'
    BY TileStep DEF RoomInv, TileInv
  <2>2. (pc' = "ready" => mapped') /\ refused' = {}
    <3>1. CASE ExtendFile
      BY <3>1 DEF ExtendFile, May, RoomInv, members
    <3>2. CASE MapRegion
      <4>1. PICK fails \in May("mmap") :
              IF MapFails(fails) THEN GiveUp ELSE mapped' = TRUE /\ refused' = refused
        BY <3>2 DEF MapRegion
      <4>2. fails = FALSE
        BY DEF May
      <4>3. pc = "map" /\ file_offset \in Nat
        BY <2>1, <3>2 DEF MapRegion, SinkInv, SinkTypeOK
      <4>4. Multiple(file_offset, PAGE)
        BY <4>3, MultipleTransitive DEF RoomInv, TileInv
      <4>5. ~MapFails(fails)
        BY <4>2, <4>3, <4>4, MultipleRemainder DEF MapFails
      <4> QED
        BY <4>1, <4>5 DEF RoomInv
    <3>3. ASSUME NEW len \in Lens, Write(len)
          PROVE  (pc' = "ready" => mapped') /\ refused' = {}
      BY <3>3 DEF RoomInv, Write, WriteRefused, WriteInRegion, WriteInNewRegion, WriteInNewFile
    <3>4. CASE Construct \/ OpenFile \/ UnlinkOldest \/ ShiftFile \/ RenameBase
      BY <3>4 DEF RoomInv, Construct, OpenFile, UnlinkOldest, ShiftFile, RenameBase, Goto,
        history
    <3>5. CASE Copy
      BY <2>1, <3>5 DEF RoomInv, Copy, Goto, SinkInv, CopyIsSafe
    <3>6. CASE OpenFails \/ Destruct \/ Crash
      BY <3>6 DEF RoomInv, OpenFails, Destruct, Crash, Vanish, history
    <3>7. CASE Flush
      BY <3>7 DEF RoomInv, Flush, members
    <3>8. CASE UNCHANGED vars
      BY <3>8 DEF RoomInv, vars
    <3> QED
      BY <3>1, <3>2, <3>3, <3>4, <3>5, <3>6, <3>7, <3>8 DEF Next, CallStep
  <2> QED
    BY <2>1, <2>2 DEF RoomInv
<1>3. RoomInv => NoWriteRefused
  BY DEF RoomInv, NoWriteRefused
<1> QED
  BY <1>1, <1>2, <1>3, PTL DEF Spec

-----------------------------------------------------------------------------
(***************************************************************************)
(* How long files grow.                                                    *)
(***************************************************************************)

\* Regions begin at multiples of their size: records tile them, or mmap accepts
\* no other offset.
RegionsTile == RecordsTile \/ Multiple(PAGE, REGION)

\* Inductive for one sink that makes its own files: until the base file cannot
\* be renamed, no file is longer than max_file_size_, and none will be when the
\* region to be made is added.
SizeInv ==
  /\ SinkInv /\ OnTheWay
  /\ RecordsTile => TileInv
  /\ 0 \notin stuck =>
       /\ FileSizeBounded
       /\ pc \in {"extend", "map"} => file_offset + REGION <= MAX_FILE
       /\ mapped => Multiple(map_base, REGION)

\* The test of write leaves room for a whole region (mmap_sink.cpp:64).
LEMMA RoomForRegion ==
  ASSUME NEW r \in Nat \ {0}, NEW x \in Nat, NEW m \in Nat, Multiple(x, r), Multiple(m, r),
         NEW o \in 0 .. r, NEW d \in 1 .. r, o + d > r, x + o + d <= m
  PROVE  x + o + r <= m
<1>1. PICK k \in Nat : x = k * r
  BY DEF Multiple
<1>2. PICK l \in Nat : m = l * r
  BY DEF Multiple
<1>3. k + 1 < l
  <2>1. CASE l <= k
    <3>1. l * r <= k * r
      <4>1. CASE l = k
        BY <4>1
      <4>2. CASE l # k
        <5>1. l * r + r <= k * r
          BY <2>1, <4>2, FactorsOrdered
        <5> QED
          BY <5>1, <1>1, <1>2
      <4> QED
        BY <4>1, <4>2
    <3> QED
      BY <1>1, <1>2, <3>1
  <2>2. CASE l = k + 1
    <3>1. l * r = k * r + r
      BY <2>2
    <3> QED
      BY <1>1, <1>2, <3>1
  <2> QED
    BY <2>1, <2>2
<1>4. (k + 1) * r + r <= l * r
  BY <1>3, FactorsOrdered
<1>5. (k + 1) * r = k * r + r
  OBVIOUS
<1> QED
  BY <1>1, <1>2, <1>4, <1>5

\* No file grows beyond max_file_size_, a multiple of region_size_, while one
\* sink that made them writes them, regions begin at multiples of their size and
\* no rename of the base file fails, whatever other call does (write,
\* map_region, rotate_files).
THEOREM FilesBounded ==
  ASSUME MaxLives = 1, RegionsTile, Multiple(MAX_FILE, REGION), MAX_FILE # 0
  PROVE  Spec => []FileSizeBounded
<1> USE SinkAssumption
<1>0. REGION <= MAX_FILE
  <2>1. Multiple(REGION, REGION) /\ Multiple(0, REGION)
    <3>1. REGION = 1 * REGION /\ 0 = 0 * REGION
      OBVIOUS
    <3> QED
      BY <3>1 DEF Multiple
  <2>2. REGION <= MAX_FILE
    <3> SUFFICES ASSUME ~(REGION <= MAX_FILE)
                 PROVE  FALSE
      OBVIOUS
    <3>1. 0 <= MAX_FILE /\ 0 + REGION > MAX_FILE
      OBVIOUS
    <3>2. 0 = MAX_FILE
      BY <2>1, <3>1, LastMultiple
    <3> QED
      BY <3>2
  <2> QED
    BY <2>2
<1>1. Init => SizeInv
  BY FilesInit, TileStart DEF Init, SizeInv, FileSizeBounded, Exists, FilesInv
<1>2. SizeInv /\ [Next]_vars => SizeInv'
  <2> SUFFICES ASSUME SizeInv, [Next]_vars
               PROVE  SizeInv'
    OBVIOUS
  <2>1. SinkInv' /\ OnTheWay' /\ (RecordsTile => TileInv')
    BY SinkStep, OnTheWayStep, TileStep DEF SizeInv
  <2> SUFFICES ASSUME 0 \notin stuck'
               PROVE  SizeInv'
    BY <2>1 DEF SizeInv
  <2>2. /\ SinkInv /\ SinkInv' /\ OnTheWay /\ files \in Contents /\ 0 \in Names
        /\ file_offset \in Nat /\ 0 \notin stuck
    BY <2>1, FilesTyped, StuckGrows DEF SizeInv
  <2>3. \A n \in Names : files[n] # NoFile => Len(files[n]) <= MAX_FILE
    BY <2>2 DEF SizeInv, FileSizeBounded, Exists
  <2> DEFINE Room == pc \in {"extend", "map"} => file_offset + REGION <= MAX_FILE
             Tiled == mapped => Multiple(map_base, REGION)
  <2>4. Room /\ Tiled
    BY <2>2 DEF SizeInv
  <2>5. SUFFICES (\A n \in Names : files'[n] # NoFile => Len(files'[n]) <= MAX_FILE)
                 /\ Room' /\ Tiled'
    BY <2>1 DEF SizeInv, FileSizeBounded, Exists
  <2>6. CASE Construct
    BY <2>3, <2>4, <2>6 DEF Construct, members
  <2>7. ASSUME NEW len \in Lens, Write(len)
        PROVE  Room' /\ Tiled' /\ files' = files
    <3>1. pc = "ready" /\ files' = files
      BY <2>7 DEF Write
    <3>2. CASE WriteRefused(len) \/ WriteInRegion(len) \/ WriteInNewFile(len)
      BY <2>4, <3>1, <3>2 DEF WriteRefused, WriteInRegion, WriteInNewFile, NoMapping, members
    <3>3. CASE WriteInNewRegion(len)
      <4>1. /\ mapped /\ mmap_offset + len > REGION /\ file_offset + len <= MAX_FILE
            /\ ~mapped' /\ file_offset' = file_offset
        <5>1. /\ mapped /\ RegionFull(len) /\ ~FileFull(len)
              /\ ~mapped' /\ file_offset' = file_offset
          BY <3>3 DEF WriteInNewRegion, NoMapping
        <5>2. len \in 1 .. REGION
          OBVIOUS
        <5>3. file_offset + len <= MAX_FILE
          BY <2>2, <5>1, <5>2 DEF FileFull
        <5> QED
          BY <5>1, <5>3 DEF RegionFull
      <4>2. /\ file_offset = map_base + mmap_offset /\ map_base \in Nat
            /\ mmap_offset \in 0 .. REGION /\ len \in 1 .. REGION
        BY <2>2, <4>1 DEF SinkInv, SinkTypeOK, MappingInFile
      <4>3. Multiple(map_base, REGION)
        BY <2>4, <4>1
      <4>4. map_base + mmap_offset + REGION <= MAX_FILE
        BY <4>1, <4>2, <4>3, RoomForRegion
      <4> QED
        BY <3>1, <4>1, <4>2, <4>4
    <3> QED
      BY <2>7, <3>2, <3>3 DEF Write
  <2>8. CASE OpenFile
    <3>1. pc = "open" /\ pc' = "extend" /\ ~Exists(0) /\ ~mapped' /\ files[0] = NoFile
      BY <2>2, <2>8 DEF OpenFile, Goto, OnTheWay, Exists, SinkInv
    <3>2. files' = [files EXCEPT ![0] = <<>>]
      BY <2>8, <3>1 DEF OpenFile
    <3>3. files'[0] = <<>> /\ \A n \in Names : n # 0 => files'[n] = files[n]
      BY <2>2, <3>2 DEF Contents
    <3>4. Len(files'[0]) = 0 /\ file_offset' = 0
      <4>1. Len(files'[0]) = 0 /\ file_offset = 0
        BY <2>2, <3>1, <3>3 DEF OnTheWay
      <4> QED
        BY <2>8, <4>1 DEF OpenFile, AppendAt
    <3> QED
      BY <1>0, <2>3, <3>1, <3>3, <3>4
  <2>9. CASE ExtendFile
    <3>1. pc = "extend" /\ ~mapped /\ Exists(0) /\ UNCHANGED <<file_offset, mapped>>
      BY <2>2, <2>9 DEF ExtendFile, members, SinkInv
    <3>2. PICK fails \in May("ftruncate") :
            IF fails THEN GiveUp /\ UNCHANGED files
            ELSE /\ files' = [files EXCEPT ![0] = Resize(@, file_offset + REGION)]
                 /\ pc' = "map"
      BY <2>9 DEF ExtendFile
    <3>3. CASE fails
      BY <2>3, <3>1, <3>2, <3>3 DEF GiveUp
    <3>4. CASE ~fails
      <4>1. files[0] \in Seq(Nat) /\ file_offset + REGION <= MAX_FILE
        BY <2>2, <2>4, <3>1, FileCells DEF Exists
      <4>2. Len(Resize(files[0], file_offset + REGION)) = file_offset + REGION
        BY <2>2, <4>1, ResizeResult DEF Resize
      <4> QED
        BY <2>2, <2>3, <3>1, <3>2, <3>4, <4>1, <4>2 DEF Contents
    <3> QED
      BY <3>3, <3>4 DEF May
  <2>10. CASE MapRegion
    <3>1. PICK fails \in May("mmap") :
            IF MapFails(fails)
            THEN pc' = "ready" /\ UNCHANGED <<mapped, map_base>>
            ELSE map_base' = file_offset /\ pc' \in {"ready", "copy"}
      BY <2>10 DEF MapRegion, GiveUp
    <3>2. pc = "map" /\ files' = files
      BY <2>10 DEF MapRegion
    <3>3. ASSUME ~MapFails(fails)
          PROVE  Multiple(file_offset, REGION)
      <4>1. CASE RecordsTile
        BY <3>2, <4>1 DEF SizeInv, TileInv
      <4>2. CASE Multiple(PAGE, REGION)
        <5>1. Multiple(file_offset, PAGE)
          BY <2>2, <3>3, MultipleRemainder DEF MapFails
        <5> QED
          BY <4>2, <5>1, MultipleTransitive
      <4> QED
        BY <4>1, <4>2 DEF RegionsTile
    <3> QED
      BY <2>3, <2>4, <3>1, <3>2, <3>3
  <2>11. CASE UnlinkOldest \/ ShiftFile \/ RenameBase
    <3>1. UNCHANGED <<mapped, map_base>> /\ pc' \in {"shift", "open"}
      BY <2>11 DEF UnlinkOldest, ShiftFile, RenameBase, Goto, members
    <3>2. \A n \in Names : files'[n] # NoFile =>
            \E m \in Names : files[m] # NoFile /\ files'[n] = files[m]
      BY <2>2, <2>11, NamesMoved
    <3> QED
      BY <2>3, <2>4, <3>1, <3>2
  <2>12. CASE Copy \/ Crash
    <3>1. /\ pc' \in {"ready", "none"}
          /\ UNCHANGED <<mapped, map_base>> \/ ~mapped'
      BY <2>12 DEF Copy, Crash, Vanish, NoMapping, Goto
    <3>2. \A n \in Names : files'[n] # NoFile =>
            files[n] # NoFile /\ Len(files'[n]) = Len(files[n])
      BY <2>2, <2>12, LengthsKept
    <3> QED
      BY <2>3, <2>4, <3>1, <3>2
  <2>13. CASE Flush
    BY <2>3, <2>4, <2>13 DEF Flush, members
  <2>14. CASE Destruct \/ OpenFails
    <3>1. files' = files /\ ~mapped' /\ pc' \in {"none", "terminated"}
      BY <2>14 DEF Destruct, OpenFails, Vanish, NoMapping
    <3> QED
      BY <2>3, <3>1
  <2>15. CASE UNCHANGED vars
    BY <2>3, <2>4, <2>15 DEF vars
  <2> QED
    BY <2>3, <2>6, <2>7, <2>8, <2>9, <2>10, <2>11, <2>12, <2>13, <2>14, <2>15
    DEF Next, CallStep
<1>3. SizeInv => FileSizeBounded
  BY DEF SizeInv, FileSizeBounded
<1> QED
  BY <1>1, <1>2, <1>3, PTL DEF Spec
=============================================================================
