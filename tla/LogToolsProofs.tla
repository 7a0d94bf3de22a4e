---------------------------- MODULE LogToolsProofs ----------------------------
(***************************************************************************)
(* What the tools make of a file, for every file a sink may leave, every   *)
(* log call and every argument list: the date cache of TextFormatter, the  *)
(* counts of log_stats, the lines of log_reader and what it finds in a     *)
(* binary file.                                                            *)
(***************************************************************************)
EXTENDS LogTools, MMapSinkProofs, FiniteSetTheorems, TLAPS

\* The second a shown line is about.
Sec(k) == Fields(shown[k].entry).ts[1]

\* The cache is that of the last line shown.
CacheFollows ==
  /\ \E S : shown \in Seq(S)
  /\ Len(shown) = 0 => cached_sec = 0 /\ date_prefix = Uninit
  /\ Len(shown) > 0 => cached_sec = Sec(Len(shown)) /\ date_prefix = shown[Len(shown)].date

DateInv == CacheFollows /\ DateIsOwn

\* Nothing shown, nothing cached.
LEMMA NothingShown ==
  ASSUME shown' = <<>>, cached_sec' = 0, date_prefix' = Uninit
  PROVE  DateInv'
<1>1. <<>> \in Seq({}) /\ Len(<<>>) = 0 /\ DOMAIN <<>> = {}
  OBVIOUS
<1>2. CacheFollows'
  BY <1>1 DEF CacheFollows
<1>3. DateIsOwn'
  BY <1>1 DEF DateIsOwn
<1> QED
  BY <1>2, <1>3 DEF DateInv

\* A line printed with the cache has the date of its second.
LEMMA PrintKeepsDate ==
  ASSUME DateInv, ReaderPrints
  PROVE  DateInv'
<1> DEFINE n == Len(shown)
           sec == Fields(Header).ts[1]
           line == Line(Header)
<1>1. PICK S : shown \in Seq(S)
  BY DEF DateInv, CacheFollows
<1>2. /\ shown' = Append(shown, line)
      /\ cached_sec' = sec /\ date_prefix' = Prefix(sec)
  BY DEF ReaderPrints
<1>3. line.entry = Header /\ line.date = Prefix(sec)
  BY DEF Line
<1>4. shown \in Seq(S \cup {line})
  BY <1>1
<1> HIDE DEF line, sec
<1>5. /\ shown' \in Seq(S \cup {line}) /\ n \in Nat /\ Len(shown') = n + 1
      /\ shown'[n + 1] = line /\ \A k \in 1 .. n : shown'[k] = shown[k]
      /\ DOMAIN shown = 1 .. n /\ DOMAIN shown' = 1 .. n + 1
  BY <1>2, <1>4
<1>6. Fields(shown'[n + 1].entry).ts[1] = sec /\ shown'[n + 1].date = Prefix(sec)
  BY <1>3, <1>5 DEF sec
<1>7. \A k \in 1 .. n : Fields(shown'[k].entry).ts[1] = Sec(k) /\ shown'[k].date = shown[k].date
  BY <1>5 DEF Sec
<1>8. CacheFollows'
  <2>1. cached_sec' = Fields(shown'[Len(shown')].entry).ts[1] /\ date_prefix' = shown'[Len(shown')].date
    BY <1>2, <1>5, <1>6
  <2> QED
    BY <1>5, <2>1 DEF CacheFollows, Sec
<1> DEFINE Sec2(k) == Fields(shown'[k].entry).ts[1]
<1>9. \A k \in 1 .. n : shown[k].date = IF \E j \in 1 .. k : Sec(j) # 0 THEN DateOf(Sec(k)) ELSE Uninit
  BY <1>5 DEF DateInv, DateIsOwn, Sec
<1>10. Sec2(n + 1) = sec /\ \A k \in 1 .. n : Sec2(k) = Sec(k)
  BY <1>6, <1>7
<1> HIDE DEF Sec2
<1>11. Prefix(sec) = IF \E j \in 1 .. n + 1 : Sec2(j) # 0 THEN DateOf(sec) ELSE Uninit
  <2>1. CASE n = 0
    <3>1. (\E j \in 1 .. n + 1 : Sec2(j) # 0) <=> sec # 0
      BY <1>10, <2>1
    <3>2. cached_sec = 0 /\ date_prefix = Uninit
      BY <2>1 DEF DateInv, CacheFollows
    <3> QED
      BY <3>1, <3>2 DEF Prefix, RefreshDate
  <2>2. CASE n > 0
    <3>1. n \in 1 .. n /\ cached_sec = Sec(n) /\ date_prefix = shown[n].date
      BY <1>5, <2>2 DEF DateInv, CacheFollows
    <3>2. (\E j \in 1 .. n + 1 : Sec2(j) # 0) <=> ((\E j \in 1 .. n : Sec(j) # 0) \/ sec # 0)
      BY <1>5, <1>10
    <3>3. date_prefix = IF \E j \in 1 .. n : Sec(j) # 0 THEN DateOf(Sec(n)) ELSE Uninit
      BY <1>9, <3>1
    <3>4. CASE sec # cached_sec
      <4>1. Prefix(sec) = DateOf(sec)
        BY <3>4 DEF Prefix, RefreshDate
      <4>2. sec # 0 \/ Sec(n) # 0
        BY <3>1, <3>4
      <4> QED
        BY <3>1, <3>2, <4>1, <4>2
    <3>5. CASE sec = cached_sec
      <4>1. Prefix(sec) = date_prefix
        BY <3>5 DEF Prefix, RefreshDate
      <4>2. sec = Sec(n)
        BY <3>1, <3>5
      <4> QED
        BY <3>1, <3>2, <3>3, <4>1, <4>2
    <3> QED
      BY <3>4, <3>5
  <2> QED
    BY <1>5, <2>1, <2>2
<1>12. ASSUME NEW k \in 1 .. n
       PROVE  shown'[k].date = IF \E j \in 1 .. k : Sec2(j) # 0 THEN DateOf(Sec2(k)) ELSE Uninit
  <2>1. \A j \in 1 .. k : Sec2(j) = Sec(j)
    BY <1>5, <1>10
  <2>2. k \in 1 .. k
    BY <1>5
  <2> QED
    BY <1>7, <1>9, <2>1, <2>2
<1>13. ASSUME NEW k \in 1 .. n + 1
       PROVE  shown'[k].date = IF \E j \in 1 .. k : Sec2(j) # 0 THEN DateOf(Sec2(k)) ELSE Uninit
  <2>1. CASE k \in 1 .. n
    BY <1>12, <2>1
  <2>2. CASE k = n + 1
    BY <1>6, <1>10, <1>11, <2>2
  <2> QED
    BY <1>5, <2>1, <2>2
<1>14. DateIsOwn'
  BY <1>5, <1>13 DEF DateIsOwn, Sec2
<1> QED
  BY <1>8, <1>14 DEF DateInv

\* Every line log_reader prints has the date of its entry's second, but for
\* the lines of second 0 before any other.
THEOREM DateAlwaysOwn == ToolsSpec => []DateIsOwn
<1>1. ToolsInit => DateInv
  <2> SUFFICES ASSUME ToolsInit PROVE DateInv
    OBVIOUS
  <2>1. <<>> \in Seq({}) /\ Len(<<>>) = 0 /\ DOMAIN <<>> = {}
    OBVIOUS
  <2>2. shown = <<>> /\ cached_sec = 0 /\ date_prefix = Uninit
    BY DEF ToolsInit
  <2> QED
    BY <2>1, <2>2 DEF DateInv, CacheFollows, DateIsOwn
<1>2. DateInv /\ [ToolsNext]_<<vars, toolVars>> => DateInv'
  <2> SUFFICES ASSUME DateInv, [ToolsNext]_<<vars, toolVars>> PROVE DateInv'
    OBVIOUS
  <2>1. CASE UNCHANGED <<shown, cached_sec, date_prefix>>
    BY <2>1 DEF DateInv, CacheFollows, DateIsOwn, Sec
  <2>2. ASSUME NEW n \in Names, OpenInput(n) PROVE DateInv'
    BY <2>2, NothingShown DEF OpenInput, Fresh
  <2>3. CASE ReaderPrints
    BY <2>3, PrintKeepsDate
  <2>4. CASE ToolExits
    BY <2>4, NothingShown DEF ToolExits, Fresh
  <2>5. CASE ReaderSkips \/ StatsCounts \/ EndOfInput
    BY <2>1, <2>5 DEF ReaderSkips, StatsCounts, EndOfInput
  <2>6. CASE UNCHANGED toolVars
    BY <2>1, <2>6 DEF toolVars
  <2> QED
    BY <2>2, <2>3, <2>4, <2>5, <2>6 DEF ToolsNext, ToolStep
<1>3. DateInv => DateIsOwn
  BY DEF DateInv
<1> QED
  BY <1>1, <1>2, <1>3, PTL DEF ToolsSpec

-----------------------------------------------------------------------------
(***************************************************************************)
(* What log_stats counts.  The files hold nothing but records and zeros    *)
(* (CellsLogged, whatever system calls fail), so each entry a tool reads   *)
(* is that of a log call or of zero bytes, and its fields are defined.     *)
(* CountsSoFar says of the entries read what StatsExact says of the file.  *)
(***************************************************************************)
CellsLogged ==
  /\ Len(lens) <= MaxWrites
  /\ \A n \in Names : Exists(n) => files[n] \in Seq(0 .. Len(lens))

\* ftruncate and memcpy put nothing in a file but zeros and the record.
LEMMA CellsStayLogged ==
  ASSUME NEW m \in Nat, NEW f \in Seq(0 .. m), NEW n \in Nat,
         NEW o \in Nat, NEW r \in 0 .. m, NEW d \in Nat
  PROVE  Resize(f, n) \in Seq(0 .. m) /\ Paste(f, o, r, d) \in Seq(0 .. m)
<1>1. /\ Len(f) \in Nat /\ 0 \in 0 .. m
      /\ \A k \in 1 .. Len(f) : f[k] \in 0 .. m
  OBVIOUS
<1>2. ASSUME NEW l \in Nat, NEW g \in [1 .. l -> 0 .. m]
      PROVE  g \in Seq(0 .. m)
  OBVIOUS
<1>3. Resize(f, n) \in [1 .. n -> 0 .. m]
  BY <1>1 DEF Resize
<1>4. Paste(f, o, r, d) \in [1 .. Len(f) -> 0 .. m]
  BY <1>1 DEF Paste
<1> QED
  BY <1>1, <1>2, <1>3, <1>4

\* Each step of the sink leaves nothing else in the files.
LEMMA CellsStep ==
  ASSUME SinkInv, CellsLogged, [Next]_vars
  PROVE  CellsLogged'
<1> USE SinkAssumption
<1> DEFINE m == Len(lens)
<1>1. /\ files \in Contents /\ 0 \in Names /\ m \in Nat /\ MaxWrites \in Nat
      /\ lens \in Seq(Lens) /\ file_offset \in Nat /\ cur \in Nat /\ rot \in Nat
      /\ rot + 1 \in Names
  BY FilesTyped
<1>2. /\ m <= MaxWrites
      /\ \A n \in Names : files[n] # NoFile => files[n] \in Seq(0 .. m)
      /\ <<>> \in Seq(0 .. m)
  BY DEF CellsLogged, Exists
<1>3. ASSUME lens' = lens,
             \A n \in Names : files'[n] # NoFile =>
               \/ \E a \in Names : files[a] # NoFile /\ files'[n] = files[a]
               \/ files'[n] \in Seq(0 .. m)
      PROVE  CellsLogged'
  BY <1>2, <1>3 DEF CellsLogged, Exists
<1>4. ASSUME lens' = lens, files' = files
      PROVE  CellsLogged'
  BY <1>3, <1>4
<1>5. ASSUME NEW len \in Lens, Write(len)
      PROVE  CellsLogged'
  <2>1. /\ lens' = Append(lens, len) /\ files' = files /\ m < MaxWrites
    BY <1>5 DEF Write
  <2>2. Len(lens') = m + 1
    BY <1>1, <2>1
  <2>3. \A f : f \in Seq(0 .. m) => f \in Seq(0 .. m + 1)
    BY <1>1
  <2> QED
    BY <1>1, <1>2, <2>1, <2>2, <2>3 DEF CellsLogged, Exists
<1>6. CASE OpenFile
  <2>1. /\ lens' = lens
        /\ files' = IF Exists(0) THEN files ELSE [files EXCEPT ![0] = <<>>]
    BY <1>6 DEF OpenFile, history
  <2> QED
    BY <1>1, <1>2, <1>3, <2>1 DEF Contents
<1>7. CASE ExtendFile
  <2>1. lens' = lens /\ pc = "extend"
    BY <1>7 DEF ExtendFile
  <2>2. \/ files' = files
        \/ files' = [files EXCEPT ![0] = Resize(@, file_offset + REGION)]
    BY <1>7 DEF ExtendFile
  <2>3. CASE files' = files
    BY <1>4, <2>1, <2>3
  <2>4. CASE files' = [files EXCEPT ![0] = Resize(@, file_offset + REGION)]
    <3>1. files[0] # NoFile
      BY <2>1 DEF SinkInv, MappingInFile, Exists
    <3>2. file_offset + REGION \in Nat /\ files[0] \in Seq(0 .. m)
      BY <1>1, <1>2, <3>1
    <3>3. Resize(files[0], file_offset + REGION) \in Seq(0 .. m)
      BY <1>1, <3>2, CellsStayLogged
    <3> QED
      BY <1>1, <1>3, <2>1, <2>4, <3>3 DEF Contents
  <2> QED
    BY <2>2, <2>3, <2>4
<1>8. CASE UnlinkOldest \/ ShiftFile \/ RenameBase
  <2>1. lens' = lens
    BY <1>8 DEF UnlinkOldest, ShiftFile, RenameBase, history
  <2>2. \A n \in Names : files'[n] # NoFile =>
          \E k \in Names : files[k] # NoFile /\ files'[n] = files[k]
    BY <1>8, NamesMoved
  <2> QED
    BY <1>3, <2>1, <2>2
<1>9. ASSUME NEW d \in Nat, lens' = lens, pc = "copy",
             files' = [files EXCEPT ![0] = Paste(@, map_base + mmap_offset, Record, d)]
      PROVE  CellsLogged'
  <2>1. /\ files[0] # NoFile /\ lens # <<>> /\ SinkTypeOK
    BY <1>9 DEF SinkInv, MappingInFile, CopyIsSafe, Exists
  <2>2. map_base + mmap_offset \in Nat
    BY <2>1 DEF SinkTypeOK
  <2>3. Record \in 0 .. m
    BY <1>1, <2>1, RecordKnown
  <2>4. Paste(files[0], map_base + mmap_offset, Record, d) \in Seq(0 .. m)
    BY <1>1, <1>2, <2>1, <2>2, <2>3, CellsStayLogged
  <2> QED
    BY <1>1, <1>3, <1>9, <2>4 DEF Contents
<1>10. CASE Copy
  <2>1. /\ lens' = lens /\ pc = "copy"
        /\ files' = [files EXCEPT ![0] = Paste(@, map_base + mmap_offset, Record, cur)]
    BY <1>10 DEF Copy, Goto
  <2> QED
    BY <1>1, <1>9, <2>1
<1>11. CASE Crash
  <2>1. lens' = lens
    BY <1>11 DEF Crash, history
  <2>2. CASE pc = "copy"
    <3>1. PICK d \in 0 .. cur - 1 :
            files' = [files EXCEPT ![0] = Paste(@, map_base + mmap_offset, Record, d)]
      BY <1>11, <2>2 DEF Crash
    <3>2. d \in Nat
      BY <1>1
    <3> QED
      BY <1>9, <2>1, <2>2, <3>1, <3>2
  <2>3. CASE pc # "copy"
    BY <1>4, <1>11, <2>1, <2>3 DEF Crash
  <2> QED
    BY <2>2, <2>3
<1>12. CASE Construct \/ OpenFails \/ MapRegion \/ Flush \/ Destruct \/ UNCHANGED vars
  <2>1. lens' = lens /\ files' = files
    BY <1>12 DEF Construct, OpenFails, MapRegion, Flush, Destruct, vars, history
  <2> QED
    BY <1>4, <2>1
<1> QED
  BY <1>5, <1>6, <1>7, <1>8, <1>10, <1>11, <1>12 DEF Next, CallStep

\* How often x is among the first n values of f.
CountOf(f, x, n) == Cardinality({k \in 1 .. n : f[k] = x})

\* A count over the first n + 1 values is that over the first n, and one more
\* if the last value is the one counted.
LEMMA OneMore ==
  ASSUME NEW f, NEW x, NEW n \in Nat
  PROVE  CountOf(f, x, n + 1) = CountOf(f, x, n) + (IF f[n + 1] = x THEN 1 ELSE 0)
<1> DEFINE A == {k \in 1 .. n : f[k] = x}
           B == {k \in 1 .. n + 1 : f[k] = x}
<1>1. IsFiniteSet(A)
  <2>1. IsFiniteSet(1 .. n)
    BY FS_Interval
  <2> QED
    BY <2>1, FS_Subset
<1>2. Cardinality(A) \in Nat
  BY <1>1, FS_CardinalityType
<1>3. CountOf(f, x, n) = Cardinality(A) /\ CountOf(f, x, n + 1) = Cardinality(B)
  BY DEF CountOf
<1>4. CASE f[n + 1] = x
  <2>1. B = A \cup {n + 1} /\ n + 1 \notin A
    BY <1>4
  <2> HIDE DEF A, B
  <2>2. Cardinality(A \cup {n + 1}) = Cardinality(A) + 1
    BY <1>1, <2>1, FS_AddElement
  <2> QED
    BY <1>3, <1>2, <1>4, <2>1, <2>2
<1>5. CASE f[n + 1] # x
  <2>1. B = A
    BY <1>5
  <2> HIDE DEF A, B
  <2> QED
    BY <1>3, <1>2, <1>5, <2>1
<1> QED
  BY <1>4, <1>5

\* Seconds and nanoseconds.
Moments == Nat \X Nat

\* Before compares as the numbers of nanoseconds would.
LEMMA BeforeTransitive ==
  ASSUME NEW a \in Moments, NEW b \in Moments, NEW c \in Moments \cup {UINT64_MAX},
         Before(a, b), Before(b, c)
  PROVE  Before(a, c)
BY ToolsAssumption DEF Before, Moments

\* No time is before itself.
LEMMA BeforeIrreflexive ==
  ASSUME NEW a \in Moments
  PROVE  ~Before(a, a)
BY ToolsAssumption DEF Before, Moments

\* The fields of what a tool may read are those of an entry.
LEMMA FieldsTyped ==
  ASSUME NEW r \in 0 .. Len(Logged)
  PROVE  /\ Fields(r).ts \in Moments /\ Fields(r).level \in 0 .. 6
         /\ Fields(r).tid \in Tids /\ Fields(r).payload_len \in 0 .. 112
         /\ Fields(r).ts[2] < NsPerSecond
         /\ r # 0 => Logged[r].n \in Int
<1>0. NsPerSecond \in Nat /\ NsPerSecond > 0
  BY SMT DEF NsPerSecond
<1>1. CASE r = 0
  BY <1>0, <1>1 DEF Fields, Moments, Tids
<1>2. CASE r # 0
  <2> DEFINE C == [ts : Nat \X (0 .. NsPerSecond - 1), level : 0 .. 6, tid : Nat, n : Int]
  <2>0. \A S : Logged \in Seq(S) => r \in DOMAIN Logged /\ Logged[r] \in S
    BY <1>2
  <2>1. r \in DOMAIN Logged /\ Logged[r] \in C
    BY <2>0, ToolsAssumption
  <2>2. PayloadLen(Logged[r].n) \in 0 .. 112
    <3>1. \A i \in Int : PayloadLen(i) \in 0 .. 112
      BY DEF PayloadLen
    <3>2. Logged[r].n \in Int
      BY <2>1
    <3> QED
      BY <3>1, <3>2
  <2>3. Logged[r].tid \in Tids
    BY <2>1 DEF Tids
  <2>4. Logged[r].ts \in Nat \X Nat /\ Logged[r].ts[2] < NsPerSecond
    <3>1. Logged[r].ts \in Nat \X (0 .. NsPerSecond - 1)
      BY <2>1
    <3>2. \A n \in Nat : \A i \in 0 .. n - 1 : i \in Nat /\ i < n
      OBVIOUS
    <3> QED
      BY <1>0, <3>1, <3>2
  <2> QED
    BY <1>2, <2>1, <2>2, <2>3, <2>4 DEF Fields, Moments
<1> QED
  BY <1>1, <1>2

\* What the entries read say, by field.
LevelAt == [k \in Nat |-> Fields(input[Entry * k - 1]).level]
TidAt   == [k \in Nat |-> Fields(input[Entry * k - 1]).tid]

\* Entry k of a file.
EntryAt(f, k) == Fields(f[Entry * k - 1])

\* The bounds of log_stats are reached by entries it has read, or untouched.
BoundsReached ==
  /\ total = 0 => /\ span = [min |-> UINT64_MAX, max |-> <<0, 0>>]
                  /\ payload.min = 65535 /\ payload.max = 0
  /\ total > 0 => /\ \E k \in 1 .. total : span.min = EntryAt(input, k).ts
                  /\ \E k \in 1 .. total : span.max = EntryAt(input, k).ts
                  /\ \E k \in 1 .. total : payload.min = EntryAt(input, k).payload_len
                  /\ \E k \in 1 .. total : payload.max = EntryAt(input, k).payload_len

\* The counts and bounds of log_stats are those of the entries it has read.
CountsSoFar ==
  /\ BoundsReached
  /\ input \in Seq(0 .. Len(Logged))
  /\ total \in Nat /\ Entry * total <= Len(input)
  /\ \A l \in 0 .. 6 : level_counts[l] = CountOf(LevelAt, l, total)
  /\ thread_counts \in [Tids -> Nat]
  /\ \A t \in Tids : thread_counts[t] = CountOf(TidAt, t, total)
  /\ span.min \in Moments \cup {UINT64_MAX} /\ span.max \in Moments
  /\ payload.min \in Nat /\ payload.max \in Nat
  /\ \A k \in 1 .. total :
       LET e == Fields(input[Entry * k - 1])
       IN  /\ ~Before(e.ts, span.min) /\ ~Before(span.max, e.ts)
           /\ payload.min <= e.payload_len /\ e.payload_len <= payload.max

StatsInv ==
  /\ SinkInv /\ CellsLogged
  /\ tool \in {"log_stats", "stats_done"} => CountsSoFar
  /\ tool = "stats_done" => ~MoreInput

\* A tool that starts has counted nothing.
LEMMA FreshCounts ==
  ASSUME NEW n \in Names, SinkInv, CellsLogged, Exists(n), Fresh("log_stats", <<>>, files[n])
  PROVE  CountsSoFar'
<1>1. /\ input' = files[n] /\ total' = 0
      /\ level_counts' = [l \in 0 .. 6 |-> 0] /\ thread_counts' = [t \in Tids |-> 0]
      /\ span' = [min |-> UINT64_MAX, max |-> <<0, 0>>]
      /\ payload' = [sum |-> 0, min |-> 65535, max |-> 0]
  BY DEF Fresh
<1>2. files[n] \in Seq(0 .. Len(Logged))
  <2>1. Len(lens) \in Nat /\ MaxWrites \in Nat /\ Len(Logged) \in Nat
    BY FilesTyped, SinkAssumption, ToolsAssumption
  <2>2. Len(lens) <= Len(Logged) /\ files[n] \in Seq(0 .. Len(lens))
    BY <2>1, ToolsAssumption DEF CellsLogged
  <2> QED
    BY <2>1, <2>2
<1>3. Len(files[n]) \in Nat
  BY <1>2
<1>4. 1 .. 0 = {} /\ Cardinality({}) = 0
  BY FS_EmptySet
<1>5. ASSUME NEW f, NEW x PROVE CountOf(f, x, 0) = 0
  <2>1. {k \in 1 .. 0 : f[k] = x} = {}
    BY <1>4
  <2> QED
    BY <1>4, <2>1 DEF CountOf
<1>6. \A l \in 0 .. 6 : level_counts'[l] = CountOf(LevelAt', l, total')
  BY <1>1, <1>5
<1>7. \A t \in Tids : thread_counts'[t] = CountOf(TidAt', t, total')
  BY <1>1, <1>5
<1>8. thread_counts' \in [Tids -> Nat] /\ Entry * total' <= Len(input')
  BY <1>1, <1>3 DEF Entry
<1>9. span'.min \in Moments \cup {UINT64_MAX} /\ span'.max \in Moments
       /\ payload'.min \in Nat /\ payload'.max \in Nat
  BY <1>1 DEF Moments
<1>10. BoundsReached'
  <2>1. ~(total' > 0)
    BY <1>1
  <2> QED
    BY <1>1, <2>1 DEF BoundsReached
<1> QED
  BY <1>1, <1>2, <1>4, <1>6, <1>7, <1>8, <1>9, <1>10 DEF CountsSoFar

\* Min and Max of two numbers.
LEMMA TwoNumbers ==
  ASSUME NEW a \in Nat, NEW b \in Nat
  PROVE  /\ Min({a, b}) \in {a, b} /\ Min({a, b}) <= a /\ Min({a, b}) <= b
         /\ Max({a, b}) \in {a, b} /\ a <= Max({a, b}) /\ b <= Max({a, b})
<1>1. \E m \in {a, b} : \A y \in {a, b} : m <= y
  OBVIOUS
<1>2. \E m \in {a, b} : \A y \in {a, b} : m >= y
  OBVIOUS
<1> QED
  BY <1>1, <1>2 DEF Min, Max

\* An entry counted.
LEMMA StatsCountsKeeps ==
  ASSUME CountsSoFar, StatsCounts
  PROVE  CountsSoFar'
<1> DEFINE e == Fields(Header)
           n == total + 1
<1>1. /\ MoreInput /\ total' = n /\ input' = input
      /\ level_counts' = [l \in 0 .. 6 |-> level_counts[l] + (IF l = e.level THEN 1 ELSE 0)]
      /\ thread_counts' = [thread_counts EXCEPT ![e.tid] = @ + 1]
      /\ span' = Widen(span, e.ts)
      /\ payload' = [sum |-> payload.sum + e.payload_len,
                     min |-> Min({payload.min, e.payload_len}),
                     max |-> Max({payload.max, e.payload_len})]
  BY DEF StatsCounts
<1>2. /\ input \in Seq(0 .. Len(Logged)) /\ Len(input) \in Nat /\ total \in Nat
      /\ n \in Nat /\ Entry * n <= Len(input)
  BY <1>1 DEF CountsSoFar, MoreInput, Entry
<1>3. Header = input[Entry * n - 1] /\ Header \in 0 .. Len(Logged)
  <2>1. Entry * n - 1 = total * Entry + 1 /\ Entry * n - 1 \in 1 .. Len(input)
    BY <1>2 DEF Entry
  <2> QED
    BY <1>2, <2>1 DEF Header
<1>4. e.ts \in Moments /\ e.level \in 0 .. 6 /\ e.tid \in Tids /\ e.payload_len \in Nat
  <2> HIDE DEF e
  <2>1. \A r \in 0 .. Len(Logged) :
          /\ Fields(r).ts \in Moments /\ Fields(r).level \in 0 .. 6
          /\ Fields(r).tid \in Tids /\ Fields(r).payload_len \in 0 .. 112
    BY FieldsTyped
  <2>2. \A i \in 0 .. 112 : i \in Nat
    OBVIOUS
  <2> QED
    BY <1>3, <2>1, <2>2 DEF e
<1>4a. e.payload_len <= 112
  <2> HIDE DEF e
  <2>1. \A r \in 0 .. Len(Logged) : Fields(r).payload_len \in 0 .. 112
    BY FieldsTyped
  <2>2. \A i \in 0 .. 112 : i <= 112
    OBVIOUS
  <2> QED
    BY <1>3, <2>1, <2>2 DEF e
<1>5. LevelAt' = LevelAt /\ TidAt' = TidAt /\ LevelAt[n] = e.level /\ TidAt[n] = e.tid
  BY <1>1, <1>2, <1>3 DEF LevelAt, TidAt
<1> HIDE DEF e
<1>6. \A l \in 0 .. 6 : level_counts'[l] = CountOf(LevelAt, l, n)
  <2> SUFFICES ASSUME NEW l \in 0 .. 6
               PROVE  level_counts'[l] = CountOf(LevelAt, l, n)
    OBVIOUS
  <2>1. level_counts'[l] = level_counts[l] + (IF l = e.level THEN 1 ELSE 0)
    BY <1>1
  <2>2. level_counts[l] = CountOf(LevelAt, l, total)
    BY DEF CountsSoFar
  <2>3. CountOf(LevelAt, l, total + 1) =
          CountOf(LevelAt, l, total) + (IF LevelAt[total + 1] = l THEN 1 ELSE 0)
    BY <1>2, OneMore
  <2> QED
    BY <1>5, <2>1, <2>2, <2>3
<1>7. /\ thread_counts' \in [Tids -> Nat]
      /\ \A t \in Tids : thread_counts'[t] = CountOf(TidAt, t, n)
  <2>1. thread_counts \in [Tids -> Nat]
    BY DEF CountsSoFar
  <2>2. thread_counts' \in [Tids -> Nat]
    BY <1>1, <1>4, <2>1
  <2>3. ASSUME NEW t \in Tids
        PROVE  thread_counts'[t] = CountOf(TidAt, t, n)
    <3>1. thread_counts'[t] = thread_counts[t] + (IF TidAt[n] = t THEN 1 ELSE 0)
      BY <1>1, <1>4, <1>5, <2>1
    <3>2. thread_counts[t] = CountOf(TidAt, t, total)
      BY DEF CountsSoFar
    <3>3. CountOf(TidAt, t, total + 1) =
            CountOf(TidAt, t, total) + (IF TidAt[total + 1] = t THEN 1 ELSE 0)
      BY <1>2, OneMore
    <3> QED
      BY <3>1, <3>2, <3>3
  <2> QED
    BY <2>2, <2>3
<1>8. /\ span.min \in Moments \cup {UINT64_MAX} /\ span.max \in Moments
      /\ payload.min \in Nat /\ payload.max \in Nat
  BY DEF CountsSoFar
<1>9. /\ span'.min = IF Before(e.ts, span.min) THEN e.ts ELSE span.min
      /\ span'.max = IF Before(span.max, e.ts) THEN e.ts ELSE span.max
      /\ span'.min \in Moments \cup {UINT64_MAX} /\ span'.max \in Moments
  BY <1>1, <1>4, <1>8 DEF Widen
<1>10. /\ payload'.min \in Nat /\ payload'.min <= payload.min /\ payload'.min <= e.payload_len
       /\ payload'.max \in Nat /\ payload.max <= payload'.max /\ e.payload_len <= payload'.max
  <2>1. payload'.min = Min({payload.min, e.payload_len}) /\ payload'.max = Max({payload.max, e.payload_len})
    BY <1>1
  <2>2. payload.min \in Nat /\ payload.max \in Nat /\ e.payload_len \in Nat
    BY <1>4, <1>8
  <2>3. \A a, b \in Nat : Min({a, b}) \in Nat /\ Min({a, b}) <= a /\ Min({a, b}) <= b
    BY TwoNumbers
  <2>4. \A a, b \in Nat : Max({a, b}) \in Nat /\ a <= Max({a, b}) /\ b <= Max({a, b})
    BY TwoNumbers
  <2>5. payload'.min \in Nat /\ payload'.min <= payload.min /\ payload'.min <= e.payload_len
    BY <2>1, <2>2, <2>3
  <2>6. payload'.max \in Nat /\ payload.max <= payload'.max /\ e.payload_len <= payload'.max
    BY <2>1, <2>2, <2>4
  <2> QED
    BY <2>5, <2>6
<1>11. ASSUME NEW k \in 1 .. n
       PROVE  LET x == Fields(input[Entry * k - 1])
              IN  /\ ~Before(x.ts, span'.min) /\ ~Before(span'.max, x.ts)
                  /\ payload'.min <= x.payload_len /\ x.payload_len <= payload'.max
  <2> DEFINE x == Fields(input[Entry * k - 1])
  <2>1. x.ts \in Moments /\ x.payload_len \in Nat
    <3>1. Entry * k - 1 \in 1 .. Len(input)
      BY <1>2 DEF Entry
    <3>2. input[Entry * k - 1] \in 0 .. Len(Logged)
      BY <1>2, <3>1
    <3> HIDE DEF x
    <3>3. \A r \in 0 .. Len(Logged) :
            Fields(r).ts \in Moments /\ Fields(r).payload_len \in 0 .. 112
      BY FieldsTyped
    <3>4. \A i \in 0 .. 112 : i \in Nat
      OBVIOUS
    <3> QED
      BY <3>2, <3>3, <3>4 DEF x
  <2>2. CASE k = n
    <3>1. x = e
      BY <1>3, <2>2 DEF e
    <3>2. ~Before(e.ts, span'.min) /\ ~Before(span'.max, e.ts)
      BY <1>4, <1>9, BeforeIrreflexive
    <3> QED
      BY <1>10, <3>1, <3>2
  <2>3. CASE k # n
    <3>1. k \in 1 .. total
      BY <1>2, <2>3
    <3>2. /\ ~Before(x.ts, span.min) /\ ~Before(span.max, x.ts)
          /\ payload.min <= x.payload_len /\ x.payload_len <= payload.max
      BY <3>1 DEF CountsSoFar
    <3> HIDE DEF x
    <3>3. ~Before(x.ts, span'.min)
      BY <1>4, <1>8, <1>9, <2>1, <3>2, BeforeTransitive
    <3>4. ~Before(span'.max, x.ts)
      BY <1>4, <1>8, <1>9, <2>1, <3>2, BeforeTransitive
    <3>5. payload'.min <= x.payload_len /\ x.payload_len <= payload'.max
      BY <1>8, <1>10, <2>1, <3>2
    <3> QED
      BY <3>3, <3>4, <3>5 DEF x
  <2> QED
    BY <2>2, <2>3
<1>12. EntryAt(input, n) = e /\ \A k \in 1 .. total : k \in 1 .. n
  BY <1>2, <1>3 DEF EntryAt, e
<1>13. BoundsReached'
  <2> DEFINE Reached == {EntryAt(input, k) : k \in 1 .. n}
  <2>1. e \in Reached /\ total' = n /\ n > 0 /\ input' = input
    <3>1. n \in 1 .. n /\ n > 0
      BY <1>2
    <3>2. e \in Reached
      BY <1>12, <3>1
    <3> QED
      BY <1>1, <3>1, <3>2
  <2>2. /\ payload'.min \in {payload.min, e.payload_len}
        /\ payload'.max \in {payload.max, e.payload_len}
    BY <1>1, <1>4, <1>8, TwoNumbers
  <2>3. SUFFICES /\ \E x \in Reached : span'.min = x.ts
                 /\ \E x \in Reached : span'.max = x.ts
                 /\ \E x \in Reached : payload'.min = x.payload_len
                 /\ \E x \in Reached : payload'.max = x.payload_len
    BY <2>1 DEF BoundsReached
  <2>4. CASE total = 0
    <3>1. /\ span.min = UINT64_MAX /\ span.max = <<0, 0>>
          /\ payload.min = 65535 /\ payload.max = 0
      BY <2>4 DEF CountsSoFar, BoundsReached
    <3>2. Before(e.ts, UINT64_MAX) /\ (~Before(<<0, 0>>, e.ts) => e.ts = <<0, 0>>)
      BY <1>4, ToolsAssumption DEF Before, Moments
    <3>3. span'.min = e.ts /\ span'.max = e.ts
      BY <1>9, <3>1, <3>2
    <3>4. payload'.min = e.payload_len
      BY <1>4, <1>10, <1>4a, <2>2, <3>1
    <3>5. payload'.max = e.payload_len
      <4>1. payload'.max >= e.payload_len /\ (payload'.max = 0 \/ payload'.max = e.payload_len)
        BY <1>10, <2>2, <3>1
      <4> QED
        BY <1>4, <4>1
    <3> QED
      BY <2>1, <3>3, <3>4, <3>5
  <2>5. CASE total # 0
    <3>1. /\ \E k \in 1 .. total : span.min = EntryAt(input, k).ts
          /\ \E k \in 1 .. total : span.max = EntryAt(input, k).ts
          /\ \E k \in 1 .. total : payload.min = EntryAt(input, k).payload_len
          /\ \E k \in 1 .. total : payload.max = EntryAt(input, k).payload_len
      BY <1>2, <2>5 DEF CountsSoFar, BoundsReached
    <3>2. \A k \in 1 .. total : EntryAt(input, k) \in Reached
      BY <1>12
    <3> HIDE DEF Reached
    <3>3. \E x \in Reached : span.min = x.ts
      BY <3>1, <3>2
    <3>4. \E x \in Reached : span.max = x.ts
      BY <3>1, <3>2
    <3>5. \E x \in Reached : payload.min = x.payload_len
      BY <3>1, <3>2
    <3>6. \E x \in Reached : payload.max = x.payload_len
      BY <3>1, <3>2
    <3>7. (\E x \in Reached : span'.min = x.ts) /\ \E x \in Reached : span'.max = x.ts
      BY <1>9, <2>1, <3>3, <3>4
    <3>8. \E x \in Reached : payload'.min = x.payload_len
      BY <2>1, <2>2, <3>5
    <3>9. \E x \in Reached : payload'.max = x.payload_len
      BY <2>1, <2>2, <3>6
    <3> QED
      BY <3>7, <3>8, <3>9
  <2> QED
    BY <2>4, <2>5
<1> QED
  BY <1>1, <1>2, <1>5, <1>6, <1>7, <1>9, <1>10, <1>11, <1>13 DEF CountsSoFar

\* StatsInv is inductive.
LEMMA StatsStep ==
  ASSUME StatsInv, [ToolsNext]_<<vars, toolVars>>
  PROVE  StatsInv'
<1>1. [Next]_vars
  BY DEF ToolsNext, ToolStep, OpenInput, ReaderSkips, ReaderPrints, StatsCounts,
    EndOfInput, ToolExits
<1>2. SinkInv' /\ CellsLogged'
  BY <1>1, SinkStep, CellsStep DEF StatsInv
<1>3. ASSUME NEW n \in Names, OpenInput(n)
      PROVE  StatsInv'
  <2>1. CASE \E list \in ArgLists : Fresh("log_reader", list, files[n])
    <3>1. tool' = "log_reader"
      BY <2>1 DEF Fresh
    <3> QED
      BY <1>2, <3>1 DEF StatsInv
  <2>2. CASE Fresh("log_stats", <<>>, files[n])
    <3>1. tool' = "log_stats" /\ Exists(n)
      BY <1>3, <2>2 DEF Fresh, OpenInput
    <3>2. CountsSoFar'
      BY <2>2, <3>1, FreshCounts DEF StatsInv
    <3> QED
      BY <1>2, <3>1, <3>2 DEF StatsInv
  <2> QED
    BY <1>3, <2>1, <2>2 DEF OpenInput
<1>4. CASE ReaderSkips \/ ReaderPrints
  <2>1. tool' \in {"log_reader", "reader_done"}
    BY <1>4 DEF ReaderSkips, ReaderPrints
  <2> QED
    BY <1>2, <2>1 DEF StatsInv
<1>5. CASE StatsCounts
  <2>1. tool = "log_stats" /\ tool' = "log_stats"
    BY <1>5 DEF StatsCounts
  <2>2. CountsSoFar'
    BY <1>5, <2>1, StatsCountsKeeps DEF StatsInv
  <2> QED
    BY <1>2, <2>1, <2>2 DEF StatsInv
<1>6. ASSUME UNCHANGED <<input, total, level_counts, thread_counts, span, payload>>
      PROVE  (CountsSoFar => CountsSoFar') /\ (MoreInput' = MoreInput)
  <2>1. LevelAt' = LevelAt /\ TidAt' = TidAt
    BY <1>6 DEF LevelAt, TidAt
  <2>2. CountsSoFar => CountsSoFar'
    BY <1>6, <2>1 DEF CountsSoFar, BoundsReached, EntryAt
  <2>3. MoreInput' = MoreInput
    BY <1>6 DEF MoreInput
  <2> QED
    BY <2>2, <2>3
<1>7. CASE EndOfInput
  <2>1. /\ ~MoreInput
        /\ UNCHANGED <<input, total, level_counts, thread_counts, span, payload>>
        /\ tool = "log_stats" \/ tool' = "reader_done"
    BY <1>7 DEF EndOfInput
  <2> QED
    BY <1>2, <1>6, <2>1 DEF StatsInv
<1>8. CASE ToolExits
  <2>1. tool' = "idle"
    BY <1>8 DEF ToolExits, Fresh
  <2> QED
    BY <1>2, <2>1 DEF StatsInv
<1>9. CASE UNCHANGED toolVars
  <2>1. UNCHANGED <<tool, input, total, level_counts, thread_counts, span, payload>>
    BY <1>9 DEF toolVars
  <2> QED
    BY <1>2, <1>6, <2>1 DEF StatsInv
<1> QED
  BY <1>3, <1>4, <1>5, <1>7, <1>8, <1>9 DEF ToolsNext, ToolStep

\* With the whole file read, the counts are those of the file.
LEMMA AllCounted ==
  ASSUME StatsInv
  PROVE  StatsExact
<1> SUFFICES ASSUME tool = "stats_done"
             PROVE  /\ total = Len(Headers)
                    /\ \A l \in 0 .. 6 : level_counts[l] = Times(LAMBDA e : e.level = l)
                    /\ \A t \in Tids : thread_counts[t] = Times(LAMBDA e : e.tid = t)
                    /\ \A e \in EntriesRead :
                         /\ ~Before(e.ts, span.min) /\ ~Before(span.max, e.ts)
                         /\ payload.min <= e.payload_len /\ e.payload_len <= payload.max
                    /\ Headers # <<>> =>
                         /\ {span.min, span.max} \subseteq {e.ts : e \in EntriesRead}
                         /\ {payload.min, payload.max} \subseteq
                              {e.payload_len : e \in EntriesRead}
  BY DEF StatsExact
<1>1. CountsSoFar /\ ~MoreInput
  BY DEF StatsInv
<1>2. /\ input \in Seq(0 .. Len(Logged)) /\ Len(input) \in Nat /\ total \in Nat
      /\ Len(input) \div Entry = total
  <2>1. \A a, b \in Nat : 2 * b <= a /\ ~((b + 1) * 2 <= a) => a \div 2 = b
    OBVIOUS
  <2>2. /\ input \in Seq(0 .. Len(Logged)) /\ total \in Nat
        /\ 2 * total <= Len(input) /\ ~((total + 1) * 2 <= Len(input))
    BY <1>1 DEF CountsSoFar, MoreInput, Entry
  <2> QED
    BY <2>1, <2>2 DEF Entry
<1>3. /\ DOMAIN Headers = 1 .. total
      /\ \A k \in 1 .. total : Headers[k] = input[Entry * k - 1]
  BY <1>2 DEF Headers
<1>4. Len(Headers) = total
  <2>1. \A k \in 1 .. total : Entry * k - 1 \in 1 .. Len(input)
    BY <1>1, <1>2 DEF CountsSoFar, Entry
  <2>2. Headers \in [1 .. total -> 0 .. Len(Logged)]
    BY <1>2, <2>1 DEF Headers
  <2> QED
    BY <1>2, <2>2
<1>5. ASSUME NEW l \in 0 .. 6
      PROVE  level_counts[l] = Times(LAMBDA e : e.level = l)
  <2>1. {k \in 1 .. total : LevelAt[k] = l} = {k \in DOMAIN Headers : Fields(Headers[k]).level = l}
    BY <1>2, <1>3 DEF LevelAt
  <2>2. level_counts[l] = CountOf(LevelAt, l, total)
    BY <1>1 DEF CountsSoFar
  <2> QED
    BY <2>1, <2>2 DEF Times, CountOf
<1>6. ASSUME NEW t \in Tids
      PROVE  thread_counts[t] = Times(LAMBDA e : e.tid = t)
  <2>1. {k \in 1 .. total : TidAt[k] = t} = {k \in DOMAIN Headers : Fields(Headers[k]).tid = t}
    BY <1>2, <1>3 DEF TidAt
  <2>2. thread_counts[t] = CountOf(TidAt, t, total)
    BY <1>1 DEF CountsSoFar
  <2> QED
    BY <2>1, <2>2 DEF Times, CountOf
<1>7. EntriesRead = {EntryAt(input, k) : k \in 1 .. total}
  BY <1>3 DEF EntriesRead, EntryAt
<1>8. \A e \in EntriesRead :
        /\ ~Before(e.ts, span.min) /\ ~Before(span.max, e.ts)
        /\ payload.min <= e.payload_len /\ e.payload_len <= payload.max
  BY <1>1, <1>7 DEF CountsSoFar, EntryAt
<1>9. ASSUME Headers # <<>>
      PROVE  /\ {span.min, span.max} \subseteq {e.ts : e \in EntriesRead}
             /\ {payload.min, payload.max} \subseteq {e.payload_len : e \in EntriesRead}
  <2>1. total > 0
    <3> SUFFICES ASSUME total = 0 PROVE FALSE
      BY <1>2
    <3>1. Headers = <<>>
      BY <1>2 DEF Headers
    <3> QED
      BY <1>9, <3>1
  <2>2. /\ \E k \in 1 .. total : span.min = EntryAt(input, k).ts
        /\ \E k \in 1 .. total : span.max = EntryAt(input, k).ts
        /\ \E k \in 1 .. total : payload.min = EntryAt(input, k).payload_len
        /\ \E k \in 1 .. total : payload.max = EntryAt(input, k).payload_len
    BY <1>1, <2>1 DEF CountsSoFar, BoundsReached
  <2> QED
    BY <1>7, <2>2
<1> QED
  BY <1>4, <1>5, <1>6, <1>8, <1>9

\* log_stats reports for any file a sink may leave, whatever system calls
\* failed and wherever the process died, the number of its entries, how many
\* have each level and each thread, and, when it has one, the earliest and the
\* latest timestamp and the least and the greatest payload length of its entries
\* (log_stats.cpp:45-59).
THEOREM StatsAlwaysExact == ToolsSpec => []StatsExact
<1>1. ToolsInit => StatsInv
  <2> SUFFICES ASSUME ToolsInit PROVE StatsInv
    OBVIOUS
  <2>1. SinkInv /\ tool = "idle"
    BY SinkStart DEF ToolsInit
  <2>2. lens = <<>> /\ Len(<<>>) = 0 /\ 0 <= MaxWrites /\ \A n \in Names : ~Exists(n)
    BY SinkAssumption DEF ToolsInit, Init, Exists
  <2> QED
    BY <2>1, <2>2 DEF StatsInv, CellsLogged
<1>2. StatsInv /\ [ToolsNext]_<<vars, toolVars>> => StatsInv'
  BY StatsStep
<1>3. StatsInv => StatsExact
  BY AllCounted
<1> QED
  BY <1>1, <1>2, <1>3, PTL DEF ToolsSpec

-----------------------------------------------------------------------------
(***************************************************************************)
(* Induction over the naturals, by the least number outside a set: no      *)
(* operator has to be passed to a theorem.                                 *)
(***************************************************************************)
\* A set of naturals has a least element.
LEMMA LeastNatural ==
  ASSUME NEW T \in SUBSET Nat, T # {}
  PROVE  \E m \in T : \A k \in T : m <= k
<1>1. IsWellFoundedOn(OpToRel(<, Nat), Nat)
  BY NatLessThanWellFounded
<1>2. PICK m \in T : \A k \in T : ~(<<k, m>> \in OpToRel(<, Nat))
  BY <1>1, WFMin
<1>3. \A k \in T : ~(k < m)
  BY <1>2 DEF OpToRel
<1> QED
  BY <1>3

\* Induction: a set of naturals that a number joins when all smaller ones are
\* in it holds them all.
LEMMA SetInduction ==
  ASSUME NEW S, \A n \in Nat : (\A m \in 0 .. n - 1 : m \in S) => n \in S
  PROVE  \A n \in Nat : n \in S
<1> DEFINE T == {n \in Nat : n \notin S}
<1> SUFFICES ASSUME T # {} PROVE FALSE
  OBVIOUS
<1>1. PICK m \in T : \A k \in T : m <= k
  <2>1. T \in SUBSET Nat
    OBVIOUS
  <2> HIDE DEF T
  <2> QED
    BY <2>1, LeastNatural
<1>2. \A k \in 0 .. m - 1 : k \in S
  BY <1>1
<1> QED
  BY <1>1, <1>2

\* The form with a base and a step.
LEMMA StepInduction ==
  ASSUME NEW S, 0 \in S, \A n \in Nat : n \in S => n + 1 \in S
  PROVE  \A n \in Nat : n \in S
<1>1. ASSUME NEW n \in Nat, \A m \in 0 .. n - 1 : m \in S
      PROVE  n \in S
  <2>1. CASE n = 0
    BY <2>1
  <2>2. CASE n # 0
    <3>1. n - 1 \in Nat /\ n - 1 \in 0 .. n - 1 /\ (n - 1) + 1 = n
      BY <2>2
    <3> QED
      BY <1>1, <3>1
  <2> QED
    BY <2>1, <2>2
<1> QED
  BY <1>1, SetInduction

\* A bounded set of naturals has a greatest element, Max.
LEMMA GreatestNatural ==
  ASSUME NEW T \in SUBSET Nat, T # {}, NEW b \in Nat, \A k \in T : k <= b
  PROVE  Max(T) \in T /\ \A k \in T : k <= Max(T)
<1> DEFINE U == {m \in Nat : \A k \in T : k <= m}
<1>1. PICK m \in U : \A k \in U : m <= k
  <2>1. U \in SUBSET Nat /\ b \in U
    OBVIOUS
  <2> HIDE DEF U
  <2> QED
    BY <2>1, LeastNatural
<1>2. m \in T
  <2> SUFFICES ASSUME m \notin T PROVE FALSE
    OBVIOUS
  <2>1. \A k \in T : k \in Nat /\ k < m
    BY <1>1
  <2>2. PICK k \in T : k \in Nat /\ k < m
    BY <2>1
  <2>3. m - 1 \in U
    BY <1>1, <2>1, <2>2
  <2> QED
    BY <1>1, <2>3
<1>3. \E x \in T : \A y \in T : x >= y
  BY <1>1, <1>2
<1>4. Max(T) \in T /\ \A y \in T : Max(T) >= y
  BY <1>3 DEF Max
<1>5. \A k \in T : k \in Nat
  OBVIOUS
<1> QED
  BY <1>4, <1>5

-----------------------------------------------------------------------------
(***************************************************************************)
(* The digits TextFormatter writes.                                        *)
(***************************************************************************)
\* The number the first n digits write, step by step.
Reads(val, digits, n) ==
  val[0] = 0 /\ \A k \in 1 .. n : val[k] = 10 * val[k - 1] + digits[k]

\* The recursion of Value yields what any function that follows it yields.
LEMMA ValueIs ==
  ASSUME NEW digits, NEW n \in Nat, Len(digits) = n, NEW val, Reads(val, digits, n)
  PROVE  Value(digits) = val[n]
<1> DEFINE Follows(f) == f = [k \in 0 .. n |-> IF k = 0 THEN 0 ELSE 10 * f[k - 1] + digits[k]]
           g == [k \in 0 .. n |-> val[k]]
           h == CHOOSE f : Follows(f)
<1>1. Follows(g)
  <2>1. ASSUME NEW k \in 0 .. n, k # 0
        PROVE  k \in 1 .. n /\ k - 1 \in 0 .. n
    BY <2>1
  <2> QED
    BY <2>1 DEF Reads
<1>2. Follows(h)
  BY <1>1
<1>3. Value(digits) = h[n]
  BY DEF Value
<1> HIDE DEF h
<1>4. h[0] = 0 /\ \A k \in 1 .. n : h[k] = 10 * h[k - 1] + digits[k]
  BY <1>2
<1> DEFINE S == {k \in Nat : k <= n => h[k] = val[k]}
<1>5. 0 \in S
  BY <1>4 DEF Reads
<1>6. ASSUME NEW k \in Nat, k \in S
      PROVE  k + 1 \in S
  <2> SUFFICES ASSUME k + 1 <= n PROVE h[k + 1] = val[k + 1]
    OBVIOUS
  <2>1. k + 1 \in 1 .. n /\ (k + 1) - 1 = k /\ h[k] = val[k]
    BY <1>6
  <2>2. h[k + 1] = 10 * h[k] + digits[k + 1] /\ val[k + 1] = 10 * val[k] + digits[k + 1]
    BY <1>4, <2>1 DEF Reads
  <2> QED
    BY <2>1, <2>2
<1>7. n \in S
  <2> HIDE DEF S
  <2> QED
    BY <1>5, <1>6, StepInduction
<1> QED
  BY <1>3, <1>7

\* A second, as a number.
LEMMA OneSecond == NsPerSecond \in Nat /\ NsPerSecond = 1000000000
BY SMT DEF NsPerSecond

\* The nine digits of a number of nanoseconds write it (timestamp.hpp:101).
LEMMA NsValue ==
  ASSUME NEW ns \in Nat, ns < NsPerSecond
  PROVE  Len(NsDigits(ns)) = 9 /\ Value(NsDigits(ns)) = ns
<1> DEFINE d == NsDigits(ns)
           val == <<0, ns \div 100000000, ns \div 10000000, ns \div 1000000, ns \div 100000,
                    ns \div 10000, ns \div 1000, ns \div 100, ns \div 10, ns>>
           v == [k \in 0 .. 9 |-> val[k + 1]]
<1>1. ns \in Nat /\ ns < 1000000000
  BY OneSecond, SMT
<1>2. /\ Len(d) = 9
      /\ d[1] = (ns \div 100000000) % 10 /\ d[2] = (ns \div 10000000) % 10
      /\ d[3] = (ns \div 1000000) % 10 /\ d[4] = (ns \div 100000) % 10
      /\ d[5] = (ns \div 10000) % 10 /\ d[6] = (ns \div 1000) % 10
      /\ d[7] = (ns \div 100) % 10 /\ d[8] = (ns \div 10) % 10 /\ d[9] = (ns \div 1) % 10
  BY <1>1, SMT DEF NsDigits, PowersOfTen
<1> HIDE DEF d
<1>3. /\ v[0] = 0 /\ v[9] = ns
      /\ v[1] = ns \div 100000000 /\ v[2] = ns \div 10000000
      /\ v[3] = ns \div 1000000 /\ v[4] = ns \div 100000
      /\ v[5] = ns \div 10000 /\ v[6] = ns \div 1000
      /\ v[7] = ns \div 100 /\ v[8] = ns \div 10
  BY SMT
<1> HIDE DEF v
<1>4. /\ v[1] = 10 * v[0] + d[1] /\ v[2] = 10 * v[1] + d[2] /\ v[3] = 10 * v[2] + d[3]
  BY <1>1, <1>2, <1>3, SMT
<1>5. /\ v[4] = 10 * v[3] + d[4] /\ v[5] = 10 * v[4] + d[5] /\ v[6] = 10 * v[5] + d[6]
  BY <1>1, <1>2, <1>3, SMT
<1>6. /\ v[7] = 10 * v[6] + d[7] /\ v[8] = 10 * v[7] + d[8] /\ v[9] = 10 * v[8] + d[9]
  BY <1>1, <1>2, <1>3, SMT
<1>7. \A k \in 1 .. 9 : v[k] = 10 * v[k - 1] + d[k]
  <2>1. \A k \in 1 .. 9 : k \in {1, 2, 3, 4, 5, 6, 7, 8, 9}
    BY SMT
  <2> QED
    BY <1>4, <1>5, <1>6, <2>1, SMT
<1>8. Reads(v, d, 9)
  BY <1>3, <1>7, SMT DEF Reads
<1>9. Len(d) = 9 /\ v[9] = ns
  BY <1>2, <1>3, SMT
<1>10. Value(d) = v[9]
  BY <1>8, <1>9, ValueIs
<1> QED
  BY <1>9, <1>10 DEF d

\* There is a greatest thread id, and ids are numbers.
LEMMA TidsBounded ==
  /\ Max(Tids) \in Nat
  /\ \A t \in Tids : t \in 0 .. Max(Tids)
<1> DEFINE C == [ts : Nat \X (0 .. NsPerSecond - 1), level : 0 .. 6, tid : Nat, n : Int]
           S == {n \in Nat : n <= Len(Logged) =>
                   \E b \in Nat : \A r \in 1 .. n : Logged[r].tid \in 0 .. b}
<1>1. /\ Logged \in Seq(C) /\ Len(Logged) \in Nat /\ DOMAIN Logged = 1 .. Len(Logged)
      /\ \A r \in 1 .. Len(Logged) : Logged[r].tid \in Nat
  <2>1. Logged \in Seq(C)
    BY ToolsAssumption
  <2>2. \A T : Logged \in Seq(T) =>
          /\ Len(Logged) \in Nat /\ DOMAIN Logged = 1 .. Len(Logged)
          /\ \A r \in 1 .. Len(Logged) : Logged[r] \in T
    OBVIOUS
  <2>3. \A c \in C : c.tid \in Nat
    OBVIOUS
  <2> HIDE DEF C
  <2> QED
    BY <2>1, <2>2, <2>3
<1> HIDE DEF C
<1>2. 0 \in S
  <2>1. 1 .. 0 = {}
    OBVIOUS
  <2> QED
    BY <2>1
<1>3. ASSUME NEW n \in Nat, n \in S
      PROVE  n + 1 \in S
  <2> SUFFICES ASSUME n + 1 <= Len(Logged)
               PROVE  \E b \in Nat : \A r \in 1 .. n + 1 : Logged[r].tid \in 0 .. b
    OBVIOUS
  <2>1. PICK b \in Nat : \A r \in 1 .. n : Logged[r].tid \in 0 .. b
    BY <1>1, <1>3
  <2> DEFINE t == Logged[n + 1].tid
             m == IF t > b THEN t ELSE b
  <2>2. t \in Nat
    BY <1>1
  <2> HIDE DEF t
  <2>3. m \in Nat /\ t \in 0 .. m /\ \A i \in 0 .. b : i \in 0 .. m
    BY <2>2
  <2> HIDE DEF m
  <2>4. ASSUME NEW r \in 1 .. n + 1
        PROVE  Logged[r].tid \in 0 .. m
    <3>1. CASE r = n + 1
      BY <2>3, <3>1 DEF t
    <3>2. CASE r # n + 1
      <4>1. r \in 1 .. n
        BY <3>2
      <4> QED
        BY <2>1, <2>3, <4>1
    <3> QED
      BY <3>1, <3>2
  <2> QED
    BY <2>3, <2>4
<1>4. Len(Logged) \in S
  <2> HIDE DEF S
  <2> QED
    BY <1>1, <1>2, <1>3, StepInduction
<1>5. PICK b \in Nat : \A r \in 1 .. Len(Logged) : Logged[r].tid \in 0 .. b
  BY <1>1, <1>4
<1>6. Tids \in SUBSET Nat /\ Tids # {} /\ \A t \in Tids : t <= b
  BY <1>1, <1>5 DEF Tids
<1>7. Max(Tids) \in Tids /\ \A t \in Tids : t <= Max(Tids)
  BY <1>6, GreatestNatural
<1>8. \A t \in Tids : t \in Nat
  BY <1>6
<1> QED
  BY <1>7, <1>8

\* The recursion of fast_u32_to_str is well founded.
LEMMA DigitsDefined ==
  /\ fast_u32_to_str \in [0 .. Max(Tids) -> Seq(Nat)]
  /\ \A v \in 0 .. Max(Tids) :
       fast_u32_to_str[v] = IF v < 10 THEN <<v>> ELSE Append(fast_u32_to_str[v \div 10], v % 10)
<1> DEFINE M == Max(Tids)
           Next10(f, v) == IF v < 10 THEN <<v>> ELSE Append(f[v \div 10], v % 10)
           Upto(m) == \E f \in [0 .. m -> Seq(Nat)] : \A v \in 0 .. m : f[v] = Next10(f, v)
           S == {m \in Nat : Upto(m)}
<1>1. 0 \in S
  <2> DEFINE f == [v \in 0 .. 0 |-> <<0>>]
  <2>1. f \in [0 .. 0 -> Seq(Nat)] /\ \A v \in 0 .. 0 : f[v] = Next10(f, v)
    OBVIOUS
  <2> QED
    BY <2>1
<1>2. ASSUME NEW m \in Nat, m \in S
      PROVE  m + 1 \in S
  <2>1. PICK f \in [0 .. m -> Seq(Nat)] : \A v \in 0 .. m : f[v] = Next10(f, v)
    BY <1>2
  <2> DEFINE g == [v \in 0 .. m + 1 |-> IF v = m + 1 THEN Next10(f, v) ELSE f[v]]
  <2>2. Next10(f, m + 1) \in Seq(Nat)
    <3>1. CASE m + 1 < 10
      BY <3>1
    <3>2. CASE m + 1 >= 10
      <4>1. (m + 1) \div 10 \in 0 .. m /\ (m + 1) % 10 \in Nat
        BY <3>2
      <4>2. f[(m + 1) \div 10] \in Seq(Nat)
        BY <2>1, <4>1
      <4>3. Append(f[(m + 1) \div 10], (m + 1) % 10) \in Seq(Nat)
        BY <4>1, <4>2
      <4> QED
        BY <3>2, <4>3
    <3> QED
      BY <3>1, <3>2
  <2>3. g \in [0 .. m + 1 -> Seq(Nat)]
    <3> HIDE DEF Next10
    <3>1. \A v \in 0 .. m + 1 : v # m + 1 => f[v] \in Seq(Nat)
      BY <2>1
    <3> QED
      BY <2>2, <3>1
  <2>4. ASSUME NEW v \in 0 .. m + 1
        PROVE  g[v] = Next10(g, v)
    <3>1. g[v] = Next10(f, v)
      <4>1. CASE v = m + 1
        BY <4>1
      <4>2. CASE v # m + 1
        <5>1. v \in 0 .. m /\ g[v] = f[v]
          BY <4>2
        <5> HIDE DEF g, Next10
        <5> QED
          BY <2>1, <5>1
      <4> QED
        BY <4>1, <4>2
    <3>2. v >= 10 => v \div 10 \in 0 .. m /\ g[v \div 10] = f[v \div 10]
      <4>1. v >= 10 => v \div 10 \in 0 .. m
        OBVIOUS
      <4>2. \A w \in 0 .. m : g[w] = f[w]
        OBVIOUS
      <4> QED
        BY <4>1, <4>2
    <3> HIDE DEF g
    <3> QED
      BY <3>1, <3>2
  <2> HIDE DEF g
  <2>5. \A v \in 0 .. m + 1 : g[v] = Next10(g, v)
    BY <2>4
  <2>6. Upto(m + 1)
    <3> HIDE DEF Next10
    <3> QED
      BY <2>3, <2>5
  <2> HIDE DEF Upto
  <2> QED
    BY <2>6
<1>3. M \in S
  <2> HIDE DEF S
  <2> QED
    BY <1>1, <1>2, StepInduction, TidsBounded
<1>4. PICK f \in [0 .. M -> Seq(Nat)] : \A v \in 0 .. M : f[v] = Next10(f, v)
  BY <1>3
<1> DEFINE Follows(h) == h = [v \in 0 .. M |-> IF v < 10 THEN <<v>> ELSE Append(h[v \div 10], v % 10)]
           h == CHOOSE k : Follows(k)
<1>5. Follows(f)
  BY <1>4
<1>6. Follows(h)
  BY <1>5
<1>7. fast_u32_to_str = h
  BY DEF fast_u32_to_str
<1> HIDE DEF h, M
<1>8. \A v \in 0 .. M : h[v] = Next10(h, v)
  BY <1>6
<1> DEFINE R == {v \in Nat : v <= M => h[v] \in Seq(Nat)}
<1>9. ASSUME NEW n \in Nat, \A m \in 0 .. n - 1 : m \in R
      PROVE  n \in R
  <2> SUFFICES ASSUME n <= M PROVE h[n] \in Seq(Nat)
    OBVIOUS
  <2>0. M \in Nat
    BY TidsBounded DEF M
  <2>1. h[n] = Next10(h, n)
    BY <1>8, <2>0
  <2>2. CASE n < 10
    BY <2>1, <2>2
  <2>3. CASE n >= 10
    <3>1. n \div 10 \in 0 .. n - 1 /\ n \div 10 <= M /\ n % 10 \in Nat
      BY <2>0, <2>3
    <3>2. h[n \div 10] \in Seq(Nat)
      BY <1>9, <3>1
    <3>3. Append(h[n \div 10], n % 10) \in Seq(Nat)
      BY <3>1, <3>2
    <3> QED
      BY <2>1, <2>3, <3>3
  <2> QED
    BY <2>2, <2>3
<1>10. \A v \in Nat : v \in R
  <2> HIDE DEF R
  <2> QED
    BY <1>9, SetInduction
<1>11. M \in Nat
  BY TidsBounded DEF M
<1>12. h \in [0 .. M -> Seq(Nat)]
  <2>1. \A v \in 0 .. M : h[v] \in Seq(Nat)
    BY <1>10, <1>11
  <2>2. h = [v \in 0 .. M |-> h[v]]
    BY <1>6
  <2> QED
    BY <2>1, <2>2
<1> QED
  BY <1>7, <1>8, <1>12 DEF M

\* The digits of a thread id write it (formatter.hpp:77).
LEMMA TidValue ==
  ASSUME NEW t \in Tids
  PROVE  Value(fast_u32_to_str[t]) = t
<1> DEFINE M == Max(Tids)
           d == fast_u32_to_str
           Good(v) == \E val : Reads(val, d[v], Len(d[v])) /\ val[Len(d[v])] = v
           S == {v \in Nat : v <= M => Good(v)}
<1>1. /\ M \in Nat /\ t \in 0 .. M
      /\ \A v \in 0 .. M : d[v] \in Seq(Nat)
      /\ \A v \in 0 .. M : d[v] = IF v < 10 THEN <<v>> ELSE Append(d[v \div 10], v % 10)
  BY TidsBounded, DigitsDefined
<1> HIDE DEF M, d
<1>2. ASSUME NEW v \in Nat, \A m \in 0 .. v - 1 : m \in S
      PROVE  v \in S
  <2> SUFFICES ASSUME v <= M PROVE Good(v)
    OBVIOUS
  <2>0. v \in 0 .. M
    BY <1>1
  <2>1. CASE v < 10
    <3> DEFINE val == [k \in 0 .. 1 |-> IF k = 0 THEN 0 ELSE v]
    <3>1. d[v] = <<v>>
      BY <1>1, <2>0, <2>1
    <3>2. Len(d[v]) = 1 /\ d[v][1] = v
      BY <3>1
    <3>3. val[0] = 0 /\ val[1] = v
      OBVIOUS
    <3> HIDE DEF val
    <3>4. \A k \in 1 .. 1 : val[k] = 10 * val[k - 1] + d[v][k]
      BY <3>2, <3>3
    <3> QED
      BY <3>2, <3>3, <3>4 DEF Reads
  <2>2. CASE v >= 10
    <3> DEFINE w == v \div 10
               x == v % 10
               n == Len(d[w])
    <3>1. w \in 0 .. v - 1 /\ w \in 0 .. M /\ x \in Nat /\ v = 10 * w + x
      BY <1>1, <2>2
    <3>2. d[v] = Append(d[w], x) /\ d[w] \in Seq(Nat) /\ n \in Nat
      <4>1. d[v] = Append(d[w], x)
        <5>1. d[v] = IF v < 10 THEN <<v>> ELSE Append(d[v \div 10], v % 10)
          BY <1>1, <2>0
        <5>2. ~(v < 10)
          BY <2>2
        <5> QED
          BY <5>1, <5>2
      <4>2. d[w] \in Seq(Nat)
        BY <1>1, <3>1
      <4> QED
        BY <4>1, <4>2
    <3> HIDE DEF w, x
    <3>3. Len(d[v]) = n + 1 /\ d[v][n + 1] = x /\ \A k \in 1 .. n : d[v][k] = d[w][k]
      BY <3>1, <3>2
    <3>4. Good(w)
      BY <1>1, <1>2, <3>1
    <3>5. PICK old : Reads(old, d[w], n) /\ old[n] = w
      BY <3>4
    <3> DEFINE val == [k \in 0 .. n + 1 |-> IF k = n + 1 THEN v ELSE old[k]]
    <3> HIDE DEF n
    <3>6. val[n + 1] = v /\ \A k \in 0 .. n : val[k] = old[k]
      BY <3>2
    <3> HIDE DEF val
    <3>7. val[0] = 0
      BY <3>2, <3>5, <3>6 DEF Reads
    <3>8. ASSUME NEW k \in 1 .. n + 1
          PROVE  val[k] = 10 * val[k - 1] + d[v][k]
      <4>1. CASE k = n + 1
        <5>1. n \in 0 .. n /\ k - 1 = n
          BY <3>2, <4>1
        <5>2. val[k] = v /\ val[k - 1] = w /\ d[v][k] = x
          BY <3>3, <3>5, <3>6, <4>1, <5>1
        <5> QED
          BY <3>1, <5>2
      <4>2. CASE k # n + 1
        <5>1. k \in 1 .. n /\ k \in 0 .. n /\ k - 1 \in 0 .. n
          BY <3>2, <4>2
        <5>2. val[k] = old[k] /\ val[k - 1] = old[k - 1] /\ d[v][k] = d[w][k]
          BY <3>3, <3>6, <5>1
        <5>3. old[k] = 10 * old[k - 1] + d[w][k]
          BY <3>5, <5>1 DEF Reads
        <5> QED
          BY <5>2, <5>3
      <4> QED
        BY <4>1, <4>2
    <3>9. Reads(val, d[v], Len(d[v])) /\ val[Len(d[v])] = v
      BY <3>3, <3>6, <3>7, <3>8 DEF Reads
    <3> QED
      BY <3>9
  <2> QED
    BY <2>1, <2>2
<1>3. t \in S
  <2>1. t \in Nat
    BY <1>1
  <2> HIDE DEF S
  <2> QED
    BY <1>2, <2>1, SetInduction
<1>4. PICK val : Reads(val, d[t], Len(d[t])) /\ val[Len(d[t])] = t
  BY <1>1, <1>3
<1>5. Len(d[t]) \in Nat
  BY <1>1
<1>6. Value(d[t]) = val[Len(d[t])]
  BY <1>4, <1>5, ValueIs
<1> QED
  BY <1>4, <1>6 DEF d

\* What a line of the reader's must tell of its entry.
Tells(line) ==
  LET e == Fields(line.entry)
  IN  /\ Len(line.ns) = 9 /\ Value(line.ns) = e.ts[2]
      /\ Value(line.tid) = e.tid
      /\ line.text = IF line.entry = 0 THEN 0
                     ELSE Min({112, Max({0, Logged[line.entry].n})})
      /\ LevelNames[e.level + 1] = line.level

\* The length of a payload is that of the text, cut to 0 .. 112
\* (logger.hpp:193).
LEMMA PayloadCut ==
  ASSUME NEW n \in Int
  PROVE  PayloadLen(n) = Min({112, Max({0, n})})
<1>1. \A m \in Int : Max({0, m}) = IF m > 0 THEN m ELSE 0
  <2> SUFFICES ASSUME NEW m \in Int PROVE Max({0, m}) = IF m > 0 THEN m ELSE 0
    OBVIOUS
  <2>1. \E x \in {0, m} : \A y \in {0, m} : x >= y
    OBVIOUS
  <2>2. Max({0, m}) \in {0, m} /\ \A y \in {0, m} : Max({0, m}) >= y
    BY <2>1 DEF Max
  <2> QED
    BY <2>2
<1>2. \A m \in Int : Min({112, m}) = IF m < 112 THEN m ELSE 112
  <2> SUFFICES ASSUME NEW m \in Int PROVE Min({112, m}) = IF m < 112 THEN m ELSE 112
    OBVIOUS
  <2>1. \E x \in {112, m} : \A y \in {112, m} : x <= y
    OBVIOUS
  <2>2. Min({112, m}) \in {112, m} /\ \A y \in {112, m} : Min({112, m}) <= y
    BY <2>1 DEF Min
  <2> QED
    BY <2>2
<1> DEFINE p == Max({0, n})
<1>3. p \in Int /\ p = IF n > 0 THEN n ELSE 0
  BY <1>1
<1> HIDE DEF p
<1>4. Min({112, p}) = IF p < 112 THEN p ELSE 112
  BY <1>2, <1>3
<1> QED
  BY <1>3, <1>4 DEF PayloadLen, p

\* The line TextFormatter makes of an entry tells what it should.
LEMMA LineTells ==
  ASSUME NEW r \in 0 .. Len(Logged)
  PROVE  Tells(Line(r)) /\ Line(r).entry = r
<1> DEFINE e == Fields(r)
<1>1. /\ e.level \in 0 .. 6 /\ e.tid \in Tids /\ e.payload_len \in 0 .. 112
      /\ e.ts[2] \in Nat /\ e.ts[2] < NsPerSecond
      /\ r # 0 => Logged[r].n \in Int
  <2>1. /\ Fields(r).ts \in Moments /\ Fields(r).level \in 0 .. 6
        /\ Fields(r).tid \in Tids /\ Fields(r).payload_len \in 0 .. 112
        /\ Fields(r).ts[2] < NsPerSecond
        /\ r # 0 => Logged[r].n \in Int
    BY FieldsTyped
  <2> QED
    BY <2>1 DEF Moments
<1>2. e.payload_len = IF r = 0 THEN 0 ELSE Min({112, Max({0, Logged[r].n})})
  <2>1. CASE r = 0
    BY <2>1 DEF Fields
  <2>2. CASE r # 0
    <3>1. e.payload_len = PayloadLen(Logged[r].n)
      BY <2>2 DEF Fields
    <3> QED
      BY <1>1, <2>2, <3>1, PayloadCut
  <2> QED
    BY <2>1, <2>2
<1> DEFINE line == Line(r)
<1>3. /\ line.entry = r /\ line.ns = NsDigits(e.ts[2]) /\ line.tid = fast_u32_to_str[e.tid]
      /\ line.level = level_to_string(e.level)
      /\ line.text = IF e.payload_len > 112 THEN 112 ELSE e.payload_len
  BY DEF Line
<1> HIDE DEF line, e
<1>4. Len(line.ns) = 9 /\ Value(line.ns) = e.ts[2]
  BY <1>1, <1>3, NsValue
<1>5. Value(line.tid) = e.tid
  BY <1>1, <1>3, TidValue
<1>6. line.text = e.payload_len
  <2>1. \A i \in 0 .. 112 : (IF i > 112 THEN 112 ELSE i) = i
    OBVIOUS
  <2>2. e.payload_len \in 0 .. 112
    BY <1>1
  <2>3. line.text = IF e.payload_len > 112 THEN 112 ELSE e.payload_len
    BY <1>3
  <2> QED
    BY <2>1, <2>2, <2>3
<1>7. LevelNames[e.level + 1] = line.level
  BY <1>1, <1>3 DEF level_to_string
<1> QED
  BY <1>2, <1>3, <1>4, <1>5, <1>6, <1>7 DEF Tells, line, e

-----------------------------------------------------------------------------
(***************************************************************************)
(* log_reader's options.                                                   *)
(***************************************************************************)
\* Where a flag is among the first m pairs of arguments, and the value the last
\* of them gives it.
FlagAt(list, flag, m) == {k \in 1 .. 2 * m : k % 2 = 1 /\ list[k] = flag}
LastValue(list, flag, default, m) ==
  IF FlagAt(list, flag, m) = {} THEN default ELSE list[Max(FlagAt(list, flag, m)) + 1]

\* What pair m + 1 changes for a flag.
PairDecides(list, flag, default, m) ==
  /\ LastValue(list, flag, default, m + 1) =
       IF list[2 * m + 1] = flag THEN list[2 * m + 2]
                                 ELSE LastValue(list, flag, default, m)
  /\ FlagAt(list, flag, m + 1) = {} <=>
       FlagAt(list, flag, m) = {} /\ list[2 * m + 1] # flag

\* One more pair, later than all others.
LEMMA OnePairMore ==
  ASSUME NEW list, NEW flag, NEW default, NEW m \in Nat
  PROVE  PairDecides(list, flag, default, m)
<1> USE DEF PairDecides
<1> DEFINE A == FlagAt(list, flag, m)
           B == FlagAt(list, flag, m + 1)
<1>1. \A k \in 1 .. 2 * (m + 1) : k % 2 = 1 => k \in 1 .. 2 * m \/ k = 2 * m + 1
  OBVIOUS
<1>2. (2 * m + 1) % 2 = 1 /\ 2 * m + 1 \in 1 .. 2 * (m + 1) /\ 2 * m + 1 \notin 1 .. 2 * m
  OBVIOUS
<1>3. \A k \in 1 .. 2 * m : k \in 1 .. 2 * (m + 1)
  OBVIOUS
<1>4. B = IF list[2 * m + 1] = flag THEN A \cup {2 * m + 1} ELSE A
  BY <1>1, <1>2, <1>3 DEF FlagAt
<1>5. A \in SUBSET Nat /\ \A k \in A : k <= 2 * m
  BY DEF FlagAt
<1> HIDE DEF A, B
<1>6. CASE list[2 * m + 1] = flag
  <2>1. B = A \cup {2 * m + 1} /\ B # {}
    BY <1>4, <1>6
  <2>2. B \in SUBSET Nat /\ \A k \in B : k <= 2 * m + 1
    BY <1>5, <2>1
  <2>3. Max(B) \in B /\ \A k \in B : k <= Max(B)
    <3>1. 2 * m + 1 \in Nat
      OBVIOUS
    <3> QED
      BY <2>1, <2>2, <3>1, GreatestNatural
  <2>4. Max(B) = 2 * m + 1
    <3>1. 2 * m + 1 \in B /\ Max(B) \in Nat
      BY <2>1, <2>2, <2>3
    <3> QED
      BY <2>2, <2>3, <3>1
  <2>5. LastValue(list, flag, default, m + 1) = list[(2 * m + 1) + 1]
    BY <2>1, <2>4 DEF LastValue, B
  <2>6. (2 * m + 1) + 1 = 2 * m + 2
    OBVIOUS
  <2> QED
    BY <1>6, <2>1, <2>5, <2>6 DEF B
<1>7. CASE list[2 * m + 1] # flag
  <2>1. B = A
    BY <1>4, <1>7
  <2> QED
    BY <1>7, <2>1 DEF LastValue, A, B
<1> QED
  BY <1>6, <1>7

\* The options the first m pairs set.
OptionsUpTo(list, m) ==
  [min_level |-> parse_level(LastValue(list, "--level", "TRACE", m)),
   filter_tid |-> LastValue(list, "--thread", 0, m),
   has_tid_filter |-> FlagAt(list, "--thread", m) # {},
   limit |-> LastValue(list, "--limit", 0, m)]

\* TRACE is the lowest level.
LEMMA TraceIsLowest == parse_level("TRACE") = 0
<1> DEFINE names == <<"TRACE", "DEBUG", "INFO", "WARN", "ERROR", "FATAL">>
           l == {k \in 1 .. 6 : "TRACE" = names[k]}
<1>1. l = {1}
  <2>1. \A k \in 1 .. 6 : k = 1 \/ k = 2 \/ k = 3 \/ k = 4 \/ k = 5 \/ k = 6
    OBVIOUS
  <2>2. /\ names[1] = "TRACE" /\ names[2] # "TRACE" /\ names[3] # "TRACE"
        /\ names[4] # "TRACE" /\ names[5] # "TRACE" /\ names[6] # "TRACE"
    OBVIOUS
  <2> HIDE DEF names
  <2> QED
    BY <2>1, <2>2
<1>2. Max({1}) = 1
  BY DEF Max
<1>3. parse_level("TRACE") = IF l = {} THEN 0 ELSE Max(l) - 1
  BY DEF parse_level
<1> HIDE DEF l
<1> QED
  BY <1>1, <1>2, <1>3

\* Without arguments there are the defaults (log_reader.cpp:21).
LEMMA NoOptions ==
  ASSUME NEW list
  PROVE  OptionsUpTo(list, 0) = Defaults
<1>1. \A flag : FlagAt(list, flag, 0) = {}
  BY DEF FlagAt
<1> QED
  BY <1>1, TraceIsLowest DEF OptionsUpTo, Defaults, LastValue

\* A pair sets its option, and no other.
LEMMA PairSetsOption ==
  ASSUME NEW list, NEW m \in Nat
  PROVE  OptionsUpTo(list, m + 1) =
           SetOption(OptionsUpTo(list, m), list[2 * m + 1], list[2 * m + 2])
<1>0. ASSUME NEW f, NEW default
      PROVE  /\ LastValue(list, f, default, m + 1) =
                  IF list[2 * m + 1] = f THEN list[2 * m + 2]
                                         ELSE LastValue(list, f, default, m)
             /\ FlagAt(list, f, m + 1) = {} <=>
                  FlagAt(list, f, m) = {} /\ list[2 * m + 1] # f
  <2>1. PairDecides(list, f, default, m)
    BY OnePairMore
  <2> QED
    BY <2>1 DEF PairDecides
<1> DEFINE flag == list[2 * m + 1]
           value == list[2 * m + 2]
           o == OptionsUpTo(list, m)
           new == OptionsUpTo(list, m + 1)
<1>1. /\ o.min_level = parse_level(LastValue(list, "--level", "TRACE", m))
      /\ o.filter_tid = LastValue(list, "--thread", 0, m)
      /\ o.has_tid_filter = (FlagAt(list, "--thread", m) # {})
      /\ o.limit = LastValue(list, "--limit", 0, m)
      /\ o = [min_level |-> o.min_level, filter_tid |-> o.filter_tid,
              has_tid_filter |-> o.has_tid_filter, limit |-> o.limit]
  BY DEF OptionsUpTo
<1>2. new = [min_level |-> parse_level(IF flag = "--level" THEN value
                                       ELSE LastValue(list, "--level", "TRACE", m)),
             filter_tid |-> IF flag = "--thread" THEN value ELSE o.filter_tid,
             has_tid_filter |-> o.has_tid_filter \/ flag = "--thread",
             limit |-> IF flag = "--limit" THEN value ELSE o.limit]
  <2>1. LastValue(list, "--level", "TRACE", m + 1) =
          IF flag = "--level" THEN value ELSE LastValue(list, "--level", "TRACE", m)
    BY <1>0
  <2>2. LastValue(list, "--thread", 0, m + 1) =
          IF flag = "--thread" THEN value ELSE LastValue(list, "--thread", 0, m)
    BY <1>0
  <2>3. LastValue(list, "--limit", 0, m + 1) =
          IF flag = "--limit" THEN value ELSE LastValue(list, "--limit", 0, m)
    BY <1>0
  <2>4. FlagAt(list, "--thread", m + 1) = {} <=> FlagAt(list, "--thread", m) = {} /\ flag # "--thread"
    BY <1>0
  <2> HIDE DEF flag, value, o
  <2>5. (FlagAt(list, "--thread", m + 1) # {}) = (o.has_tid_filter \/ flag = "--thread")
    BY <1>1, <2>4
  <2> QED
    BY <1>1, <2>1, <2>2, <2>3, <2>5 DEF OptionsUpTo
<1> DEFINE s == SetOption(o, flag, value)
<1> HIDE DEF o, new, flag, value
<1>3. CASE flag = "--level"
  <2>1. s = [o EXCEPT !.min_level = parse_level(value)]
    BY <1>3 DEF SetOption
  <2>2. new = [min_level |-> parse_level(value), filter_tid |-> o.filter_tid,
               has_tid_filter |-> o.has_tid_filter \/ flag = "--thread", limit |-> o.limit]
    BY <1>2, <1>3
  <2>3. (o.has_tid_filter \/ flag = "--thread") = o.has_tid_filter
    BY <1>1, <1>3
  <2> HIDE DEF s
  <2> QED
    BY <1>1, <2>1, <2>2, <2>3 DEF s, o, new, flag, value
<1>4. CASE flag = "--thread"
  <2>1. s = [o EXCEPT !.filter_tid = value, !.has_tid_filter = TRUE]
    BY <1>4 DEF SetOption
  <2>2. new = [min_level |-> o.min_level, filter_tid |-> value,
               has_tid_filter |-> o.has_tid_filter \/ flag = "--thread", limit |-> o.limit]
    BY <1>1, <1>2, <1>4
  <2>3. (o.has_tid_filter \/ flag = "--thread") = TRUE
    BY <1>4
  <2> HIDE DEF s
  <2> QED
    BY <1>1, <2>1, <2>2, <2>3 DEF s, o, new, flag, value
<1>5. CASE flag = "--limit"
  <2>1. s = [o EXCEPT !.limit = value]
    BY <1>5 DEF SetOption
  <2>2. new = [min_level |-> o.min_level, filter_tid |-> o.filter_tid,
               has_tid_filter |-> o.has_tid_filter \/ flag = "--thread", limit |-> value]
    BY <1>1, <1>2, <1>5
  <2>3. (o.has_tid_filter \/ flag = "--thread") = o.has_tid_filter
    BY <1>1, <1>5
  <2> HIDE DEF s
  <2> QED
    BY <1>1, <2>1, <2>2, <2>3 DEF s, o, new, flag, value
<1>6. CASE flag \notin {"--level", "--thread", "--limit"}
  <2>1. s = o
    BY <1>6 DEF SetOption
  <2>2. new = [min_level |-> o.min_level, filter_tid |-> o.filter_tid,
               has_tid_filter |-> o.has_tid_filter \/ flag = "--thread", limit |-> o.limit]
    BY <1>1, <1>2, <1>6
  <2>3. (o.has_tid_filter \/ flag = "--thread") = o.has_tid_filter
    BY <1>1, <1>6
  <2> HIDE DEF s
  <2> QED
    BY <1>1, <2>1, <2>2, <2>3 DEF s, o, new, flag, value
<1> QED
  BY <1>3, <1>4, <1>5, <1>6 DEF s, o, new, flag, value

\* parse_args gives each option the value of its last occurrence
\* (log_reader.cpp:49).
LEMMA ParsedOptions ==
  ASSUME NEW list, NEW n \in Nat, n = Len(list) \div 2
  PROVE  parse_args(list) = OptionsUpTo(list, n)
<1> DEFINE Follows(f) == f = [k \in 0 .. n |-> IF k = 0 THEN Defaults
                                ELSE SetOption(f[k - 1], list[2 * k - 1], list[2 * k])]
           g == [k \in 0 .. n |-> OptionsUpTo(list, k)]
           h == CHOOSE f : Follows(f)
<1>1. ASSUME NEW k \in 1 .. n
      PROVE  OptionsUpTo(list, k) =
               SetOption(OptionsUpTo(list, k - 1), list[2 * k - 1], list[2 * k])
  <2>1. k - 1 \in Nat /\ (k - 1) + 1 = k /\ 2 * (k - 1) + 1 = 2 * k - 1 /\ 2 * (k - 1) + 2 = 2 * k
    OBVIOUS
  <2>2. OptionsUpTo(list, (k - 1) + 1) =
          SetOption(OptionsUpTo(list, k - 1), list[2 * (k - 1) + 1], list[2 * (k - 1) + 2])
    BY <2>1, PairSetsOption
  <2> QED
    BY <2>1, <2>2
<1>2. Follows(g)
  <2>1. \A k \in 0 .. n : k # 0 => k \in 1 .. n /\ k - 1 \in 0 .. n
    OBVIOUS
  <2>2. \A k \in 0 .. n : g[k] = IF k = 0 THEN Defaults
                                 ELSE SetOption(g[k - 1], list[2 * k - 1], list[2 * k])
    BY <1>1, <2>1, NoOptions
  <2>3. g = [k \in 0 .. n |-> g[k]]
    OBVIOUS
  <2> HIDE DEF g
  <2> QED
    BY <2>2, <2>3
<1>3. Follows(h)
  <2> HIDE DEF g
  <2> QED
    BY <1>2
<1>4. parse_args(list) = h[n]
  BY DEF parse_args
<1> HIDE DEF h
<1> DEFINE S == {k \in Nat : k <= n => h[k] = OptionsUpTo(list, k)}
<1>5. 0 \in S
  BY <1>3, NoOptions
<1>6. ASSUME NEW k \in Nat, k \in S
      PROVE  k + 1 \in S
  <2> SUFFICES ASSUME k + 1 <= n PROVE h[k + 1] = OptionsUpTo(list, k + 1)
    OBVIOUS
  <2>1. k + 1 \in 1 .. n /\ k + 1 \in 0 .. n /\ k + 1 # 0 /\ (k + 1) - 1 = k
    OBVIOUS
  <2>2. h[k + 1] = SetOption(h[(k + 1) - 1], list[2 * (k + 1) - 1], list[2 * (k + 1)])
    BY <1>3, <2>1
  <2>3. h[k] = OptionsUpTo(list, k)
    BY <1>6
  <2> QED
    BY <1>1, <2>1, <2>2, <2>3
<1>7. n \in S
  <2> HIDE DEF S
  <2> QED
    BY <1>5, <1>6, StepInduction
<1> QED
  BY <1>4, <1>7

\* What the reader's filters and limit are, in the terms of ReaderExact.
LEMMA OptionsAsked ==
  ASSUME NEW n \in Nat, Len(argv) = n,
         argv = <<>> \/ argv \in ArgLists
  PROVE  /\ Opts.limit = ValueOf("--limit", 0) /\ Opts.limit \in Nat
         /\ \A e : Passes(e) <=>
              /\ e.level >= parse_level(ValueOf("--level", "TRACE"))
              /\ ValueOf("--thread", Uninit) = Uninit \/ e.tid = ValueOf("--thread", Uninit)
<1> DEFINE m == n \div 2
<1>1. m \in Nat /\ 2 * m <= n /\ n <= 2 * m + 1
  OBVIOUS
<1>2. \A k \in Nat : k % 2 = 1 => (k \in 1 .. 2 * m <=> k \in 1 .. n - 1)
  OBVIOUS
<1>3. Opts = OptionsUpTo(argv, m)
  BY <1>1, ParsedOptions DEF Opts
<1> HIDE DEF m
<1>4. ASSUME NEW flag
      PROVE  {k \in 1 .. Len(argv) - 1 : k % 2 = 1 /\ argv[k] = flag} = FlagAt(argv, flag, m)
  BY <1>1, <1>2 DEF FlagAt
<1>5. ASSUME NEW flag, NEW default
      PROVE  ValueOf(flag, default) = LastValue(argv, flag, default, m)
  BY <1>4 DEF ValueOf, LastValue
<1>6. ASSUME NEW flag, FlagAt(argv, flag, m) # {}
      PROVE  /\ Max(FlagAt(argv, flag, m)) \in 1 .. n - 1
             /\ Max(FlagAt(argv, flag, m)) % 2 = 1
             /\ argv[Max(FlagAt(argv, flag, m))] = flag
  <2> DEFINE F == FlagAt(argv, flag, m)
  <2>1. F \in SUBSET Nat /\ \A k \in F : k <= 2 * m
    BY <1>1 DEF FlagAt
  <2> HIDE DEF F
  <2>2. Max(F) \in F
    <3>1. 2 * m \in Nat /\ F # {}
      BY <1>1, <1>6 DEF F
    <3> QED
      BY <2>1, <3>1, GreatestNatural
  <2> QED
    BY <1>1, <1>2, <2>2 DEF F, FlagAt
<1>7. ASSUME NEW flag \in {"--thread", "--limit"}, NEW default, FlagAt(argv, flag, m) # {}
      PROVE  LastValue(argv, flag, default, m) \in Nat
  <2> DEFINE k == Max(FlagAt(argv, flag, m))
  <2>1. k \in 1 .. n - 1 /\ k % 2 = 1 /\ argv[k] = flag
    BY <1>6, <1>7
  <2>2. LastValue(argv, flag, default, m) = argv[k + 1]
    BY <1>7 DEF LastValue
  <2> HIDE DEF k
  <2>3. argv \in ArgLists
    <3>1. n > 0
      BY <2>1
    <3>2. Len(<<>>) = 0
      OBVIOUS
    <3> QED
      BY <3>1, <3>2
  <2> QED
    BY <2>1, <2>2, <2>3, ToolsAssumption
<1>8. Opts.limit = ValueOf("--limit", 0) /\ Opts.limit \in Nat
  <2>1. Opts.limit = LastValue(argv, "--limit", 0, m)
    BY <1>3 DEF OptionsUpTo
  <2>2. LastValue(argv, "--limit", 0, m) \in Nat
    <3>1. CASE FlagAt(argv, "--limit", m) = {}
      BY <3>1 DEF LastValue
    <3>2. CASE FlagAt(argv, "--limit", m) # {}
      BY <1>7, <3>2
    <3> QED
      BY <3>1, <3>2
  <2> QED
    BY <1>5, <2>1, <2>2
<1>9. ASSUME NEW e
      PROVE  Passes(e) <=>
               /\ e.level >= parse_level(ValueOf("--level", "TRACE"))
               /\ ValueOf("--thread", Uninit) = Uninit \/ e.tid = ValueOf("--thread", Uninit)
  <2>1. Opts.min_level = parse_level(ValueOf("--level", "TRACE"))
    BY <1>3, <1>5 DEF OptionsUpTo
  <2>2. CASE FlagAt(argv, "--thread", m) = {}
    <3>1. ~Opts.has_tid_filter /\ ValueOf("--thread", Uninit) = Uninit
      BY <1>3, <1>5, <2>2 DEF OptionsUpTo, LastValue
    <3> QED
      BY <2>1, <3>1 DEF Passes
  <2>3. CASE FlagAt(argv, "--thread", m) # {}
    <3>1. Opts.has_tid_filter /\ Opts.filter_tid = ValueOf("--thread", Uninit)
      BY <1>3, <1>5, <2>3 DEF OptionsUpTo, LastValue
    <3>2. ValueOf("--thread", Uninit) # Uninit
      BY <1>5, <1>7, <2>3, ToolsAssumption
    <3> QED
      BY <2>1, <3>1, <3>2 DEF Passes
  <2> QED
    BY <2>2, <2>3
<1> QED
  BY <1>8, <1>9

-----------------------------------------------------------------------------
(***************************************************************************)
(* What log_reader shows.  ReadSoFar says of the entries read what         *)
(* ReaderExact says of the file.                                           *)
(***************************************************************************)
\* What the entries read say, as far as the reader is concerned.
AskedAt == [k \in Nat |-> IF Asked(k) THEN 1 ELSE 0]

\* What log_reader has shown is what it was asked for among the entries read.
ReadSoFar ==
  /\ input \in Seq(0 .. Len(Logged))
  /\ total \in Nat /\ Entry * total <= Len(input)
  /\ argv = <<>> \/ argv \in ArgLists
  /\ \E S : shown \in Seq(S)
  /\ count = Len(shown) /\ count = AskedUpTo(total)
  /\ \A k \in 1 .. total : Asked(k) => shown[AskedUpTo(k)].entry = Headers[k]
  /\ \A k \in DOMAIN shown : Tells(shown[k])

ReaderInv ==
  /\ SinkInv /\ CellsLogged
  /\ tool \in {"log_reader", "reader_done"} => ReadSoFar
  /\ tool = "log_reader" => LET limit == ValueOf("--limit", 0)
                            IN  limit = 0 \/ count < limit
  /\ tool = "reader_done" => LET limit == ValueOf("--limit", 0)
                             IN  \/ ~MoreInput /\ (limit = 0 \/ count < limit)
                                 \/ limit > 0 /\ count = limit

\* Another entry is asked for or not.
LEMMA AskedOneMore ==
  ASSUME NEW n \in Nat
  PROVE  /\ AskedUpTo(n) \in Nat /\ AskedUpTo(0) = 0
         /\ AskedUpTo(n + 1) = AskedUpTo(n) + (IF Asked(n + 1) THEN 1 ELSE 0)
<1>1. ASSUME NEW k \in Nat
      PROVE  AskedUpTo(k) = CountOf(AskedAt, 1, k)
  <2>1. {j \in 1 .. k : Asked(j)} = {j \in 1 .. k : AskedAt[j] = 1}
    BY DEF AskedAt
  <2> QED
    BY <2>1 DEF AskedUpTo, CountOf
<1>2. AskedAt[n + 1] = 1 <=> Asked(n + 1)
  BY DEF AskedAt
<1>3. CountOf(AskedAt, 1, n + 1) = CountOf(AskedAt, 1, n) + (IF AskedAt[n + 1] = 1 THEN 1 ELSE 0)
  BY OneMore
<1>4. AskedUpTo(n) \in Nat
  <2>1. IsFiniteSet(1 .. n)
    BY FS_Interval
  <2>2. IsFiniteSet({j \in 1 .. n : Asked(j)})
    BY <2>1, FS_Subset
  <2> QED
    BY <2>2, FS_CardinalityType DEF AskedUpTo
<1>5. AskedUpTo(0) = 0
  <2>1. {j \in 1 .. 0 : Asked(j)} = {}
    OBVIOUS
  <2> QED
    BY <2>1, FS_EmptySet DEF AskedUpTo
<1> QED
  BY <1>1, <1>2, <1>3, <1>4, <1>5

\* The more entries, the more asked for.
LEMMA AskedGrows ==
  ASSUME NEW m \in Nat, NEW n \in Nat, m <= n
  PROVE  AskedUpTo(m) <= AskedUpTo(n)
<1> DEFINE S == {k \in Nat : m <= k => AskedUpTo(m) <= AskedUpTo(k)}
<1>1. ASSUME NEW k \in Nat, \A l \in 0 .. k - 1 : l \in S
      PROVE  k \in S
  <2> SUFFICES ASSUME m <= k PROVE AskedUpTo(m) <= AskedUpTo(k)
    OBVIOUS
  <2>1. AskedUpTo(m) \in Nat
    BY AskedOneMore
  <2>2. CASE k = m
    BY <2>1, <2>2
  <2>3. CASE k # m
    <3>1. k - 1 \in Nat /\ k - 1 \in 0 .. k - 1 /\ m <= k - 1 /\ (k - 1) + 1 = k
      BY <2>3
    <3>2. AskedUpTo(m) <= AskedUpTo(k - 1)
      BY <1>1, <3>1
    <3>3. /\ AskedUpTo(k - 1) \in Nat
          /\ AskedUpTo((k - 1) + 1) = AskedUpTo(k - 1) + (IF Asked((k - 1) + 1) THEN 1 ELSE 0)
      BY <3>1, AskedOneMore
    <3> QED
      BY <2>1, <3>1, <3>2, <3>3
  <2> QED
    BY <2>2, <2>3
<1>2. n \in S
  <2> HIDE DEF S
  <2> QED
    BY <1>1, SetInduction
<1> QED
  BY <1>2

\* The limit is a number.
LEMMA LimitTyped == argv = <<>> \/ argv \in ArgLists => ValueOf("--limit", 0) \in Nat
<1> SUFFICES ASSUME argv = <<>> \/ argv \in ArgLists
             PROVE  ValueOf("--limit", 0) \in Nat
  OBVIOUS
<1>1. Len(argv) \in Nat
  BY ToolsAssumption
<1> QED
  BY <1>1, OptionsAsked

\* A reader that starts has shown nothing.
LEMMA FreshReader ==
  ASSUME NEW n \in Names, SinkInv, CellsLogged, Exists(n),
         NEW list \in ArgLists, Fresh("log_reader", list, files[n])
  PROVE  ReadSoFar' /\ (LET limit == ValueOf("--limit", 0) IN limit = 0 \/ count < limit)'
<1>1. /\ tool' = "log_reader" /\ argv' = list /\ input' = files[n] /\ total' = 0
      /\ count' = 0 /\ shown' = <<>>
  BY DEF Fresh
<1>2. files[n] \in Seq(0 .. Len(Logged))
  <2>1. Len(lens) \in Nat /\ MaxWrites \in Nat /\ Len(Logged) \in Nat
    BY FilesTyped, SinkAssumption, ToolsAssumption
  <2>2. Len(lens) <= Len(Logged) /\ files[n] \in Seq(0 .. Len(lens))
    BY <2>1, ToolsAssumption DEF CellsLogged
  <2> QED
    BY <2>1, <2>2
<1>3. Len(files[n]) \in Nat
  BY <1>2
<1>4. AskedUpTo(0)' = 0
  <2>1. {j \in 1 .. 0 : Asked(j)'} = {}
    OBVIOUS
  <2> QED
    BY <2>1, FS_EmptySet DEF AskedUpTo
<1>5. AskedUpTo(total)' = 0
  BY <1>1, <1>4 DEF AskedUpTo
<1>6. <<>> \in Seq({}) /\ Len(<<>>) = 0 /\ DOMAIN <<>> = {} /\ 1 .. 0 = {}
  OBVIOUS
<1>7. ReadSoFar'
  BY <1>1, <1>2, <1>3, <1>5, <1>6 DEF ReadSoFar, Entry
<1>8. (argv = <<>> \/ argv \in ArgLists => ValueOf("--limit", 0) \in Nat)'
  BY LimitTyped, PTL
<1>9. (ValueOf("--limit", 0))' \in Nat
  BY <1>1, <1>8
<1> QED
  BY <1>1, <1>7, <1>9

\* The entry read next.
LEMMA NextEntry ==
  ASSUME ReadSoFar, MoreInput
  PROVE  /\ total + 1 \in Nat /\ Entry * (total + 1) <= Len(input)
         /\ Header \in 0 .. Len(Logged)
         /\ Headers[total + 1] = Header /\ total + 1 \in DOMAIN Headers
         /\ Passes(Fields(Header)) <=> Asked(total + 1)
<1>1. /\ input \in Seq(0 .. Len(Logged)) /\ Len(input) \in Nat /\ total \in Nat
      /\ 2 * (total + 1) <= Len(input)
  BY DEF ReadSoFar, MoreInput, Entry
<1>2. total * 2 + 1 \in 1 .. Len(input) /\ 2 * (total + 1) - 1 = total * 2 + 1
  BY <1>1
<1>3. Header \in 0 .. Len(Logged)
  BY <1>1, <1>2 DEF Header, Entry
<1>4. total + 1 \in 1 .. Len(input) \div 2
  BY <1>1
<1>5. Headers[total + 1] = Header /\ total + 1 \in DOMAIN Headers
  BY <1>2, <1>4 DEF Headers, Header, Entry
<1>6. Len(argv) \in Nat
  BY ToolsAssumption DEF ReadSoFar
<1>7. Passes(Fields(Header)) <=>
        /\ Fields(Header).level >= parse_level(ValueOf("--level", "TRACE"))
        /\ ValueOf("--thread", Uninit) = Uninit \/ Fields(Header).tid = ValueOf("--thread", Uninit)
  BY <1>6, OptionsAsked DEF ReadSoFar
<1>8. Passes(Fields(Header)) <=> Asked(total + 1)
  BY <1>5, <1>7 DEF Asked
<1> QED
  BY <1>1, <1>3, <1>5, <1>8 DEF Entry

\* What the file says stays.
LEMMA SameFile ==
  ASSUME UNCHANGED <<input, argv>>
  PROVE  /\ Headers' = Headers /\ \A f, d : ValueOf(f, d)' = ValueOf(f, d)
         /\ \A k : Asked(k)' = Asked(k) /\ AskedUpTo(k)' = AskedUpTo(k)
<1>1. Headers' = Headers /\ \A f, d : ValueOf(f, d)' = ValueOf(f, d)
  BY DEF Headers, ValueOf
<1>2. \A k : Asked(k)' = Asked(k)
  BY <1>1 DEF Asked
<1>3. ASSUME NEW k
      PROVE  AskedUpTo(k)' = AskedUpTo(k)
  BY <1>2 DEF AskedUpTo
<1> QED
  BY <1>1, <1>2, <1>3

\* An entry that is not asked for is skipped.
LEMMA SkipKeeps ==
  ASSUME ReadSoFar, ReaderSkips
  PROVE  ReadSoFar'
<1>1. /\ MoreInput /\ ~Passes(Fields(Header)) /\ total' = total + 1
      /\ UNCHANGED <<input, argv, shown, count>>
  BY DEF ReaderSkips
<1>2. /\ total + 1 \in Nat /\ Entry * (total + 1) <= Len(input) /\ ~Asked(total + 1)
  BY <1>1, NextEntry
<1>3. AskedUpTo(total + 1) = AskedUpTo(total)
  BY <1>2, AskedOneMore DEF ReadSoFar
<1>4. /\ Headers' = Headers /\ \A k : Asked(k)' = Asked(k) /\ AskedUpTo(k)' = AskedUpTo(k)
  BY <1>1, SameFile
<1>5. count' = AskedUpTo(total + 1)
  BY <1>1, <1>3 DEF ReadSoFar
<1>6. \A k \in 1 .. total + 1 : Asked(k) => shown[AskedUpTo(k)].entry = Headers[k]
  <2>1. \A k \in 1 .. total + 1 : k = total + 1 \/ k \in 1 .. total
    BY DEF ReadSoFar
  <2> QED
    BY <1>2, <2>1 DEF ReadSoFar
<1>7. \A k \in 1 .. total' : Asked(k)' => shown'[AskedUpTo(k)'].entry = Headers'[k]
  BY <1>1, <1>4, <1>6
<1>8. count' = AskedUpTo(total)'
  BY <1>1, <1>4, <1>5
<1> QED
  BY <1>1, <1>2, <1>7, <1>8 DEF ReadSoFar, Tells

\* A line is printed for an entry that is asked for.
LEMMA PrintKeeps ==
  ASSUME ReadSoFar, ReaderPrints
  PROVE  ReadSoFar' /\ count' = count + 1
<1>1. /\ MoreInput /\ Passes(Fields(Header)) /\ total' = total + 1
      /\ shown' = Append(shown, Line(Header)) /\ count' = count + 1
      /\ UNCHANGED <<input, argv>>
  BY DEF ReaderPrints
<1> DEFINE n == Len(shown)
           line == Line(Header)
<1>2. /\ total \in Nat /\ total + 1 \in Nat /\ Entry * (total + 1) <= Len(input)
      /\ Header \in 0 .. Len(Logged) /\ Headers[total + 1] = Header /\ Asked(total + 1)
  BY <1>1, NextEntry DEF ReadSoFar
<1>3. AskedUpTo(total + 1) = AskedUpTo(total) + 1 /\ AskedUpTo(total) \in Nat
  BY <1>2, AskedOneMore
<1>4. /\ Headers' = Headers /\ \A k : Asked(k)' = Asked(k) /\ AskedUpTo(k)' = AskedUpTo(k)
  BY <1>1, SameFile
<1>5. PICK S : shown \in Seq(S)
  BY DEF ReadSoFar
<1>6. Tells(line) /\ line.entry = Header
  BY <1>2, LineTells
<1> HIDE DEF line
<1>7. shown \in Seq(S \cup {line}) /\ shown' = Append(shown, line)
  BY <1>1, <1>5 DEF line
<1>8. /\ shown' \in Seq(S \cup {line}) /\ n \in Nat /\ Len(shown') = n + 1
      /\ shown'[n + 1] = line /\ \A k \in 1 .. n : shown'[k] = shown[k]
      /\ DOMAIN shown = 1 .. n /\ DOMAIN shown' = 1 .. n + 1
  BY <1>7
<1>9. n = AskedUpTo(total) /\ count = n
  BY DEF ReadSoFar
<1> HIDE DEF n
<1>10. count' = Len(shown') /\ count' = AskedUpTo(total)'
  BY <1>1, <1>3, <1>4, <1>8, <1>9
<1>11. ASSUME NEW k \in 1 .. total + 1, Asked(k)
       PROVE  shown'[AskedUpTo(k)].entry = Headers[k]
  <2>1. CASE k = total + 1
    BY <1>2, <1>3, <1>6, <1>8, <1>9, <2>1
  <2>2. CASE k # total + 1
    <3>1. k \in 1 .. total /\ k \in Nat /\ k - 1 \in Nat /\ (k - 1) + 1 = k /\ k <= total
      BY <1>2, <2>2
    <3>2. AskedUpTo(k) \in 1 .. n
      <4>1. AskedUpTo(k - 1) \in Nat /\ AskedUpTo((k - 1) + 1) = AskedUpTo(k - 1) + 1
        BY <1>11, <3>1, AskedOneMore
      <4>2. AskedUpTo(k) <= AskedUpTo(total)
        BY <1>2, <3>1, AskedGrows
      <4> QED
        BY <1>8, <1>9, <3>1, <4>1, <4>2
    <3>3. shown[AskedUpTo(k)].entry = Headers[k]
      BY <1>11, <3>1 DEF ReadSoFar
    <3> QED
      BY <1>8, <3>2, <3>3
  <2> QED
    BY <2>1, <2>2
<1>12. \A k \in 1 .. total' : Asked(k)' => shown'[AskedUpTo(k)'].entry = Headers'[k]
  BY <1>1, <1>4, <1>11
<1>13. \A k \in 1 .. n + 1 : Tells(shown'[k])
  <2>1. \A k \in 1 .. n + 1 : k \in 1 .. n \/ k = n + 1
    BY <1>8
  <2>2. \A k \in 1 .. n : Tells(shown[k])
    BY <1>8 DEF ReadSoFar
  <2>3. ASSUME NEW k \in 1 .. n + 1
        PROVE  Tells(shown'[k])
    <3>1. CASE k \in 1 .. n
      <4>1. shown'[k] = shown[k] /\ Tells(shown[k])
        BY <1>8, <2>2, <3>1
      <4> QED
        BY <4>1
    <3>2. CASE k = n + 1
      <4>1. shown'[k] = line
        BY <1>8, <3>2
      <4> QED
        BY <1>6, <4>1
    <3> QED
      BY <2>1, <3>1, <3>2
  <2> QED
    BY <2>3
<1>14. \A k \in DOMAIN shown' : Tells(shown'[k])
  BY <1>8, <1>13
<1>15. (\A k \in DOMAIN shown : Tells(shown[k]))'
  BY <1>14 DEF Tells
<1>16. /\ input' \in Seq(0 .. Len(Logged)) /\ total' \in Nat /\ Entry * total' <= Len(input')
       /\ argv' = <<>> \/ argv' \in ArgLists
  BY <1>1, <1>2 DEF ReadSoFar
<1> QED
  BY <1>1, <1>8, <1>10, <1>12, <1>15, <1>16 DEF ReadSoFar

\* ReaderInv is inductive.
LEMMA ReaderStep ==
  ASSUME ReaderInv, [ToolsNext]_<<vars, toolVars>>
  PROVE  ReaderInv'
<1> DEFINE limit == ValueOf("--limit", 0)
           Within == limit = 0 \/ count < limit
           Ended == \/ ~MoreInput /\ Within
                    \/ limit > 0 /\ count = limit
<1>1. [Next]_vars
  BY DEF ToolsNext, ToolStep, OpenInput, ReaderSkips, ReaderPrints, StatsCounts,
    EndOfInput, ToolExits
<1>2. SinkInv' /\ CellsLogged'
  BY <1>1, SinkStep, CellsStep DEF ReaderInv
<1>3. SUFFICES /\ tool' \in {"log_reader", "reader_done"} => ReadSoFar'
               /\ tool' = "log_reader" => Within'
               /\ tool' = "reader_done" => Ended'
  BY <1>2 DEF ReaderInv
<1>4. ASSUME NEW n \in Names, OpenInput(n)
      PROVE  /\ tool' \in {"log_reader", "reader_done"} => ReadSoFar'
             /\ tool' = "log_reader" => Within'
             /\ tool' = "reader_done" => Ended'
  <2>1. ASSUME NEW list \in ArgLists, Fresh("log_reader", list, files[n])
        PROVE  ReadSoFar' /\ Within' /\ tool' = "log_reader"
    BY <1>4, <2>1, FreshReader DEF OpenInput, ReaderInv, Fresh
  <2>2. CASE Fresh("log_stats", <<>>, files[n])
    BY <2>2 DEF Fresh
  <2> QED
    BY <1>4, <2>1, <2>2 DEF OpenInput
<1>5. ASSUME UNCHANGED <<input, argv>>
      PROVE  limit' = limit
  BY <1>5, SameFile
<1>6. CASE ReaderSkips
  <2>1. /\ tool = "log_reader" /\ tool' = "log_reader"
        /\ UNCHANGED <<input, argv, count>>
    BY <1>6 DEF ReaderSkips
  <2>2. ReadSoFar'
    BY <1>6, <2>1, SkipKeeps DEF ReaderInv
  <2> QED
    BY <1>5, <2>1, <2>2 DEF ReaderInv
<1>7. CASE ReaderPrints
  <2>1. /\ tool = "log_reader" /\ UNCHANGED <<input, argv>>
        /\ tool' = IF Opts.limit > 0 /\ count' >= Opts.limit THEN "reader_done" ELSE tool
    BY <1>7 DEF ReaderPrints
  <2>2. ReadSoFar /\ Within
    BY <2>1 DEF ReaderInv
  <2>3. ReadSoFar' /\ count' = count + 1
    BY <1>7, <2>2, PrintKeeps
  <2>4. Opts.limit = limit /\ limit \in Nat /\ count \in Nat
    <3>1. Len(argv) \in Nat
      BY <2>2, ToolsAssumption DEF ReadSoFar
    <3>2. count \in Nat
      BY <2>2, AskedOneMore DEF ReadSoFar
    <3> QED
      BY <2>2, <3>1, <3>2, OptionsAsked DEF ReadSoFar
  <2>5. limit' = limit
    BY <1>5, <2>1
  <2> HIDE DEF limit
  <2>6. CASE limit > 0 /\ count' >= limit
    <3>1. count' = limit' /\ limit' > 0 /\ tool' = "reader_done"
      BY <2>1, <2>2, <2>3, <2>4, <2>5, <2>6
    <3> QED
      BY <2>3, <3>1 DEF limit
  <2>7. CASE ~(limit > 0 /\ count' >= limit)
    <3>1. limit' = 0 \/ count' < limit'
      BY <2>3, <2>4, <2>5, <2>7
    <3>2. tool' = "log_reader"
      BY <2>1, <2>4, <2>7
    <3> QED
      BY <2>3, <3>1, <3>2 DEF limit
  <2> QED
    BY <2>6, <2>7
<1>8. ASSUME UNCHANGED <<input, argv, total, count, shown>>
      PROVE  (ReadSoFar => ReadSoFar') /\ (MoreInput' = MoreInput) /\ (Within => Within')
             /\ (Ended => Ended')
  <2>1. /\ Headers' = Headers /\ limit' = limit
        /\ \A k : Asked(k)' = Asked(k) /\ AskedUpTo(k)' = AskedUpTo(k)
    BY <1>8, SameFile
  <2>2. ReadSoFar => ReadSoFar'
    BY <1>8, <2>1 DEF ReadSoFar, Tells
  <2>3. MoreInput' = MoreInput
    BY <1>8 DEF MoreInput
  <2> HIDE DEF limit
  <2>4. Within => Within'
    BY <1>8, <2>1
  <2>5. Ended => Ended'
    BY <1>8, <2>1, <2>3
  <2> QED
    BY <2>2, <2>3, <2>4, <2>5 DEF limit
<1>9. CASE EndOfInput
  <2>1. /\ ~MoreInput
        /\ UNCHANGED <<input, argv, total, count, shown>>
        /\ \/ tool = "log_reader" /\ tool' = "reader_done"
           \/ tool' = "stats_done"
    BY <1>9 DEF EndOfInput
  <2> QED
    BY <1>8, <2>1 DEF ReaderInv
<1>10. CASE StatsCounts \/ ToolExits
  <2>1. tool' \in {"log_stats", "idle"}
    BY <1>10 DEF StatsCounts, ToolExits, Fresh
  <2> QED
    BY <2>1
<1>11. CASE UNCHANGED toolVars
  <2>1. UNCHANGED <<tool, input, argv, total, count, shown>>
    BY <1>11 DEF toolVars
  <2> QED
    BY <1>8, <2>1 DEF ReaderInv
<1> QED
  BY <1>4, <1>6, <1>7, <1>9, <1>10, <1>11 DEF ToolsNext, ToolStep

\* When the reader is done, it has shown what ReaderExact says.
LEMMA AllShown ==
  ASSUME ReaderInv
  PROVE  ReaderExact
<1> DEFINE limit == ValueOf("--limit", 0)
           all == AskedUpTo(Len(Headers))
<1> SUFFICES ASSUME tool = "reader_done"
             PROVE  /\ Len(shown) = IF limit = 0 \/ limit > all THEN all ELSE limit
                    /\ \A k \in DOMAIN Headers : Asked(k) /\ AskedUpTo(k) <= Len(shown) =>
                         shown[AskedUpTo(k)].entry = Headers[k]
                    /\ \A k \in DOMAIN shown : Tells(shown[k])
  BY DEF ReaderExact, Tells
<1>1. ReadSoFar
  BY DEF ReaderInv
<1>2. \/ ~MoreInput /\ (limit = 0 \/ count < limit)
      \/ limit > 0 /\ count = limit
  BY DEF ReaderInv
<1>3. /\ input \in Seq(0 .. Len(Logged)) /\ Len(input) \in Nat /\ total \in Nat
      /\ 2 * total <= Len(input) /\ count = Len(shown) /\ count = AskedUpTo(total)
  BY <1>1 DEF ReadSoFar, Entry
<1> DEFINE n == Len(input) \div 2
<1>4. n \in Nat /\ total <= n /\ 2 * n <= Len(input) /\ Len(input) < 2 * n + 2
  BY <1>3
<1> HIDE DEF n
<1>5. DOMAIN Headers = 1 .. n /\ Len(Headers) = n
  <2>1. Headers = [k \in 1 .. n |-> input[2 * k - 1]]
    BY DEF Headers, Entry, n
  <2>2. \A k \in 1 .. n : 2 * k - 1 \in 1 .. Len(input)
    BY <1>3, <1>4
  <2>3. Headers \in [1 .. n -> 0 .. Len(Logged)]
    BY <1>3, <2>1, <2>2
  <2> QED
    BY <1>4, <2>3
<1>6. limit \in Nat
  BY <1>1, LimitTyped DEF ReadSoFar
<1>7. all = AskedUpTo(n)
  BY <1>5
<1> HIDE DEF limit, all
<1>8. count \in Nat /\ all \in Nat /\ count <= all
  BY <1>3, <1>4, <1>7, AskedGrows, AskedOneMore
<1>9. count = IF limit = 0 \/ limit > all THEN all ELSE limit
  <2>1. CASE ~MoreInput /\ (limit = 0 \/ count < limit)
    <3>1. total = n
      BY <1>3, <1>4, <2>1 DEF MoreInput, Entry
    <3>2. count = all
      BY <1>3, <1>7, <3>1
    <3> QED
      BY <1>6, <1>8, <2>1, <3>2
  <2>2. CASE limit > 0 /\ count = limit
    BY <1>6, <1>8, <2>2
  <2> QED
    BY <1>2, <2>1, <2>2
<1>10. ASSUME NEW k \in 1 .. n, Asked(k), AskedUpTo(k) <= count
       PROVE  shown[AskedUpTo(k)].entry = Headers[k]
  <2>1. k <= total
    <3> SUFFICES ASSUME k > total PROVE FALSE
      BY <1>3, <1>4
    <3>1. k - 1 \in Nat /\ (k - 1) + 1 = k /\ total <= k - 1
      BY <1>3, <1>4
    <3>2. AskedUpTo(k - 1) \in Nat /\ AskedUpTo((k - 1) + 1) = AskedUpTo(k - 1) + 1
      BY <1>10, <3>1, AskedOneMore
    <3>3. AskedUpTo(total) <= AskedUpTo(k - 1)
      BY <1>3, <3>1, AskedGrows
    <3> QED
      BY <1>3, <1>8, <1>10, <3>1, <3>2, <3>3
  <2>2. k \in 1 .. total
    BY <1>3, <1>4, <2>1
  <2> QED
    BY <1>1, <1>10, <2>2 DEF ReadSoFar
<1>11. \A k \in DOMAIN shown : Tells(shown[k])
  BY <1>1 DEF ReadSoFar
<1> QED
  BY <1>3, <1>5, <1>9, <1>10, <1>11 DEF limit, all

\* For any file a sink may leave, any arguments and any log calls, log_reader
\* prints one line for each entry asked for, in order and up to the limit, and
\* each line's digits, level and text are those of its entry (log_reader.cpp:81,
\* formatter.hpp:48, timestamp.hpp:101).
THEOREM ReaderAlwaysExact == ToolsSpec => []ReaderExact
<1>1. ToolsInit => ReaderInv
  <2> SUFFICES ASSUME ToolsInit PROVE ReaderInv
    OBVIOUS
  <2>1. SinkInv /\ tool = "idle"
    BY SinkStart DEF ToolsInit
  <2>2. lens = <<>> /\ Len(<<>>) = 0 /\ 0 <= MaxWrites /\ \A n \in Names : ~Exists(n)
    BY SinkAssumption DEF ToolsInit, Init, Exists
  <2> QED
    BY <2>1, <2>2 DEF ReaderInv, CellsLogged
<1>2. ReaderInv /\ [ToolsNext]_<<vars, toolVars>> => ReaderInv'
  BY ReaderStep
<1>3. ReaderInv => ReaderExact
  BY AllShown
<1> QED
  BY <1>1, <1>2, <1>3, PTL DEF ToolsSpec

-----------------------------------------------------------------------------
(***************************************************************************)
(* Where the entries of a binary file begin.  That no record is found      *)
(* twice needs more than OrderKept: a record is written over zeros only.   *)
(***************************************************************************)
\* Entries start at even offsets, and none is there twice: the second cell of
\* an entry is its own or, when the process died in the memcpy, zero.
Aligned(f) ==
  /\ \A k \in DOMAIN f : k % 2 = 0 => f[k] = 0 \/ f[k] = f[k - 1]
  /\ \A j, k \in DOMAIN f :
       j % 2 = 1 /\ k % 2 = 1 /\ j < k /\ f[j] # 0 /\ f[k] # 0 => f[j] < f[k]

EntriesInv == \A n \in Names : Exists(n) => Aligned(files[n])

\* The files of a logger in binary mode: entries, and regions of whole ones.
BinaryFiles == Lens = {Entry} /\ Multiple(REGION, Entry)

\* ftruncate keeps entries where they are.
LEMMA ResizeAligned ==
  ASSUME NEW f \in Seq(Nat), Aligned(f), NEW n \in Nat
  PROVE  Aligned(Resize(f, n))
<1> DEFINE g == Resize(f, n)
<1>1. /\ DOMAIN g = 1 .. n /\ DOMAIN f = 1 .. Len(f) /\ Len(f) \in Nat
      /\ \A k \in 1 .. n : g[k] = IF k <= Len(f) THEN f[k] ELSE 0
  BY DEF Resize
<1> HIDE DEF g
<1>2. \A k \in 1 .. n : g[k] # 0 => k \in DOMAIN f /\ g[k] = f[k]
  BY <1>1
<1>3. ASSUME NEW k \in DOMAIN g, k % 2 = 0
      PROVE  g[k] = 0 \/ g[k] = g[k - 1]
  <2>1. k \in 1 .. n /\ k - 1 \in 1 .. n /\ k - 1 \in Nat
    BY <1>1, <1>3
  <2>2. CASE k <= Len(f)
    <3>1. k \in DOMAIN f /\ g[k] = f[k] /\ g[k - 1] = f[k - 1]
      BY <1>1, <2>1, <2>2
    <3> QED
      BY <1>3, <3>1 DEF Aligned
  <2>3. CASE ~(k <= Len(f))
    BY <1>1, <2>1, <2>3
  <2> QED
    BY <2>2, <2>3
<1>4. ASSUME NEW j \in DOMAIN g, NEW k \in DOMAIN g,
             j % 2 = 1, k % 2 = 1, j < k, g[j] # 0, g[k] # 0
      PROVE  g[j] < g[k]
  BY <1>1, <1>2, <1>4 DEF Aligned
<1> QED
  BY <1>3, <1>4 DEF Aligned, g

\* Numbers are even or odd.
LEMMA Parity ==
  ASSUME NEW b \in Nat
  PROVE  \E i \in Nat : (b = 2 * i /\ b % 2 = 0) \/ (b = 2 * i + 1 /\ b % 2 = 1)
<1>1. b \div 2 \in Nat /\ b = 2 * (b \div 2) + (b % 2) /\ b % 2 \in {0, 1}
  OBVIOUS
<1> QED
  BY <1>1

\* The next even and the next odd number.
LEMMA NextParity ==
  ASSUME NEW o \in Nat, o % 2 = 0, NEW b \in Nat, b > o
  PROVE  /\ b % 2 = 0 => b >= o + 2
         /\ b % 2 = 1 /\ b <= o + 2 => b = o + 1
<1>1. PICK h \in Nat : o = 2 * h
  BY Parity
<1>2. PICK i \in Nat : (b = 2 * i /\ b % 2 = 0) \/ (b = 2 * i + 1 /\ b % 2 = 1)
  BY Parity
<1> QED
  BY <1>1, <1>2

\* A number is up to another or beyond it.
LEMMA Compared ==
  ASSUME NEW a \in Nat, NEW b \in Nat
  PROVE  a <= b \/ a > b
OBVIOUS

\* So does the memcpy of an entry, or of the first cells of it, at an even
\* offset behind all others (mmap_sink.cpp:76).
LEMMA PasteAligned ==
  ASSUME NEW f \in Seq(Nat), Aligned(f), NEW o \in Nat, o % 2 = 0, NEW r \in Nat,
         NEW d \in 0 .. 2, \A k \in DOMAIN f : f[k] < r,
         \A k \in DOMAIN f : k > o => f[k] = 0
  PROVE  Aligned(Paste(f, o, r, d))
<1> DEFINE g == Paste(f, o, r, d)
<1>1. /\ DOMAIN g = DOMAIN f /\ DOMAIN f = 1 .. Len(f) /\ Len(f) \in Nat
      /\ \A k \in DOMAIN f : g[k] = IF k \in o + 1 .. o + d THEN r ELSE f[k]
      /\ \A k \in DOMAIN f : f[k] \in Nat
  BY DEF Paste
<1> HIDE DEF g
<1>2. ASSUME NEW k \in DOMAIN f, k > o
      PROVE  g[k] = IF k <= o + d THEN r ELSE 0
  <2>1. k \in Nat /\ f[k] = 0 /\ d \in Nat
    BY <1>1, <1>2
  <2>2. k \in o + 1 .. o + d <=> k <= o + d
    BY <1>2, <2>1
  <2> QED
    BY <1>1, <2>1, <2>2
<1>0. /\ \A b \in Nat : b % 2 = 0 /\ b > o => b >= o + 2
      /\ \A b \in Nat : b % 2 = 1 /\ b > o /\ b <= o + 2 => b = o + 1
  BY NextParity
<1>3. ASSUME NEW k \in DOMAIN g, k % 2 = 0
      PROVE  g[k] = 0 \/ g[k] = g[k - 1]
  <2>1. k \in DOMAIN f /\ k - 1 \in DOMAIN f /\ k \in Nat
    <3>1. k \in 1 .. Len(f) /\ k # 1
      BY <1>1, <1>3
    <3> QED
      BY <1>1, <3>1
  <2>2. CASE k <= o
    <3>1. g[k] = f[k] /\ g[k - 1] = f[k - 1]
      BY <1>1, <2>1, <2>2
    <3> QED
      BY <1>3, <2>1, <3>1 DEF Aligned
  <2>3. CASE k > o
    <3>1. k >= o + 2
      BY <1>0, <1>3, <2>1, <2>3
    <3>2. k - 1 > o /\ (k <= o + d => k - 1 <= o + d)
      BY <2>1, <3>1
    <3>3. g[k] = (IF k <= o + d THEN r ELSE 0) /\ g[k - 1] = (IF k - 1 <= o + d THEN r ELSE 0)
      BY <1>2, <2>1, <2>3, <3>2
    <3> QED
      BY <3>2, <3>3
  <2>4. k <= o \/ k > o
    BY <2>1, Compared
  <2> QED
    BY <2>2, <2>3, <2>4
<1>4. ASSUME NEW j \in DOMAIN g, NEW k \in DOMAIN g,
             j % 2 = 1, k % 2 = 1, j < k, g[j] # 0, g[k] # 0
      PROVE  g[j] < g[k]
  <2>1. j \in DOMAIN f /\ k \in DOMAIN f /\ j \in Nat /\ k \in Nat
    BY <1>1
  <2>2. CASE k <= o
    <3>1. g[j] = f[j] /\ g[k] = f[k]
      BY <1>1, <1>4, <2>1, <2>2
    <3> QED
      BY <1>4, <2>1, <3>1 DEF Aligned
  <2>3. CASE k > o
    <3>1. k <= o + d /\ g[k] = r
      BY <1>2, <1>4, <2>1, <2>3
    <3>2. k = o + 1
      <4>1. k <= o + 2
        BY <2>1, <3>1
      <4> QED
        BY <1>0, <1>4, <2>1, <2>3, <4>1
    <3>3. g[j] = f[j]
      BY <1>1, <1>4, <2>1, <3>2
    <3> QED
      BY <2>1, <3>1, <3>3
  <2> QED
    BY <2>1, <2>2, <2>3
<1> QED
  BY <1>3, <1>4 DEF Aligned, g

\* EntriesInv is inductive for such files.
LEMMA EntriesStep ==
  ASSUME BinaryFiles, FilesInv, TileInv, EntriesInv, [Next]_vars
  PROVE  EntriesInv'
<1> USE SinkAssumption
<1>1. /\ files \in Contents /\ 0 \in Names /\ file_offset \in Nat /\ cur \in Nat
      /\ \A n \in Names : files[n] # NoFile => files[n] \in Seq(Nat) /\ Aligned(files[n])
      /\ NoFile \notin Seq(Nat) /\ SinkInv
  <2>1. files \in Contents
    BY FilesTyped DEF FilesInv
  <2> QED
    BY <2>1, FilesTyped, FileCells DEF EntriesInv, Exists, FilesInv
<1>2. ASSUME \A n \in Names : files'[n] # NoFile =>
               \/ \E a \in Names : files[a] # NoFile /\ files'[n] = files[a]
               \/ Aligned(files'[n])
      PROVE  EntriesInv'
  <2> SUFFICES ASSUME NEW n \in Names, files'[n] # NoFile
               PROVE  Aligned(files'[n])
    BY DEF EntriesInv, Exists, Aligned
  <2> QED
    BY <1>1, <1>2
<1>3. CASE files' = files
  BY <1>2, <1>3
<1>4. CASE OpenFile
  <2>1. files' = IF Exists(0) THEN files ELSE [files EXCEPT ![0] = <<>>]
    BY <1>4 DEF OpenFile
  <2>2. Aligned(<<>>)
    BY DEF Aligned
  <2> QED
    BY <1>1, <1>2, <2>1, <2>2 DEF Contents
<1>5. CASE ExtendFile
  <2>1. pc = "extend"
    BY <1>5 DEF ExtendFile
  <2>2. \/ files' = files
        \/ files' = [files EXCEPT ![0] = Resize(@, file_offset + REGION)]
    BY <1>5 DEF ExtendFile
  <2>3. CASE files' = [files EXCEPT ![0] = Resize(@, file_offset + REGION)]
    <3>1. files[0] # NoFile
      BY <1>1, <2>1 DEF SinkInv, MappingInFile, Exists
    <3>2. file_offset + REGION \in Nat
      BY <1>1
    <3>3. Aligned(Resize(files[0], file_offset + REGION))
      BY <1>1, <3>1, <3>2, ResizeAligned
    <3> QED
      BY <1>1, <1>2, <2>3, <3>3 DEF Contents
  <2> QED
    BY <1>3, <2>2, <2>3
<1>6. CASE UnlinkOldest \/ ShiftFile \/ RenameBase
  <2>1. \A n \in Names : files'[n] # NoFile =>
          \E m \in Names : files[m] # NoFile /\ files'[n] = files[m]
    BY <1>1, <1>6, NamesMoved
  <2> QED
    BY <1>2, <2>1
<1>7. ASSUME NEW d \in 0 .. cur, pc = "copy",
             files' = [files EXCEPT ![0] = Paste(@, map_base + mmap_offset, Record, d)]
      PROVE  EntriesInv'
  <2>1. /\ mapped /\ Exists(0) /\ cur > 0 /\ cur \in Lens
        /\ file_offset = map_base + mmap_offset
        /\ \A k \in DOMAIN Base : k > file_offset => Base[k] = 0
        /\ \A k \in DOMAIN Base : Base[k] < Len(lens)
    <3>1. mapped /\ Exists(0) /\ cur > 0 /\ file_offset = map_base + mmap_offset
      BY <1>1, <1>7 DEF SinkInv, CopyIsSafe, MappingInFile
    <3>2. cur \in Lens
      BY <1>1, <3>1 DEF SinkInv, SinkTypeOK
    <3> QED
      BY <1>1, <1>7, <3>1, <3>2 DEF FilesInv, TailEmpty, CellsKnown, Base, Exists
  <2>2. d \in 0 .. 2
    BY <1>7, <2>1 DEF BinaryFiles, Entry
  <2>3. file_offset % 2 = 0
    <3>1. Multiple(map_base, REGION) /\ Multiple(mmap_offset, 2)
      BY <2>1 DEF TileInv, BinaryFiles, Entry
    <3>2. Multiple(map_base, 2)
      BY <3>1, MultipleTransitive DEF BinaryFiles, Entry
    <3>3. PICK a \in Nat : map_base = a * 2
      BY <3>2 DEF Multiple
    <3>4. PICK b \in Nat : mmap_offset = b * 2
      BY <3>1 DEF Multiple
    <3>5. file_offset = (a + b) * 2
      BY <2>1, <3>3, <3>4
    <3>6. \A k \in Nat : (k * 2) % 2 = 0
      OBVIOUS
    <3> QED
      BY <3>5, <3>6
  <2>4. Record \in Nat /\ Record = Len(lens)
    BY FilesTyped DEF Record, FilesInv
  <2>5. files[0] \in Seq(Nat) /\ Aligned(files[0])
    BY <1>1, <2>1 DEF Exists
  <2>6. Aligned(Paste(files[0], file_offset, Record, d))
    <3>1. /\ \A k \in DOMAIN files[0] : k > file_offset => files[0][k] = 0
          /\ \A k \in DOMAIN files[0] : files[0][k] < Record
      BY <2>1, <2>4 DEF Base
    <3> QED
      BY <1>1, <2>2, <2>3, <2>4, <2>5, <3>1, PasteAligned
  <2> QED
    BY <1>1, <1>2, <1>7, <2>1, <2>6 DEF Contents
<1>8. CASE Copy
  <2>1. cur \in 0 .. cur
    BY <1>1
  <2> QED
    BY <1>7, <1>8, <2>1 DEF Copy, Goto
<1>9. CASE Crash
  <2>1. CASE pc = "copy"
    <3>1. PICK d \in 0 .. cur - 1 :
            files' = [files EXCEPT ![0] = Paste(@, map_base + mmap_offset, Record, d)]
      BY <1>9, <2>1 DEF Crash
    <3>2. d \in 0 .. cur
      BY <1>1
    <3> QED
      BY <1>7, <2>1, <3>1, <3>2
  <2> QED
    BY <1>3, <1>9, <2>1 DEF Crash
<1>10. CASE \/ Construct \/ (\E len \in Lens : Write(len)) \/ OpenFails \/ MapRegion
            \/ Flush \/ Destruct \/ UNCHANGED vars
  BY <1>3, <1>10 DEF Construct, Write, OpenFails, MapRegion, Flush, Destruct, vars
<1> QED
  BY <1>4, <1>5, <1>6, <1>8, <1>9, <1>10 DEF Next, CallStep

\* What a reader has opened is such a file, of whole regions.
FindInv ==
  /\ ReaderInv /\ FilesInv /\ TileInv /\ EntriesInv
  /\ tool \in {"log_reader", "reader_done"} => Aligned(input) /\ Multiple(Len(input), REGION)

\* FindInv is inductive.
LEMMA FindStep ==
  ASSUME OpensAtEnd, BinaryFiles, FindInv, [ToolsNext]_<<vars, toolVars>>
  PROVE  FindInv'
<1>1. [Next]_vars
  BY DEF ToolsNext, ToolStep, OpenInput, ReaderSkips, ReaderPrints, StatsCounts,
    EndOfInput, ToolExits
<1>2. RecordsTile
  BY DEF BinaryFiles, RecordsTile, Entry
<1>3. ReaderInv' /\ FilesInv' /\ TileInv' /\ EntriesInv'
  <2>1. ReaderInv'
    BY ReaderStep DEF FindInv
  <2>2. FilesInv'
    BY <1>1, FilesStep DEF FindInv
  <2>3. TileInv'
    BY <1>1, <1>2, TileStep DEF FindInv
  <2>4. EntriesInv'
    BY <1>1, EntriesStep DEF FindInv
  <2> QED
    BY <2>1, <2>2, <2>3, <2>4
<1>4. SUFFICES ASSUME tool' \in {"log_reader", "reader_done"}
               PROVE  Aligned(input') /\ Multiple(Len(input'), REGION)
  BY <1>3 DEF FindInv, Aligned
<1>5. ASSUME NEW n \in Names, OpenInput(n)
      PROVE  Aligned(input') /\ Multiple(Len(input'), REGION)
  <2>1. input' = files[n] /\ Exists(n)
    BY <1>5 DEF OpenInput, Fresh
  <2> QED
    BY <2>1 DEF FindInv, EntriesInv, TileInv
<1>6. CASE ReaderSkips \/ ReaderPrints \/ StatsCounts \/ EndOfInput \/ UNCHANGED toolVars
  <2>1. input' = input /\ tool \in {"log_reader", "reader_done"}
    BY <1>4, <1>6 DEF ReaderSkips, ReaderPrints, StatsCounts, EndOfInput, toolVars
  <2> QED
    BY <2>1 DEF FindInv
<1>7. CASE ToolExits
  BY <1>4, <1>7 DEF ToolExits, Fresh
<1> QED
  BY <1>5, <1>6, <1>7 DEF ToolsNext, ToolStep

\* Without options every entry is asked for.
LEMMA AllAsked ==
  ASSUME ReadSoFar, argv = <<>>, NEW n \in Nat, 2 * n <= Len(input)
  PROVE  /\ ValueOf("--limit", 0) = 0
         /\ \A k \in 1 .. n : Asked(k) /\ AskedUpTo(k) = k /\ Headers[k] = input[2 * k - 1]
<1>1. Len(argv) = 0
  OBVIOUS
<1>2. \A flag, default : ValueOf(flag, default) = default
  <2>1. 1 .. 0 - 1 = {}
    OBVIOUS
  <2> QED
    BY <1>1, <2>1 DEF ValueOf
<1>3. input \in Seq(0 .. Len(Logged)) /\ Len(input) \in Nat
  BY DEF ReadSoFar
<1>4. ASSUME NEW k \in 1 .. n
      PROVE  Asked(k) /\ Headers[k] = input[2 * k - 1]
  <2>1. k \in 1 .. Len(input) \div 2 /\ 2 * k - 1 \in 1 .. Len(input)
    BY <1>3
  <2>2. Headers[k] = input[2 * k - 1] /\ Headers[k] \in 0 .. Len(Logged)
    BY <1>3, <2>1 DEF Headers, Entry
  <2>3. Fields(Headers[k]).level >= 0
    <3>1. \A r \in 0 .. Len(Logged) : Fields(r).level \in 0 .. 6
      BY FieldsTyped
    <3>2. \A i \in 0 .. 6 : i >= 0
      OBVIOUS
    <3> QED
      BY <2>2, <3>1, <3>2
  <2> QED
    BY <1>2, <2>2, <2>3, TraceIsLowest DEF Asked
<1>5. ASSUME NEW k \in 1 .. n
      PROVE  AskedUpTo(k) = k
  <2>1. {j \in 1 .. k : Asked(j)} = 1 .. k
    <3>1. \A j \in 1 .. k : j \in 1 .. n
      OBVIOUS
    <3> QED
      BY <1>4, <3>1
  <2>2. Cardinality(1 .. k) = k
    BY FS_Interval
  <2> QED
    BY <2>1, <2>2 DEF AskedUpTo
<1> QED
  BY <1>2, <1>4, <1>5

\* When the reader is done, it has shown what ReaderFindsAll says.
LEMMA AllFound ==
  ASSUME BinaryFiles, FindInv
  PROVE  ReaderFindsAll
<1> SUFFICES ASSUME tool = "reader_done", argv = <<>>
             PROVE  /\ {shown[k].entry : k \in DOMAIN shown} \ {0} =
                         {input[j] : j \in DOMAIN input} \ {0}
                    /\ \A j, k \in DOMAIN shown :
                         j < k /\ shown[j].entry # 0 /\ shown[k].entry # 0 =>
                           shown[j].entry < shown[k].entry
  BY DEF ReaderFindsAll
<1>1. ReadSoFar /\ Aligned(input) /\ Multiple(Len(input), REGION)
  BY DEF FindInv, ReaderInv
<1>2. /\ input \in Seq(0 .. Len(Logged)) /\ Len(input) \in Nat /\ DOMAIN input = 1 .. Len(input)
      /\ total \in Nat /\ 2 * total <= Len(input) /\ count = Len(shown) /\ count = AskedUpTo(total)
  BY <1>1 DEF ReadSoFar, Entry
<1>3. /\ ValueOf("--limit", 0) = 0
      /\ \A k \in 1 .. total : Asked(k) /\ AskedUpTo(k) = k /\ Headers[k] = input[2 * k - 1]
  BY <1>1, <1>2, AllAsked
<1>4. Len(input) = 2 * total
  <2>1. PICK h \in Nat : Len(input) = h * 2
    BY <1>1, MultipleTransitive DEF BinaryFiles, Entry, Multiple
  <2>2. ~MoreInput
    BY <1>3 DEF FindInv, ReaderInv
  <2> QED
    BY <1>2, <2>1, <2>2 DEF MoreInput, Entry
<1>5. Len(shown) = total
  <2>1. CASE total = 0
    BY <1>2, <2>1, AskedOneMore
  <2>2. CASE total # 0
    <3>1. total \in 1 .. total
      BY <1>2, <2>2
    <3> QED
      BY <1>2, <1>3, <3>1
  <2> QED
    BY <2>1, <2>2
<1>6. /\ DOMAIN shown = 1 .. total
      /\ \A k \in 1 .. total : shown[k].entry = input[2 * k - 1]
  <2>1. \A k \in 1 .. total : shown[AskedUpTo(k)].entry = Headers[k]
    BY <1>1, <1>3 DEF ReadSoFar
  <2>2. PICK S : shown \in Seq(S)
    BY <1>1 DEF ReadSoFar
  <2>3. DOMAIN shown = 1 .. Len(shown)
    BY <2>2
  <2> QED
    BY <1>3, <1>5, <2>1, <2>3
<1>7. \A k \in 1 .. total : 2 * k - 1 \in DOMAIN input /\ (2 * k - 1) % 2 = 1
  BY <1>2, <1>4
<1>8. ASSUME NEW x \in {shown[k].entry : k \in DOMAIN shown}
      PROVE  x \in {input[j] : j \in DOMAIN input}
  BY <1>6, <1>7
<1>9. ASSUME NEW j \in DOMAIN input, input[j] # 0
      PROVE  \E k \in DOMAIN shown : shown[k].entry = input[j]
  <2>1. j \in Nat /\ j >= 1 /\ j <= 2 * total
    BY <1>2, <1>4
  <2>2. PICK i \in Nat : (j = 2 * i /\ j % 2 = 0) \/ (j = 2 * i + 1 /\ j % 2 = 1)
    BY <2>1, Parity
  <2>3. CASE j = 2 * i /\ j % 2 = 0
    <3>1. i \in 1 .. total /\ 2 * i - 1 = j - 1
      BY <1>2, <2>1, <2>3
    <3>2. input[j] = input[j - 1]
      BY <1>1, <1>9, <2>3 DEF Aligned
    <3> QED
      BY <1>6, <3>1, <3>2
  <2>4. CASE j = 2 * i + 1 /\ j % 2 = 1
    <3>1. i + 1 \in 1 .. total /\ 2 * (i + 1) - 1 = j
      BY <1>2, <2>1, <2>4
    <3> QED
      BY <1>6, <3>1
  <2> QED
    BY <2>2, <2>3, <2>4
<1>10. {shown[k].entry : k \in DOMAIN shown} \ {0} = {input[j] : j \in DOMAIN input} \ {0}
  BY <1>8, <1>9
<1>11. ASSUME NEW j \in DOMAIN shown, NEW k \in DOMAIN shown, j < k,
              shown[j].entry # 0, shown[k].entry # 0
       PROVE  shown[j].entry < shown[k].entry
  <2>1. /\ j \in 1 .. total /\ k \in 1 .. total
        /\ shown[j].entry = input[2 * j - 1] /\ shown[k].entry = input[2 * k - 1]
    BY <1>6
  <2>2. /\ 2 * j - 1 \in DOMAIN input /\ (2 * j - 1) % 2 = 1
        /\ 2 * k - 1 \in DOMAIN input /\ (2 * k - 1) % 2 = 1
        /\ 2 * j - 1 < 2 * k - 1
    BY <1>7, <1>11, <2>1
  <2> QED
    BY <1>1, <1>11, <2>1, <2>2 DEF Aligned
<1> QED
  BY <1>10, <1>11

\* Whatever restarts, rotations and crashes a file of binary entries has seen,
\* log_reader without options finds every record it holds a byte of, each once
\* and in the order they were written, when a sink goes on at the end of the
\* file it opens (mmap_sink.cpp:50-82, log_reader.cpp:81).
THEOREM ReaderAlwaysFindsAll ==
  ASSUME OpensAtEnd, BinaryFiles
  PROVE  ToolsSpec => []ReaderFindsAll
<1>1. ToolsInit => FindInv
  <2> SUFFICES ASSUME ToolsInit PROVE FindInv
    OBVIOUS
  <2>1. Init /\ tool = "idle"
    BY DEF ToolsInit
  <2>2. FilesInv /\ TileInv
    BY <2>1, FilesInit, TileStart
  <2>3. lens = <<>> /\ Len(<<>>) = 0 /\ 0 <= MaxWrites /\ \A n \in Names : ~Exists(n)
    BY <2>1, SinkAssumption DEF Init, Exists
  <2>4. EntriesInv
    BY <2>3 DEF EntriesInv
  <2>5. ReaderInv
    BY <2>1, <2>2, <2>3 DEF ReaderInv, CellsLogged, FilesInv
  <2> QED
    BY <2>1, <2>2, <2>4, <2>5 DEF FindInv
<1>2. FindInv /\ [ToolsNext]_<<vars, toolVars>> => FindInv'
  BY FindStep
<1>3. FindInv => ReaderFindsAll
  BY AllFound
<1> QED
  BY <1>1, <1>2, <1>3, PTL DEF ToolsSpec
=============================================================================
