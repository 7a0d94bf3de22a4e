------------------------------- MODULE LogTools -------------------------------
(***************************************************************************)
(* What becomes of a log call in the end: the entry MPMC_LOG builds, the   *)
(* file MMapSink leaves, and what log_reader and log_stats make of it.     *)
(*                                                                         *)
(* The records of MMapSink are binary entries, two cells each: header and  *)
(* text.  A tool reads a file entry by entry, while no sink has it open.   *)
(* What it does not know is which entries were written: the zeros a region *)
(* ends with read as entries too, and a crash may leave a header alone.    *)
(***************************************************************************)
EXTENDS MMapSink, FiniteSetsExt

CONSTANTS
  Logged,      \* the log call behind each record: its ts, level, tid, n
  ArgLists,    \* arguments after the file name log_reader is called with
  UINT64_MAX,  \* as a timestamp, later than any
  Uninit       \* the content of memory nobody has written

NsPerSecond == 1000000000

\* The calls behind the records there can be; levels are those of LogLevel.
\* atoi makes a number of what follows --thread and --limit.
ASSUME ToolsAssumption ==
  /\ Logged \in Seq([ts : Nat \X (0 .. NsPerSecond - 1), level : 0 .. 6, tid : Nat, n : Int])
  /\ MaxWrites <= Len(Logged)
  /\ UINT64_MAX \notin Nat \X Nat
  /\ \A list \in ArgLists :
       /\ Len(list) \in Nat
       /\ \A k \in 1 .. Len(list) - 1 :
            k % 2 = 1 /\ list[k] \in {"--thread", "--limit"} => list[k + 1] \in Nat
  /\ Uninit \notin Nat

VARIABLES
  tool,        \* "idle", "log_reader", "log_stats", "reader_done", "stats_done"
  argv,        \* its arguments after the file name
  input,       \* the file it has opened
  total,       \* entries it has read
  count, shown,             \* log_reader: lines printed
  cached_sec, date_prefix,  \* its TextFormatter's date_fmt_
  level_counts, thread_counts, span, payload   \* log_stats

toolVars == <<tool, argv, input, total, count, shown, cached_sec, date_prefix,
              level_counts, thread_counts, span, payload>>

Entry == 2   \* sizeof(LogEntry), in cells

-----------------------------------------------------------------------------
(***************************************************************************)
(* MPMC_LOG: n is what snprintf returns, the length the text would have.   *)
(***************************************************************************)
PayloadLen(n) == IF n > 0 THEN (IF n < 112 THEN n ELSE 112) ELSE 0

\* The fields of a record, or of zero bytes; a timestamp is seconds and
\* nanoseconds.
Fields(r) ==
  IF r = 0 THEN [ts |-> <<0, 0>>, level |-> 0, tid |-> 0, payload_len |-> 0]
  ELSE [ts |-> Logged[r].ts, level |-> Logged[r].level, tid |-> Logged[r].tid,
        payload_len |-> PayloadLen(Logged[r].n)]

-----------------------------------------------------------------------------
(***************************************************************************)
(* TextFormatter::format.                                                  *)
(***************************************************************************)
LevelNames == <<"TRACE", "DEBUG", "INFO ", "WARN ", "ERROR", "FATAL", "OFF  ">>

level_to_string(l) == IF l <= 6 THEN LevelNames[l + 1] ELSE "?????"

Tids == {0} \cup {Logged[r].tid : r \in DOMAIN Logged}

\* the decimal digits, most significant first
fast_u32_to_str[v \in 0 .. Max(Tids)] ==
  IF v < 10 THEN <<v>> ELSE Append(fast_u32_to_str[v \div 10], v % 10)

PowersOfTen == <<1, 10, 100, 1000, 10000, 100000, 1000000, 10000000, 100000000>>

\* nine digits, zero-padded
NsDigits(ns) == [i \in 1 .. 9 |-> (ns \div PowersOfTen[10 - i]) % 10]

\* localtime_r and strftime: one prefix per second, represented by the second
DateOf(sec) == sec

RefreshDate_Once(sec) == cached_sec = 0 /\ sec # 0
\* whether CachedDateFormatter writes its prefix again
RefreshDate(sec) == sec # cached_sec

Prefix(sec) == IF RefreshDate(sec) THEN DateOf(sec) ELSE date_prefix

Line(r) ==
  LET e == Fields(r) IN
  [date |-> Prefix(e.ts[1]), ns |-> NsDigits(e.ts[2]),
   level |-> level_to_string(e.level), tid |-> fast_u32_to_str[e.tid],
   text |-> IF e.payload_len > 112 THEN 112 ELSE e.payload_len,
   entry |-> r]                                    \* history: what it shows

-----------------------------------------------------------------------------
(***************************************************************************)
(* log_reader.                                                             *)
(***************************************************************************)
Defaults == [min_level |-> 0, filter_tid |-> 0, has_tid_filter |-> FALSE, limit |-> 0]

\* An unknown level is TRACE.
parse_level(name) ==
  LET l == {k \in 1 .. 6 : name = <<"TRACE", "DEBUG", "INFO", "WARN", "ERROR", "FATAL">>[k]}
  IN  IF l = {} THEN 0 ELSE Max(l) - 1

SetOption(o, flag, value) ==
  CASE flag = "--level"  -> [o EXCEPT !.min_level = parse_level(value)]
    [] flag = "--thread" -> [o EXCEPT !.filter_tid = value, !.has_tid_filter = TRUE]
    [] flag = "--limit"  -> [o EXCEPT !.limit = value]
    [] OTHER             -> o

\* Flag and value in turn; a flag without a value is dropped.
parse_args(list) ==
  LET opts[k \in 0 .. Len(list) \div 2] ==
        IF k = 0 THEN Defaults
                 ELSE SetOption(opts[k - 1], list[2 * k - 1], list[2 * k])
  IN  opts[Len(list) \div 2]

\* What a run of a tool starts with.
Fresh(what, list, file) ==
  /\ tool' = what /\ argv' = list /\ input' = file
  /\ total' = 0 /\ count' = 0 /\ shown' = <<>>
  /\ cached_sec' = 0 /\ date_prefix' = Uninit
  /\ level_counts' = [l \in 0 .. 6 |-> 0]
  /\ thread_counts' = [t \in Tids |-> 0]
  /\ span' = [min |-> UINT64_MAX, max |-> <<0, 0>>]
  /\ payload' = [sum |-> 0, min |-> 65535, max |-> 0]

\* A tool opens a file that no sink has open.
OpenInput(n) ==
  /\ tool = "idle"
  /\ pc \in {"none", "terminated"}
  /\ Exists(n)
  /\ \/ \E list \in ArgLists : Fresh("log_reader", list, files[n])
     \/ Fresh("log_stats", <<>>, files[n])
  /\ UNCHANGED vars

\* A read of sizeof(entry) succeeds.
MoreInput == (total + 1) * Entry <= Len(input)

Header_Second == input[total * Entry + 2]
\* the record whose header the bytes read begin with, 0 for zero bytes
Header == input[total * Entry + 1]

Opts == parse_args(argv)

Passes_NoLevel(e) == Opts.has_tid_filter => e.tid = Opts.filter_tid
Passes(e) ==
  /\ e.level >= Opts.min_level
  /\ Opts.has_tid_filter => e.tid = Opts.filter_tid

ReaderSkips ==
  /\ tool = "log_reader" /\ MoreInput
  /\ ~Passes(Fields(Header))
  /\ total' = total + 1
  /\ UNCHANGED <<vars, tool, argv, input, count, shown, cached_sec, date_prefix,
                 level_counts, thread_counts, span, payload>>

ReaderPrints ==
  /\ tool = "log_reader" /\ MoreInput
  /\ Passes(Fields(Header))
  /\ total' = total + 1
  /\ shown' = Append(shown, Line(Header))
  /\ cached_sec' = Fields(Header).ts[1]
  /\ date_prefix' = Prefix(Fields(Header).ts[1])
  /\ count' = count + 1
  /\ tool' = IF Opts.limit > 0 /\ count' >= Opts.limit THEN "reader_done" ELSE tool
  /\ UNCHANGED <<vars, argv, input, level_counts, thread_counts, span, payload>>

-----------------------------------------------------------------------------
(***************************************************************************)
(* log_stats.                                                              *)
(***************************************************************************)
Before(a, b) ==
  b = UINT64_MAX \/ (a # UINT64_MAX /\ (a[1] < b[1] \/ (a[1] = b[1] /\ a[2] < b[2])))

Widen_LastIsMax(s, ts) == [min |-> IF Before(ts, s.min) THEN ts ELSE s.min, max |-> ts]
Widen(s, ts) == [min |-> IF Before(ts, s.min) THEN ts ELSE s.min,
                 max |-> IF Before(s.max, ts) THEN ts ELSE s.max]

StatsCounts ==
  LET e == Fields(Header) IN
  /\ tool = "log_stats" /\ MoreInput
  /\ total' = total + 1
  /\ level_counts' = [l \in 0 .. 6 |-> level_counts[l] + (IF l = e.level THEN 1 ELSE 0)]
  /\ thread_counts' = [thread_counts EXCEPT ![e.tid] = @ + 1]
  /\ span' = Widen(span, e.ts)
  /\ payload' = [sum |-> payload.sum + e.payload_len,
                 min |-> Min({payload.min, e.payload_len}),
                 max |-> Max({payload.max, e.payload_len})]
  /\ UNCHANGED <<vars, tool, argv, input, count, shown, cached_sec, date_prefix>>

\* The rest is shorter than an entry: it is dropped, and the report printed.
EndOfInput ==
  /\ ~MoreInput
  /\ \/ tool = "log_reader" /\ tool' = "reader_done"
     \/ tool = "log_stats" /\ tool' = "stats_done"
  /\ UNCHANGED <<vars, argv, input, total, count, shown, cached_sec, date_prefix,
                 level_counts, thread_counts, span, payload>>

ToolExits ==
  /\ tool \in {"reader_done", "stats_done"}
  /\ Fresh("idle", <<>>, <<>>)
  /\ UNCHANGED vars

-----------------------------------------------------------------------------
ToolsInit ==
  /\ Init
  /\ tool = "idle" /\ argv = <<>> /\ input = <<>>
  /\ total = 0 /\ count = 0 /\ shown = <<>>
  /\ cached_sec = 0 /\ date_prefix = Uninit
  /\ level_counts = [l \in 0 .. 6 |-> 0]
  /\ thread_counts = [t \in Tids |-> 0]
  /\ span = [min |-> UINT64_MAX, max |-> <<0, 0>>]
  /\ payload = [sum |-> 0, min |-> 65535, max |-> 0]

ToolStep ==
  \/ ReaderSkips
  \/ ReaderPrints
  \/ StatsCounts
  \/ EndOfInput
  \/ ToolExits

ToolsNext ==
  \/ tool = "idle" /\ Next /\ UNCHANGED toolVars
  \/ \E n \in Names : OpenInput(n)
  \/ ToolStep

ToolsSpec == ToolsInit /\ [][ToolsNext]_<<vars, toolVars>>

\* A call of the sink that is under way goes on; nobody is obliged to make one,
\* nor to run a tool.
FairToolsSpec ==
  ToolsSpec /\ WF_<<vars, toolVars>>(tool = "idle" /\ CallStep /\ UNCHANGED toolVars)

-----------------------------------------------------------------------------
(***************************************************************************)
(* Properties.  Headers lists what the file's entries begin with.          *)
(***************************************************************************)
Headers == [k \in 1 .. Len(input) \div Entry |-> input[Entry * k - 1]]

\* The value an option has: that of its last occurrence.
ValueOf(flag, default) ==
  LET at == {k \in 1 .. Len(argv) - 1 : k % 2 = 1 /\ argv[k] = flag}
  IN  IF at = {} THEN default ELSE argv[Max(at) + 1]

\* Whether log_reader is asked for entry k of the file, and for how many of the
\* first k.
Asked(k) ==
  LET tid == ValueOf("--thread", Uninit)
  IN  /\ Fields(Headers[k]).level >= parse_level(ValueOf("--level", "TRACE"))
      /\ tid = Uninit \/ Fields(Headers[k]).tid = tid

AskedUpTo(k) == Cardinality({j \in 1 .. k : Asked(j)})

\* The number written with the digits.
Value(digits) ==
  LET val[k \in 0 .. Len(digits)] == IF k = 0 THEN 0 ELSE 10 * val[k - 1] + digits[k]
  IN  val[Len(digits)]

\* log_reader prints a line for each entry asked for, in order, and each line
\* tells the entry's time below the second, its level, its thread and as much
\* of its text as a payload holds: options, the limit and the digits the
\* formatter makes fit together (log_reader.cpp:50-100, formatter.hpp:61,
\* timestamp.hpp:101, logger.hpp:193).
ReaderExact ==
  tool = "reader_done" =>
    /\ LET limit == ValueOf("--limit", 0)
           all   == AskedUpTo(Len(Headers))
       IN  Len(shown) = IF limit = 0 \/ limit > all THEN all ELSE limit
    /\ \A k \in DOMAIN Headers : Asked(k) /\ AskedUpTo(k) <= Len(shown) =>
         shown[AskedUpTo(k)].entry = Headers[k]
    /\ \A k \in DOMAIN shown :
         LET line == shown[k]
             e    == Fields(line.entry)
         IN  /\ Len(line.ns) = 9 /\ Value(line.ns) = e.ts[2]
             /\ Value(line.tid) = e.tid
             /\ line.text = IF line.entry = 0 THEN 0
                            ELSE Min({112, Max({0, Logged[line.entry].n})})
             /\ LevelNames[e.level + 1] = line.level

\* Without options, log_reader prints every record of which the file holds a
\* byte, also one a crash tore, and no record twice: whatever restarts and
\* crashes happened, entries start where a reader looks for them
\* (mmap_sink.cpp:50-82, log_reader.cpp:81).
ReaderFindsAll ==
  tool = "reader_done" /\ argv = <<>> =>
    /\ {shown[k].entry : k \in DOMAIN shown} \ {0} = {input[j] : j \in DOMAIN input} \ {0}
    /\ \A j, k \in DOMAIN shown :
         j < k /\ shown[j].entry # 0 /\ shown[k].entry # 0 => shown[j].entry < shown[k].entry

\* The date on a line is that of its entry's second, though it is only written
\* when the second changes; the one exception is second 0 before any other,
\* which finds the cache valid and its prefix never written (timestamp.hpp:88).
DateIsOwn ==
  \A k \in DOMAIN shown :
    LET sec == Fields(shown[k].entry).ts[1]
    IN  shown[k].date = IF \E j \in 1 .. k : Fields(shown[j].entry).ts[1] # 0
                        THEN DateOf(sec) ELSE Uninit

Times(P(_)) == Cardinality({k \in DOMAIN Headers : P(Fields(Headers[k]))})

EntriesRead == {Fields(Headers[k]) : k \in DOMAIN Headers}

\* The counts of log_stats agree with the entries of the file and with each
\* other, no entry lies outside the time span or the payload lengths, and both
\* ends of each are those of an entry, once there is one, in whatever order the
\* timestamps come (log_stats.cpp:45-59).
StatsExact ==
  tool = "stats_done" =>
    /\ total = Len(Headers)
    /\ \A l \in 0 .. 6 : level_counts[l] = Times(LAMBDA e : e.level = l)
    /\ \A t \in Tids : thread_counts[t] = Times(LAMBDA e : e.tid = t)
    /\ \A e \in EntriesRead :
         /\ ~Before(e.ts, span.min) /\ ~Before(span.max, e.ts)
         /\ payload.min <= e.payload_len /\ e.payload_len <= payload.max
    /\ Headers # <<>> =>
         /\ {span.min, span.max} \subseteq {e.ts : e \in EntriesRead}
         /\ {payload.min, payload.max} \subseteq {e.payload_len : e \in EntriesRead}

\* "Total entries, entries per level" (log_stats.cpp:4): the entries counted
\* are the ones that were logged.
StatsCountRecords ==
  tool = "stats_done" => total = Times(LAMBDA e : e.ts # <<0, 0>>)
=============================================================================
