-------------------------------- MODULE Logger --------------------------------
(***************************************************************************)
(* The life of the Logger singleton (logger.hpp, src/logger.cpp): init,    *)
(* push by any thread, the drain thread, shutdown, and init once more.     *)
(*                                                                         *)
(* The queue is the bounded log of BroadcastQueue, which MpmcQueue is      *)
(* shown to implement, with the drain thread as its only reader.  The sink *)
(* is the sequence of entries MMapSink::write accepted.  What is at stake  *)
(* here is who may still use the queue and the sink when shutdown takes    *)
(* them away, and whether an entry whose push returned true gets there.    *)
(*                                                                         *)
(* Left out: the choice between pausing and yielding when idle.            *)
(***************************************************************************)
EXTENDS Integers, Sequences

CONSTANTS
  Producers,   \* threads that log
  Stragglers,  \* producers that may log while or after shutdown runs
  Closers,     \* threads that call shutdown
  Main,        \* the one of them that also calls init
  SIZE,        \* QUEUE_SIZE
  BATCH,       \* drain_batch_size_
  SinkRefuses, \* whether MMapSink::write may return 0
  SinkFails,   \* whether the constructor of MMapSink may throw
  Levels,      \* log levels
  MaxPush,     \* bound: calls of push per producer
  MaxInits     \* bound: calls of init

ASSUME LoggerAssumption ==
  /\ Stragglers \subseteq Producers
  /\ Main \in Closers
  /\ SIZE \in Nat \ {0}
  /\ BATCH \in Nat
  /\ SinkRefuses \in BOOLEAN
  /\ SinkFails \in BOOLEAN
  /\ Levels \subseteq Nat
  /\ MaxPush \in Nat
  /\ MaxInits \in Nat

VARIABLES
  \* members
  queue,        \* queue_ # nullptr
  log, published, got, members,   \* *queue_ (BroadcastQueue)
  sink,         \* sink_ # nullptr
  initialized,
  running,
  stop,         \* the stop request of drain_thread_
  min_level,
  entries_drained,
  \* the drain thread
  dpc, batch, got_any,
  \* producers
  ppc,
  held,         \* the queue (counted by inits) a push under way uses
  \* init and shutdown
  cpc,
  \* history
  pushes,       \* calls of push each producer has made
  inits,        \* queues created
  accepted,     \* entries of this queue whose push returned true
  written,      \* entries of this queue the sink took
  refused,      \* entries of this queue for which MMapSink::write returned 0
  returned      \* threads whose shutdown has returned since the last init

queueVars == <<log, published, got, members>>
drainVars == <<dpc, batch, got_any>>
vars == <<queue, log, published, got, members, sink, initialized, running,
          stop, min_level, entries_drained, dpc, batch, got_any, ppc, held, cpc,
          pushes, inits, accepted, written, refused, returned>>

Entries == Producers \X (1 .. MaxPush)
Drain   == "drain"

Q == INSTANCE BroadcastQueue WITH Consumers <- {Drain}

Entry(p) == <<p, pushes[p]>>

Init ==
  /\ queue = FALSE /\ sink = FALSE
  /\ log = <<>> /\ published = {} /\ got = [c \in {Drain} |-> <<>>]
  /\ members = {}
  /\ initialized = FALSE /\ running = FALSE /\ stop = FALSE
  /\ min_level = 0 /\ entries_drained = 0
  /\ dpc = "none" /\ batch = 0 /\ got_any = FALSE
  /\ ppc = [p \in Producers |-> "idle"]
  /\ held = [p \in Producers |-> 0]
  /\ cpc = [c \in Closers |-> "idle"]
  /\ pushes = [p \in Producers |-> 0]
  /\ inits = 0
  /\ accepted = {} /\ written = <<>> /\ refused = {} /\ returned = {}

-----------------------------------------------------------------------------
(***************************************************************************)
(* init.  "Not thread-safe": no other thread is in the logger meanwhile.   *)
(***************************************************************************)
ClosersIdle == \A c \in Closers : cpc[c] = "idle"
InInit      == cpc[Main] \in {"init_sink", "init_start", "init_done"}

CallerGoto(c, from, to) == cpc[c] = from /\ cpc' = [cpc EXCEPT ![c] = to]

\* A new queue, whose only consumer is registered before anyone pushes.
InitQueue ==
  /\ ClosersIdle
  /\ \A p \in Producers : ppc[p] = "idle"
  /\ ~initialized
  /\ inits < MaxInits
  /\ inits' = inits + 1
  /\ min_level' \in Levels
  /\ cpc' = [cpc EXCEPT ![Main] = "init_sink"]
  /\ queue' = TRUE
  /\ log' = <<>> /\ published' = {} /\ got' = [c \in {Drain} |-> <<>>]
  /\ members' = {Drain}
  /\ accepted' = {} /\ written' = <<>> /\ refused' = {} /\ returned' = {}
  /\ UNCHANGED <<sink, initialized, running, stop, drainVars, ppc, held, pushes, entries_drained>>

\* make_unique<MMapSink>, which throws when the file cannot be opened: init
\* ends there and the queue stays.
InitSink ==
  /\ \/ CallerGoto(Main, "init_sink", "init_start") /\ sink' = TRUE
     \/ SinkFails /\ CallerGoto(Main, "init_sink", "idle") /\ UNCHANGED sink
  /\ UNCHANGED <<queue, queueVars, initialized, running, stop, drainVars, ppc,
                 held, pushes, inits, accepted, written, refused, returned, min_level,
                 entries_drained>>

InitStart ==
  /\ CallerGoto(Main, "init_start", "init_done")
  /\ running' = TRUE
  /\ stop' = FALSE
  /\ dpc' = "batch" /\ batch' = 0 /\ got_any' = FALSE
  /\ UNCHANGED <<queue, queueVars, sink, initialized, ppc, held, pushes, inits,
                 accepted, written, refused, returned, min_level,
                 entries_drained>>

InitDone ==
  /\ CallerGoto(Main, "init_done", "idle")
  /\ initialized' = TRUE
  /\ UNCHANGED <<queue, queueVars, sink, running, stop, drainVars, ppc, held,
                 pushes, inits, accepted, written, refused, returned, min_level,
                 entries_drained>>

-----------------------------------------------------------------------------
(***************************************************************************)
(* push.  Other producers than the stragglers keep to what every program   *)
(* of the repository does: log after init, stop before shutdown.           *)
(***************************************************************************)
MayLog(p) == IF p \in Stragglers THEN inits > 0 /\ ~InInit
             ELSE initialized /\ ClosersIdle

should_log(level) == level >= min_level

\* MPMC_LOG: a call of a level that is not logged has no effect.
PushEnter(p) ==
  /\ ppc[p] = "idle"
  /\ MayLog(p)
  /\ \E level \in Levels : should_log(level)
  /\ pushes[p] < MaxPush
  /\ pushes' = [pushes EXCEPT ![p] = @ + 1]
  /\ IF queue THEN /\ ppc' = [ppc EXCEPT ![p] = "entered"]
                   /\ held' = [held EXCEPT ![p] = inits]
              ELSE UNCHANGED <<ppc, held>>        \* returns false
  /\ UNCHANGED <<queue, queueVars, sink, initialized, running, stop, drainVars,
                 cpc, inits, accepted, written, refused, returned, min_level,
                 entries_drained>>

\* What a push does to a queue that is gone is undefined, and not followed:
\* NoUseAfterReset speaks of the state before.
QueueAlive(p) == queue /\ held[p] = inits

\* Any thread, at any time.
SetLevel ==
  /\ min_level' \in Levels
  /\ UNCHANGED <<queue, queueVars, sink, initialized, running, stop, entries_drained,
                 drainVars, ppc, held, cpc, pushes, inits, accepted, written,
                 refused, returned>>

PushClaim(p) ==
  /\ ppc[p] = "entered"
  /\ QueueAlive(p)
  /\ \/ /\ Q!Claim(Entry(p))
        /\ ppc' = [ppc EXCEPT ![p] = "claimed"]
     \/ /\ \E c \in members : Len(log) >= Len(got[c]) + SIZE
        /\ ppc' = [ppc EXCEPT ![p] = "idle"]      \* full: returns false
        /\ UNCHANGED queueVars
  /\ UNCHANGED <<queue, sink, initialized, running, stop, drainVars, held, cpc,
                 pushes, inits, accepted, written, refused, returned, min_level,
                 entries_drained>>

PushPublish(p) ==
  /\ ppc[p] = "claimed"
  /\ QueueAlive(p)
  /\ \E n \in 1 .. Len(log) : log[n] = Entry(p) /\ Q!Publish(n)
  /\ ppc' = [ppc EXCEPT ![p] = "idle"]
  /\ accepted' = accepted \cup {Entry(p)}
  /\ UNCHANGED <<queue, sink, initialized, running, stop, drainVars, held, cpc,
                 pushes, inits, written, refused, returned, min_level,
                 entries_drained>>

-----------------------------------------------------------------------------
(***************************************************************************)
(* drain_loop.                                                             *)
(***************************************************************************)
DrainGoto(from, to) == dpc = from /\ dpc' = to

NothingReady == Len(got[Drain]) + 1 \notin published

MoreInBatch_OffByOne == batch <= BATCH
MoreInBatch == batch < BATCH

DrainPop ==
  /\ DrainGoto("batch", "write")
  /\ MoreInBatch
  /\ Q!Deliver(Drain)
  /\ batch' = batch + 1
  /\ got_any' = TRUE
  /\ entries_drained' = entries_drained + 1
  /\ UNCHANGED <<queue, sink, initialized, running, stop, ppc, held, cpc,
                 pushes, inits, accepted, written, refused, returned, min_level>>

Popped_First == got[Drain][1]
\* `entry`, filled by the last pop
Popped == got[Drain][Len(got[Drain])]

\* Format and write; the result of write is not looked at.
DrainWrite ==
  /\ \/ DrainGoto("write", "batch")
     \/ DrainGoto("final_write", "final")
  /\ \/ /\ written' = Append(written, Popped)
        /\ UNCHANGED refused
     \/ /\ SinkRefuses
        /\ refused' = refused \cup {Popped}
        /\ UNCHANGED written
  /\ UNCHANGED <<queue, queueVars, sink, initialized, running, stop, batch,
                 got_any, ppc, held, cpc, pushes, inits, accepted, returned, min_level,
                 entries_drained>>

DrainEndBatch ==
  /\ dpc = "batch"
  /\ batch = BATCH \/ NothingReady
  /\ dpc' = IF got_any THEN "batch" ELSE "check"
  /\ batch' = 0
  /\ got_any' = FALSE
  /\ UNCHANGED <<queue, queueVars, sink, initialized, running, stop, ppc, held,
                 cpc, pushes, inits, accepted, written, refused, returned, min_level,
                 entries_drained>>

AfterStop_Exit == "exit"
\* where an empty batch leads once a stop is requested
AfterStop == "final"

\* Nothing popped: leave if asked to, else wait a little and go on.
DrainCheckStop ==
  /\ dpc = "check"
  /\ dpc' = IF stop THEN AfterStop ELSE "batch"
  /\ UNCHANGED <<queue, queueVars, sink, initialized, running, stop, batch,
                 got_any, ppc, held, cpc, pushes, inits, accepted, written,
                 refused, returned, min_level,
                 entries_drained>>

FinalPop ==
  /\ DrainGoto("final", "final_write")
  /\ Q!Deliver(Drain)
  /\ entries_drained' = entries_drained + 1
  /\ UNCHANGED <<queue, sink, initialized, running, stop, batch, got_any, ppc,
                 held, cpc, pushes, inits, accepted, written, refused, returned, min_level>>

FinalEnd ==
  /\ DrainGoto("final", "exit")
  /\ NothingReady
  /\ UNCHANGED <<queue, queueVars, sink, initialized, running, stop, batch,
                 got_any, ppc, held, cpc, pushes, inits, accepted, written,
                 refused, returned, min_level,
                 entries_drained>>

-----------------------------------------------------------------------------
(***************************************************************************)
(* shutdown.                                                               *)
(***************************************************************************)
MayClose == /\ ~InInit
            /\ \A p \in Producers \ Stragglers : ppc[p] = "idle"

ExchangeInitialized_LeaveSet == UNCHANGED initialized
\* initialized_.exchange(false): only one of several callers goes on
ExchangeInitialized == initialized' = FALSE

Shutdown(c) ==
  /\ MayClose
  /\ initialized
  /\ CallerGoto(c, "idle", "stop")
  /\ ExchangeInitialized
  /\ UNCHANGED <<queue, queueVars, sink, running, stop, drainVars, ppc, held,
                 pushes, inits, accepted, written, refused, returned, min_level,
                 entries_drained>>

ShutdownSkipped(c) ==
  /\ MayClose
  /\ ~initialized
  /\ inits > 0
  /\ cpc[c] = "idle"
  /\ returned' = returned \cup {c}
  /\ UNCHANGED <<queue, queueVars, sink, initialized, running, stop, drainVars,
                 ppc, held, cpc, pushes, inits, accepted, written, refused, min_level,
                 entries_drained>>

RequestStop_Forgotten == UNCHANGED stop
\* running_ is read by nobody but is_running: the stop token is what counts
RequestStop == stop' = TRUE

ShutdownStop(c) ==
  /\ CallerGoto(c, "stop", "join")
  /\ running' = FALSE
  /\ RequestStop
  /\ UNCHANGED <<queue, queueVars, sink, initialized, drainVars, ppc, held,
                 pushes, inits, accepted, written, refused, returned, min_level,
                 entries_drained>>

Joined_Always == TRUE
\* join() returns when drain_loop has
Joined == dpc = "exit"

ShutdownJoin(c) ==
  /\ CallerGoto(c, "join", "flush")
  /\ Joined
  /\ UNCHANGED <<queue, queueVars, sink, initialized, running, stop, drainVars,
                 ppc, held, pushes, inits, accepted, written, refused, returned, min_level,
                 entries_drained>>

\* sink_->flush() (see MMapSink) and unregister_consumer
ShutdownUnregister(c) ==
  /\ CallerGoto(c, "flush", "reset_queue")
  /\ members' = members \ {Drain}
  /\ UNCHANGED <<queue, log, published, got, sink, initialized, running, stop,
                 drainVars, ppc, held, pushes, inits, accepted, written,
                 refused, returned, min_level,
                 entries_drained>>

ShutdownResetQueue(c) ==
  /\ CallerGoto(c, "reset_queue", "reset_sink")
  /\ queue' = FALSE
  /\ UNCHANGED <<queueVars, sink, initialized, running, stop, drainVars, ppc,
                 held, pushes, inits, accepted, written, refused, returned, min_level,
                 entries_drained>>

\* sink_.reset(), and shutdown returns
ShutdownResetSink(c) ==
  /\ CallerGoto(c, "reset_sink", "idle")
  /\ sink' = FALSE
  /\ returned' = returned \cup {c}
  /\ UNCHANGED <<queue, queueVars, initialized, running, stop, drainVars, ppc,
                 held, pushes, inits, accepted, written, refused, min_level,
                 entries_drained>>

-----------------------------------------------------------------------------
InitStep == InitSink \/ InitStart \/ InitDone

PushStep(p) == PushClaim(p) \/ PushPublish(p)

DrainStep == \/ DrainPop
             \/ DrainWrite
             \/ DrainEndBatch
             \/ DrainCheckStop
             \/ FinalPop
             \/ FinalEnd

ShutdownStep(c) == \/ ShutdownStop(c)
                   \/ ShutdownJoin(c)
                   \/ ShutdownUnregister(c)
                   \/ ShutdownResetQueue(c)
                   \/ ShutdownResetSink(c)

Next ==
  \/ InitQueue
  \/ InitStep
  \/ SetLevel
  \/ \E p \in Producers : PushEnter(p) \/ PushStep(p)
  \/ DrainStep
  \/ \E c \in Closers : Shutdown(c) \/ ShutdownSkipped(c) \/ ShutdownStep(c)

Spec == Init /\ [][Next]_vars

(***************************************************************************)
(* Threads keep running; nobody is obliged to log, to init or to shut      *)
(* down.                                                                   *)
(***************************************************************************)
Fairness ==
  /\ WF_vars(InitStep)
  /\ WF_vars(DrainStep)
  /\ \A p \in Producers : WF_vars(PushStep(p))
  /\ \A c \in Closers : WF_vars(ShutdownStep(c))

FairSpec == Spec /\ Fairness

-----------------------------------------------------------------------------
(***************************************************************************)
(* Properties.                                                             *)
(***************************************************************************)
Written == {written[n] : n \in DOMAIN written}

\* Every member and local has the range its declaration suggests.
LoggerTypeOK ==
  /\ queue \in BOOLEAN /\ sink \in BOOLEAN
  /\ log \in Seq(Entries) /\ published \subseteq 1 .. Len(log)
  /\ got \in [{Drain} -> Seq(Entries)] /\ members \subseteq {Drain}
  /\ initialized \in BOOLEAN /\ running \in BOOLEAN /\ stop \in BOOLEAN
  /\ min_level \in Levels \cup {0} /\ entries_drained \in Nat
  /\ dpc \in {"none", "batch", "write", "check", "final", "final_write", "exit"}
  /\ batch \in 0 .. BATCH /\ got_any \in BOOLEAN
  /\ ppc \in [Producers -> {"idle", "entered", "claimed"}]
  /\ held \in [Producers -> 0 .. MaxInits]
  /\ cpc \in [Closers -> {"idle", "init_sink", "init_start", "init_done", "stop",
                          "join", "flush", "reset_queue", "reset_sink"}]
  /\ pushes \in [Producers -> 0 .. MaxPush]
  /\ inits \in 0 .. MaxInits
  /\ accepted \subseteq Entries /\ written \in Seq(Entries)
  /\ refused \subseteq Entries /\ returned \subseteq Closers

\* Nobody uses the queue or the sink once shutdown has taken it away: not a
\* push under way (logger.hpp:102-105 against logger.cpp:76), not the drain
\* thread (logger.cpp:97-137), not a second shutdown (logger.cpp:69-75).
NoUseAfterReset ==
  /\ \A p \in Producers : ppc[p] # "idle" => QueueAlive(p)
  /\ dpc \notin {"none", "exit"} => queue /\ sink /\ Drain \in members
  /\ \A c \in Closers : cpc[c] = "flush" => queue /\ sink

\* The sink and the thread handle have one user at a time: the drain thread
\* until it is joined, then one caller of shutdown (logger.cpp:53-78).
OneOwner ==
  /\ \A c \in Closers : cpc[c] \in {"flush", "reset_queue", "reset_sink"} =>
       dpc = "exit"
  /\ \A c, d \in Closers : cpc[c] # "idle" /\ cpc[d] # "idle" => c = d

\* When all is shut down, every entry whose push returned true has reached the
\* sink (logger.hpp:80, "Drains remaining entries").
AcceptedReachSink ==
  returned # {} /\ ClosersIdle => accepted \subseteq Written \cup refused

\* The entries of one thread are in the file in the order it logged them, each
\* once, even if the sink refuses some.
ProgramOrder ==
  \A i, j \in DOMAIN written :
    i < j /\ written[i][1] = written[j][1] => written[i][2] < written[j][2]

\* An accepted entry reaches the sink, shutdown or not.
AcceptedGetDrained ==
  \A e \in Entries : e \in accepted ~> e \in Written \cup refused

\* shutdown returns.
ShutdownReturns == \A c \in Closers : cpc[c] = "stop" ~> cpc[c] = "idle"
=============================================================================
