----------------------------- MODULE LoggerProofs -----------------------------
(***************************************************************************)
(* Proofs about Logger.  For every program: types, one owner of the sink   *)
(* and of the thread handle at a time, and program order in the file.  For *)
(* a program without stragglers: nobody uses the queue or the sink after   *)
(* shutdown has taken it away, and no accepted entry is lost.              *)
(*                                                                         *)
(* The invariant is Typed (types, and where init, shutdown and the drain   *)
(* thread can be together), then Fifo (how log, reads and the sink's       *)
(* entries correspond), then, without stragglers, HeldNow and Flow.        *)
(***************************************************************************)
EXTENDS Logger, TLAPS

\* The steps of init, and all steps of a caller.

InitPcs == {"init_sink", "init_start", "init_done"}

CallerPcs == InitPcs \cup {"idle", "stop", "join", "flush", "reset_queue", "reset_sink"}

\* One thread at a time is inside init or shutdown.
OneCaller ==
  /\ \A c, d \in Closers : cpc[c] # "idle" /\ cpc[d] # "idle" => c = d
  /\ \A c \in Closers : cpc[c] \in InitPcs => c = Main
  /\ initialized => \A c \in Closers : cpc[c] = "idle"

\* From the start of the drain thread to shutdown's request to stop.
Open == initialized \/ \E c \in Closers : cpc[c] \in {"init_done", "stop"}

\* From there until the queue is left.
Serving == Open \/ \E c \in Closers : cpc[c] \in {"join", "flush"}

\* The drain thread lives while the logger is open or being joined, and while it
\* lives it has the queue and the sink.
Phases ==
  /\ Open => ~stop /\ dpc \in {"batch", "write", "check"}
  /\ dpc \notin {"none", "exit"} => Open \/ \E c \in Closers : cpc[c] = "join"
  /\ \A c \in Closers : cpc[c] \in {"flush", "reset_queue", "reset_sink"} => dpc = "exit"
  /\ Serving => queue /\ sink /\ members = {Drain}
  /\ cpc[Main] \in {"init_sink", "init_start"} => queue /\ members = {Drain}
  /\ cpc[Main] = "init_start" => sink

\* Callers take turns, and the drain thread lives between init and the join.
LEMMA PhasesStep ==
  ASSUME cpc \in [Closers -> CallerPcs], OneCaller, Phases, [Next]_vars
  PROVE  OneCaller' /\ Phases'
<1> USE LoggerAssumption DEF OneCaller, Phases, Open, Serving, InitPcs, ClosersIdle, queueVars, drainVars
<1>1. CASE UNCHANGED vars
  BY <1>1 DEF vars
<1>2. CASE InitQueue
  BY <1>2 DEF InitQueue
<1>3. CASE InitSink
  BY <1>3 DEF InitSink, CallerGoto
<1>4. CASE InitStart
  BY <1>4 DEF InitStart, CallerGoto
<1>5. CASE InitDone
  BY <1>5 DEF InitDone, CallerGoto
<1>6. CASE SetLevel
  BY <1>6 DEF SetLevel
<1>7. ASSUME NEW p \in Producers, PushEnter(p)
      PROVE  OneCaller' /\ Phases'
  BY <1>7 DEF PushEnter
<1>8. ASSUME NEW p \in Producers, PushClaim(p)
      PROVE  OneCaller' /\ Phases'
  BY <1>8 DEF PushClaim, Q!Claim
<1>9. ASSUME NEW p \in Producers, PushPublish(p)
      PROVE  OneCaller' /\ Phases'
  BY <1>9 DEF PushPublish, Q!Publish
<1>10. CASE DrainPop
  BY <1>10 DEF DrainPop, DrainGoto, MoreInBatch, Q!Deliver
<1>11. CASE DrainWrite
  BY <1>11 DEF DrainWrite, DrainGoto, Popped
<1>12. CASE DrainEndBatch
  BY <1>12 DEF DrainEndBatch, NothingReady
<1>13. CASE DrainCheckStop
  BY <1>13 DEF DrainCheckStop, AfterStop
<1>14. CASE FinalPop
  BY <1>14 DEF FinalPop, DrainGoto, Q!Deliver
<1>15. CASE FinalEnd
  BY <1>15 DEF FinalEnd, DrainGoto, NothingReady
<1>16. ASSUME NEW c \in Closers, Shutdown(c)
      PROVE  OneCaller' /\ Phases'
  BY <1>16 DEF Shutdown, CallerGoto, ExchangeInitialized
<1>17. ASSUME NEW c \in Closers, ShutdownSkipped(c)
      PROVE  OneCaller' /\ Phases'
  BY <1>17 DEF ShutdownSkipped
<1>18. ASSUME NEW c \in Closers, ShutdownStop(c)
      PROVE  OneCaller' /\ Phases'
  BY <1>18 DEF ShutdownStop, CallerGoto, RequestStop
<1>19. ASSUME NEW c \in Closers, ShutdownJoin(c)
      PROVE  OneCaller' /\ Phases'
  BY <1>19 DEF ShutdownJoin, CallerGoto, Joined
<1>20. ASSUME NEW c \in Closers, ShutdownUnregister(c)
      PROVE  OneCaller' /\ Phases'
  BY <1>20 DEF ShutdownUnregister, CallerGoto
<1>21. ASSUME NEW c \in Closers, ShutdownResetQueue(c)
      PROVE  OneCaller' /\ Phases'
  BY <1>21 DEF ShutdownResetQueue, CallerGoto
<1>22. ASSUME NEW c \in Closers, ShutdownResetSink(c)
      PROVE  OneCaller' /\ Phases'
  BY <1>22 DEF ShutdownResetSink, CallerGoto
<1> QED
  BY <1>1, <1>2, <1>3, <1>4, <1>5, <1>6, <1>7, <1>8, <1>9, <1>10, <1>11, <1>12, <1>13, <1>14,
     <1>15, <1>16, <1>17, <1>18, <1>19, <1>20, <1>21, <1>22 DEF Next, InitStep, PushStep,
     DrainStep, ShutdownStep

-----------------------------------------------------------------------------
\* What a thread holds at its step.
InHand ==
  /\ dpc \in {"write", "final_write"} => Len(got[Drain]) > 0
  /\ \A p \in Producers : ppc[p] # "idle" => pushes[p] > 0

Typed == LoggerTypeOK /\ InHand /\ OneCaller /\ Phases

\* The entry a push is about is an entry.
LEMMA EntryTyped ==
  ASSUME LoggerTypeOK, InHand, NEW p \in Producers, ppc[p] # "idle"
  PROVE  Entry(p) \in Entries
<1>1. pushes[p] \in 0 .. MaxPush /\ pushes[p] > 0
  BY DEF LoggerTypeOK, InHand
<1>2. pushes[p] \in 1 .. MaxPush
  BY <1>1, LoggerAssumption
<1> QED
  BY <1>2 DEF Entry, Entries

\* Every step keeps the types, and each thread with what its step needs.
LEMMA TypedStep ==
  ASSUME Typed, [Next]_vars
  PROVE  Typed'
<1>0. LoggerTypeOK /\ InHand /\ Phases
  BY DEF Typed
<1> SUFFICES LoggerTypeOK' /\ InHand'
  <2>1. cpc \in [Closers -> CallerPcs]
    BY DEF Typed, LoggerTypeOK, CallerPcs, InitPcs
  <2> QED
    BY <2>1, PhasesStep DEF Typed
<1>1. CASE UNCHANGED vars
  BY <1>0, <1>1 DEF vars, LoggerTypeOK, InHand
<1>2. CASE InitQueue
  <2>1. <<>> \in Seq(Entries) /\ Len(<<>>) = 0
    OBVIOUS
  <2>2. /\ log' = <<>> /\ published' = {} /\ got' = [c \in {Drain} |-> <<>>]
        /\ members' = {Drain} /\ dpc' = dpc /\ ppc' = ppc
        /\ \A p \in Producers : ppc[p] = "idle"
    BY <1>2 DEF InitQueue, drainVars
  <2>3. /\ log' \in Seq(Entries) /\ published' \subseteq 1 .. Len(log')
        /\ got' \in [{Drain} -> Seq(Entries)] /\ members' \subseteq {Drain}
    BY <2>1, <2>2
  <2>4. cpc' \in [Closers -> {"idle", "init_sink", "init_start", "init_done", "stop",
                             "join", "flush", "reset_queue", "reset_sink"}]
    BY <1>0, <1>2 DEF InitQueue, LoggerTypeOK
  <2>5. /\ inits' \in 0 .. MaxInits /\ held' \in [Producers -> 0 .. MaxInits]
        /\ written' \in Seq(Entries) /\ accepted' \subseteq Entries /\ refused' \subseteq Entries
        /\ returned' \subseteq Closers /\ min_level' \in Levels \cup {0}
    BY <1>0, <1>2, <2>1, LoggerAssumption DEF InitQueue, LoggerTypeOK
  <2>6. /\ UNCHANGED <<sink, initialized, running, stop, batch, got_any, pushes, entries_drained>>
        /\ queue' = TRUE
    BY <1>2 DEF InitQueue, drainVars
  <2>7. LoggerTypeOK'
    BY <1>0, <2>2, <2>3, <2>4, <2>5, <2>6 DEF LoggerTypeOK
  <2>8. dpc \in {"none", "exit"}
    BY <1>0, <1>2 DEF InitQueue, ClosersIdle, Phases, Open
  <2> QED
    BY <2>2, <2>7, <2>8 DEF InHand
<1>3. CASE InitSink
  <2>1. UNCHANGED <<queue, log, published, got, members, initialized, running, stop,
                    min_level, entries_drained, dpc, batch, got_any, ppc, held, pushes,
                    inits, accepted, written, refused, returned>>
    BY <1>3 DEF InitSink, CallerGoto, queueVars, drainVars
  <2>2. sink' \in BOOLEAN
    BY <1>0, <1>3 DEF InitSink, CallerGoto, queueVars, drainVars, LoggerTypeOK
  <2>3. cpc' \in [Closers -> {"idle", "init_sink", "init_start", "init_done", "stop",
                             "join", "flush", "reset_queue", "reset_sink"}]
    BY <1>0, <1>3 DEF InitSink, CallerGoto, queueVars, drainVars, LoggerTypeOK
  <2>4. LoggerTypeOK'
    BY <1>0, <2>1, <2>2, <2>3 DEF LoggerTypeOK
  <2> QED
    BY <1>0, <2>1, <2>2, <2>3, <2>4 DEF InHand
<1>4. CASE InitStart
  <2>0. /\ UNCHANGED <<queue, log, published, got, members, sink, initialized, ppc, held, pushes,
                       inits, accepted, written, refused, returned, min_level, entries_drained>>
        /\ running' = TRUE /\ stop' = FALSE /\ dpc' = "batch" /\ batch' = 0 /\ got_any' = FALSE
        /\ cpc' = [cpc EXCEPT ![Main] = "init_done"]
    BY <1>4 DEF InitStart, CallerGoto, queueVars
  <2>3. 0 \in 0 .. BATCH
    BY LoggerAssumption
  <2>1. LoggerTypeOK'
    BY <1>0, <2>0, <2>3 DEF LoggerTypeOK
  <2>2. dpc' = "batch" /\ ppc' = ppc /\ pushes' = pushes
    BY <1>4 DEF InitStart
  <2> QED
    BY <1>0, <2>1, <2>2 DEF InHand
<1>5. CASE InitDone
  <2>1. UNCHANGED <<queue, log, published, got, members, sink, running, stop, min_level,
                    entries_drained, dpc, batch, got_any, ppc, held, pushes, inits,
                    accepted, written, refused, returned>>
    BY <1>5 DEF InitDone, CallerGoto, queueVars, drainVars
  <2>2. initialized' \in BOOLEAN
    BY <1>0, <1>5 DEF InitDone, CallerGoto, queueVars, drainVars, LoggerTypeOK
  <2>3. cpc' \in [Closers -> {"idle", "init_sink", "init_start", "init_done", "stop",
                             "join", "flush", "reset_queue", "reset_sink"}]
    BY <1>0, <1>5 DEF InitDone, CallerGoto, queueVars, drainVars, LoggerTypeOK
  <2>4. LoggerTypeOK'
    BY <1>0, <2>1, <2>2, <2>3 DEF LoggerTypeOK
  <2> QED
    BY <1>0, <2>1, <2>2, <2>3, <2>4 DEF InHand
<1>6. CASE SetLevel
  <2>1. UNCHANGED <<queue, log, published, got, members, sink, initialized, running, stop,
                    entries_drained, dpc, batch, got_any, ppc, held, cpc, pushes, inits,
                    accepted, written, refused, returned>>
    BY <1>6 DEF SetLevel, queueVars, drainVars
  <2>2. min_level' \in Levels \cup {0}
    BY <1>0, <1>6 DEF SetLevel, queueVars, drainVars, LoggerTypeOK
  <2>3. LoggerTypeOK'
    BY <1>0, <2>1, <2>2 DEF LoggerTypeOK
  <2> QED
    BY <1>0, <2>1, <2>2, <2>3 DEF InHand
<1>7. ASSUME NEW p \in Producers, PushEnter(p)
      PROVE  LoggerTypeOK' /\ InHand'
  <2>1. pushes' \in [Producers -> 0 .. MaxPush] /\ pushes'[p] > 0
    BY <1>0, <1>7, LoggerAssumption DEF PushEnter, LoggerTypeOK
  <2>2. \A q \in Producers \ {p} : pushes'[q] = pushes[q] /\ ppc'[q] = ppc[q]
    BY <1>0, <1>7 DEF PushEnter, LoggerTypeOK
  <2>3. /\ ppc' \in [Producers -> {"idle", "entered", "claimed"}]
        /\ held' \in [Producers -> 0 .. MaxInits]
    BY <1>0, <1>7 DEF PushEnter, LoggerTypeOK
  <2>4. UNCHANGED <<queue, log, published, got, members, sink, initialized, running, stop, dpc, batch, got_any,
                    cpc, inits, accepted, written, refused, returned, min_level, entries_drained>>
    BY <1>7 DEF PushEnter, queueVars, drainVars
  <2>5. LoggerTypeOK'
    BY <1>0, <2>1, <2>3, <2>4 DEF LoggerTypeOK
  <2> QED
    BY <1>0, <2>1, <2>2, <2>4, <2>5 DEF InHand
<1>8. ASSUME NEW p \in Producers, PushClaim(p)
      PROVE  LoggerTypeOK' /\ InHand'
  <2>1. Entry(p) \in Entries
    BY <1>0, <1>8, EntryTyped DEF PushClaim
  <2>2. /\ log' \in Seq(Entries) /\ published' = published /\ got' = got /\ members' = members
        /\ published \subseteq 1 .. Len(log')
    <3>1. CASE Q!Claim(Entry(p))
      <4>1. log' = Append(log, Entry(p)) /\ UNCHANGED <<published, got, members>>
        BY <3>1 DEF Q!Claim
      <4>2. log \in Seq(Entries) /\ published \subseteq 1 .. Len(log)
        BY <1>0 DEF LoggerTypeOK
      <4>3. log' \in Seq(Entries) /\ Len(log') = Len(log) + 1 /\ Len(log) \in Nat
        BY <2>1, <4>1, <4>2
      <4> QED
        BY <4>1, <4>2, <4>3
    <3>2. CASE UNCHANGED queueVars
      BY <1>0, <3>2 DEF LoggerTypeOK, queueVars
    <3> QED
      BY <1>8, <3>1, <3>2 DEF PushClaim
  <2>3. /\ UNCHANGED <<queue, sink, initialized, running, stop, dpc, batch, got_any, held, cpc,
                       pushes, inits, accepted, written, refused, returned, min_level,
                       entries_drained>>
        /\ ppc' \in [Producers -> {"idle", "entered", "claimed"}]
    BY <1>0, <1>8 DEF PushClaim, drainVars, LoggerTypeOK
  <2>4. LoggerTypeOK'
    BY <1>0, <2>2, <2>3 DEF LoggerTypeOK
  <2>5. \A q \in Producers \ {p} : ppc'[q] = ppc[q]
    BY <1>0, <1>8 DEF PushClaim, LoggerTypeOK
  <2>6. ppc[p] # "idle"
    BY <1>8 DEF PushClaim
  <2> QED
    BY <1>0, <2>2, <2>3, <2>4, <2>5, <2>6 DEF InHand
<1>9. ASSUME NEW p \in Producers, PushPublish(p)
      PROVE  LoggerTypeOK' /\ InHand'
  <2>1. Entry(p) \in Entries
    BY <1>0, <1>9, EntryTyped DEF PushPublish
  <2>2. /\ UNCHANGED <<log, got, members>> /\ published' \subseteq 1 .. Len(log)
    BY <1>0, <1>9 DEF PushPublish, Q!Publish, LoggerTypeOK
  <2>3. /\ UNCHANGED <<queue, sink, initialized, running, stop, dpc, batch, got_any, held, cpc,
                       pushes, inits, written, refused, returned, min_level,
                       entries_drained>>
        /\ ppc' = [ppc EXCEPT ![p] = "idle"] /\ accepted' = accepted \cup {Entry(p)}
    BY <1>9 DEF PushPublish, drainVars
  <2>4. LoggerTypeOK'
    BY <1>0, <2>1, <2>2, <2>3 DEF LoggerTypeOK
  <2> QED
    BY <1>0, <2>2, <2>3, <2>4 DEF InHand, LoggerTypeOK
<1>10. CASE DrainPop
  <2>1. got' = [got EXCEPT ![Drain] = Append(got[Drain], log[Len(got[Drain]) + 1])]
    BY <1>10 DEF DrainPop, Q!Deliver
  <2>2. /\ log \in Seq(Entries) /\ got[Drain] \in Seq(Entries)
        /\ Len(got[Drain]) + 1 \in 1 .. Len(log)
    BY <1>0, <1>10 DEF DrainPop, Q!Deliver, LoggerTypeOK
  <2>3. log[Len(got[Drain]) + 1] \in Entries
    BY <2>2
  <2>4. Append(got[Drain], log[Len(got[Drain]) + 1]) \in Seq(Entries)
    BY <2>2, <2>3
  <2>5. got' \in [{Drain} -> Seq(Entries)]
    BY <1>0, <2>1, <2>4 DEF LoggerTypeOK
  <2>6. Len(got'[Drain]) > 0
    <3>1. got'[Drain] = Append(got[Drain], log[Len(got[Drain]) + 1])
      BY <1>0, <2>1 DEF LoggerTypeOK
    <3> QED
      BY <2>2, <2>3, <3>1
  <2>7. /\ UNCHANGED <<log, published, members, queue, sink, initialized, running, stop, ppc, held, cpc,
                       pushes, inits, accepted, written, refused, returned, min_level>>
        /\ entries_drained' = entries_drained + 1
    BY <1>10 DEF DrainPop, Q!Deliver
  <2>8. dpc' \in {"write", "final_write"} /\ batch' \in 0 .. BATCH /\ got_any' \in BOOLEAN
    BY <1>0, <1>10, LoggerAssumption DEF DrainPop, DrainGoto, MoreInBatch, LoggerTypeOK
  <2>9. LoggerTypeOK'
    BY <1>0, <2>5, <2>7, <2>8 DEF LoggerTypeOK
  <2> QED
    BY <1>0, <2>6, <2>7, <2>9 DEF InHand
<1>11. CASE DrainWrite
  <2>1. dpc \in {"write", "final_write"} /\ dpc' \in {"batch", "final"}
    BY <1>11 DEF DrainWrite, DrainGoto
  <2>2. Popped \in Entries
    <3>1. got[Drain] \in Seq(Entries) /\ Len(got[Drain]) \in 1 .. Len(got[Drain])
      BY <1>0, <2>1 DEF InHand, LoggerTypeOK
    <3> QED
      BY <3>1 DEF Popped
  <2>3. written' \in Seq(Entries) /\ refused' \subseteq Entries
    <3>1. written \in Seq(Entries) /\ refused \subseteq Entries
      BY <1>0 DEF LoggerTypeOK
    <3>2. \/ written' = Append(written, Popped) /\ refused' = refused
          \/ written' = written /\ refused' = refused \cup {Popped}
      BY <1>11 DEF DrainWrite
    <3> QED
      BY <2>2, <3>1, <3>2
  <2>4. UNCHANGED <<queue, log, published, got, members, sink, initialized, running, stop, batch,
                 got_any, ppc, held, cpc, pushes, inits, accepted, returned, min_level,
                 entries_drained>>
    BY <1>11 DEF DrainWrite, queueVars
  <2>5. LoggerTypeOK'
    BY <1>0, <2>1, <2>3, <2>4 DEF LoggerTypeOK
  <2> QED
    BY <1>0, <2>1, <2>4, <2>5 DEF InHand
<1>12. CASE DrainEndBatch
  <2>1. dpc' \in {"batch", "check"} /\ batch' = 0 /\ got_any' = FALSE /\ dpc = "batch"
    BY <1>12 DEF DrainEndBatch
  <2>2. UNCHANGED <<queue, log, published, got, members, sink, initialized, running, stop, ppc, held,
                 cpc, pushes, inits, accepted, written, refused, returned, min_level,
                 entries_drained>>
    BY <1>12 DEF DrainEndBatch, queueVars
  <2>0. 0 \in 0 .. BATCH
    BY LoggerAssumption
  <2>3. LoggerTypeOK'
    BY <1>0, <2>0, <2>1, <2>2 DEF LoggerTypeOK
  <2> QED
    BY <1>0, <2>1, <2>2, <2>3 DEF InHand
<1>13. CASE DrainCheckStop
  <2>1. UNCHANGED <<queue, log, published, got, members, sink, initialized, running, stop,
                    min_level, entries_drained, batch, got_any, ppc, held, cpc, pushes,
                    inits, accepted, written, refused, returned>>
    BY <1>13 DEF DrainCheckStop, AfterStop, queueVars, drainVars
  <2>2. dpc' \in {"batch", "final"}
    BY <1>0, <1>13 DEF DrainCheckStop, AfterStop, queueVars, drainVars, LoggerTypeOK
  <2>3. LoggerTypeOK'
    BY <1>0, <2>1, <2>2 DEF LoggerTypeOK
  <2> QED
    BY <1>0, <2>1, <2>2, <2>3 DEF InHand
<1>14. CASE FinalPop
  <2>1. got' = [got EXCEPT ![Drain] = Append(got[Drain], log[Len(got[Drain]) + 1])]
    BY <1>14 DEF FinalPop, Q!Deliver
  <2>2. /\ log \in Seq(Entries) /\ got[Drain] \in Seq(Entries)
        /\ Len(got[Drain]) + 1 \in 1 .. Len(log)
    BY <1>0, <1>14 DEF FinalPop, Q!Deliver, LoggerTypeOK
  <2>3. log[Len(got[Drain]) + 1] \in Entries
    BY <2>2
  <2>4. Append(got[Drain], log[Len(got[Drain]) + 1]) \in Seq(Entries)
    BY <2>2, <2>3
  <2>5. got' \in [{Drain} -> Seq(Entries)]
    BY <1>0, <2>1, <2>4 DEF LoggerTypeOK
  <2>6. Len(got'[Drain]) > 0
    <3>1. got'[Drain] = Append(got[Drain], log[Len(got[Drain]) + 1])
      BY <1>0, <2>1 DEF LoggerTypeOK
    <3> QED
      BY <2>2, <2>3, <3>1
  <2>7. /\ UNCHANGED <<log, published, members, queue, sink, initialized, running, stop, ppc, held, cpc,
                       pushes, inits, accepted, written, refused, returned, min_level>>
        /\ entries_drained' = entries_drained + 1
    BY <1>14 DEF FinalPop, Q!Deliver
  <2>8. dpc' \in {"write", "final_write"} /\ batch' \in 0 .. BATCH /\ got_any' \in BOOLEAN
    BY <1>0, <1>14, LoggerAssumption DEF FinalPop, DrainGoto, MoreInBatch, LoggerTypeOK
  <2>9. LoggerTypeOK'
    BY <1>0, <2>5, <2>7, <2>8 DEF LoggerTypeOK
  <2> QED
    BY <1>0, <2>6, <2>7, <2>9 DEF InHand
<1>15. CASE FinalEnd
  <2>1. UNCHANGED <<queue, log, published, got, members, sink, initialized, running, stop,
                    min_level, entries_drained, batch, got_any, ppc, held, cpc, pushes,
                    inits, accepted, written, refused, returned>>
    BY <1>15 DEF FinalEnd, DrainGoto, NothingReady, queueVars, drainVars
  <2>2. dpc' = "exit"
    BY <1>0, <1>15 DEF FinalEnd, DrainGoto, NothingReady, queueVars, drainVars, LoggerTypeOK
  <2>3. LoggerTypeOK'
    BY <1>0, <2>1, <2>2 DEF LoggerTypeOK
  <2> QED
    BY <1>0, <2>1, <2>2, <2>3 DEF InHand
<1>16. ASSUME NEW c \in Closers, Shutdown(c)
      PROVE  LoggerTypeOK' /\ InHand'
  <2>1. UNCHANGED <<queue, log, published, got, members, sink, running, stop, min_level,
                    entries_drained, dpc, batch, got_any, ppc, held, pushes, inits,
                    accepted, written, refused, returned>>
    BY <1>16 DEF Shutdown, CallerGoto, ExchangeInitialized, queueVars, drainVars
  <2>2. initialized' \in BOOLEAN
    BY <1>0, <1>16 DEF Shutdown, CallerGoto, ExchangeInitialized, queueVars, drainVars, LoggerTypeOK
  <2>3. cpc' \in [Closers -> {"idle", "init_sink", "init_start", "init_done", "stop",
                             "join", "flush", "reset_queue", "reset_sink"}]
    BY <1>0, <1>16 DEF Shutdown, CallerGoto, ExchangeInitialized, queueVars, drainVars, LoggerTypeOK
  <2>4. LoggerTypeOK'
    BY <1>0, <2>1, <2>2, <2>3 DEF LoggerTypeOK
  <2> QED
    BY <1>0, <2>1, <2>2, <2>3, <2>4 DEF InHand
<1>17. ASSUME NEW c \in Closers, ShutdownSkipped(c)
      PROVE  LoggerTypeOK' /\ InHand'
  <2>1. UNCHANGED <<queue, log, published, got, members, sink, initialized, running, stop,
                    min_level, entries_drained, dpc, batch, got_any, ppc, held, cpc,
                    pushes, inits, accepted, written, refused>>
    BY <1>17 DEF ShutdownSkipped, queueVars, drainVars
  <2>2. returned' \subseteq Closers
    BY <1>0, <1>17 DEF ShutdownSkipped, queueVars, drainVars, LoggerTypeOK
  <2>3. LoggerTypeOK'
    BY <1>0, <2>1, <2>2 DEF LoggerTypeOK
  <2> QED
    BY <1>0, <2>1, <2>2, <2>3 DEF InHand
<1>18. ASSUME NEW c \in Closers, ShutdownStop(c)
      PROVE  LoggerTypeOK' /\ InHand'
  <2>1. UNCHANGED <<queue, log, published, got, members, sink, initialized, min_level,
                    entries_drained, dpc, batch, got_any, ppc, held, pushes, inits,
                    accepted, written, refused, returned>>
    BY <1>18 DEF ShutdownStop, CallerGoto, RequestStop, queueVars, drainVars
  <2>2. running' \in BOOLEAN /\ stop' \in BOOLEAN
    BY <1>0, <1>18 DEF ShutdownStop, CallerGoto, RequestStop, queueVars, drainVars, LoggerTypeOK
  <2>3. cpc' \in [Closers -> {"idle", "init_sink", "init_start", "init_done", "stop",
                             "join", "flush", "reset_queue", "reset_sink"}]
    BY <1>0, <1>18 DEF ShutdownStop, CallerGoto, RequestStop, queueVars, drainVars, LoggerTypeOK
  <2>4. LoggerTypeOK'
    BY <1>0, <2>1, <2>2, <2>3 DEF LoggerTypeOK
  <2> QED
    BY <1>0, <2>1, <2>2, <2>3, <2>4 DEF InHand
<1>19. ASSUME NEW c \in Closers, ShutdownJoin(c)
      PROVE  LoggerTypeOK' /\ InHand'
  <2>1. UNCHANGED <<queue, log, published, got, members, sink, initialized, running, stop,
                    min_level, entries_drained, dpc, batch, got_any, ppc, held, pushes,
                    inits, accepted, written, refused, returned>>
    BY <1>19 DEF ShutdownJoin, CallerGoto, Joined, queueVars, drainVars
  <2>2. cpc' \in [Closers -> {"idle", "init_sink", "init_start", "init_done", "stop",
                             "join", "flush", "reset_queue", "reset_sink"}]
    BY <1>0, <1>19 DEF ShutdownJoin, CallerGoto, Joined, queueVars, drainVars, LoggerTypeOK
  <2>3. LoggerTypeOK'
    BY <1>0, <2>1, <2>2 DEF LoggerTypeOK
  <2> QED
    BY <1>0, <2>1, <2>2, <2>3 DEF InHand
<1>20. ASSUME NEW c \in Closers, ShutdownUnregister(c)
      PROVE  LoggerTypeOK' /\ InHand'
  <2>1. UNCHANGED <<queue, log, published, got, sink, initialized, running, stop,
                    min_level, entries_drained, dpc, batch, got_any, ppc, held, pushes,
                    inits, accepted, written, refused, returned>>
    BY <1>20 DEF ShutdownUnregister, CallerGoto, queueVars, drainVars
  <2>2. members' \subseteq {Drain}
    BY <1>0, <1>20 DEF ShutdownUnregister, CallerGoto, queueVars, drainVars, LoggerTypeOK
  <2>3. cpc' \in [Closers -> {"idle", "init_sink", "init_start", "init_done", "stop",
                             "join", "flush", "reset_queue", "reset_sink"}]
    BY <1>0, <1>20 DEF ShutdownUnregister, CallerGoto, queueVars, drainVars, LoggerTypeOK
  <2>4. LoggerTypeOK'
    BY <1>0, <2>1, <2>2, <2>3 DEF LoggerTypeOK
  <2> QED
    BY <1>0, <2>1, <2>2, <2>3, <2>4 DEF InHand
<1>21. ASSUME NEW c \in Closers, ShutdownResetQueue(c)
      PROVE  LoggerTypeOK' /\ InHand'
  <2>1. UNCHANGED <<log, published, got, members, sink, initialized, running, stop,
                    min_level, entries_drained, dpc, batch, got_any, ppc, held, pushes,
                    inits, accepted, written, refused, returned>>
    BY <1>21 DEF ShutdownResetQueue, CallerGoto, queueVars, drainVars
  <2>2. queue' \in BOOLEAN
    BY <1>0, <1>21 DEF ShutdownResetQueue, CallerGoto, queueVars, drainVars, LoggerTypeOK
  <2>3. cpc' \in [Closers -> {"idle", "init_sink", "init_start", "init_done", "stop",
                             "join", "flush", "reset_queue", "reset_sink"}]
    BY <1>0, <1>21 DEF ShutdownResetQueue, CallerGoto, queueVars, drainVars, LoggerTypeOK
  <2>4. LoggerTypeOK'
    BY <1>0, <2>1, <2>2, <2>3 DEF LoggerTypeOK
  <2> QED
    BY <1>0, <2>1, <2>2, <2>3, <2>4 DEF InHand
<1>22. ASSUME NEW c \in Closers, ShutdownResetSink(c)
      PROVE  LoggerTypeOK' /\ InHand'
  <2>1. UNCHANGED <<queue, log, published, got, members, initialized, running, stop,
                    min_level, entries_drained, dpc, batch, got_any, ppc, held, pushes,
                    inits, accepted, written, refused>>
    BY <1>22 DEF ShutdownResetSink, CallerGoto, queueVars, drainVars
  <2>2. sink' \in BOOLEAN /\ returned' \subseteq Closers
    BY <1>0, <1>22 DEF ShutdownResetSink, CallerGoto, queueVars, drainVars, LoggerTypeOK
  <2>3. cpc' \in [Closers -> {"idle", "init_sink", "init_start", "init_done", "stop",
                             "join", "flush", "reset_queue", "reset_sink"}]
    BY <1>0, <1>22 DEF ShutdownResetSink, CallerGoto, queueVars, drainVars, LoggerTypeOK
  <2>4. LoggerTypeOK'
    BY <1>0, <2>1, <2>2, <2>3 DEF LoggerTypeOK
  <2> QED
    BY <1>0, <2>1, <2>2, <2>3, <2>4 DEF InHand
<1> QED
  BY <1>1, <1>2, <1>3, <1>4, <1>5, <1>6, <1>7, <1>8, <1>9, <1>10, <1>11, <1>12, <1>13, <1>14,
     <1>15, <1>16, <1>17, <1>18, <1>19, <1>20, <1>21, <1>22 DEF Next, InitStep, PushStep,
     DrainStep, ShutdownStep

\* The types hold at the start.
LEMMA TypedInit == Init => Typed
<1> SUFFICES ASSUME Init PROVE Typed
  OBVIOUS
<1>0. /\ 0 \in 0 .. BATCH /\ 0 \in 0 .. MaxInits /\ 0 \in 0 .. MaxPush
      /\ <<>> \in Seq(Entries) /\ 0 \in Nat
  BY LoggerAssumption
<1>1. LoggerTypeOK
  BY <1>0 DEF Init, LoggerTypeOK
<1> QED
  BY <1>1, LoggerAssumption DEF Init, Typed, InHand, OneCaller, Phases, Open, Serving, InitPcs

\* The members of Logger, and the locals of the threads in it, have their types.
THEOREM LoggerTypeCorrect == Spec => []LoggerTypeOK
<1>1. Typed /\ [Next]_vars => Typed'
  BY TypedStep
<1>2. Typed => LoggerTypeOK
  BY DEF Typed
<1> QED
  BY TypedInit, <1>1, <1>2, PTL DEF Spec

\* One thread at a time.
THEOREM OneOwnerAlways == Spec => []OneOwner
<1>1. Typed /\ [Next]_vars => Typed'
  BY TypedStep
<1>2. Typed => OneOwner
  BY DEF Typed, OneOwner, OneCaller, Phases
<1> QED
  BY TypedInit, <1>1, <1>2, PTL DEF Spec

-----------------------------------------------------------------------------
(***************************************************************************)
(* The entries: the drain thread's reads are a prefix of the log, the log  *)
(* has the entries of one thread in the order it logged them, and the sink *)
(* has what was read, in that order.                                       *)
(***************************************************************************)
Writing == dpc \in {"write", "final_write"}

Before(e, f) == e[1] = f[1] => e[2] < f[2]

GotIsLog ==
  /\ Len(got[Drain]) <= Len(log)
  /\ \A n \in 1 .. Len(got[Drain]) : n \in published /\ got[Drain][n] = log[n]

LogOrdered ==
  /\ \A i, j \in 1 .. Len(log) : i < j => Before(log[i], log[j])
  /\ \A n \in 1 .. Len(log) : /\ log[n][2] <= pushes[log[n][1]]
                              /\ ppc[log[n][1]] = "entered" => Before(log[n], Entry(log[n][1]))

\* What the sink has was read, before the entry in the drain thread's hands.
WrittenIsLog ==
  \A i \in DOMAIN written : \E n \in 1 .. Len(got[Drain]) :
    written[i] = log[n] /\ (Writing => n < Len(got[Drain]))

Fifo == GotIsLog /\ LogOrdered /\ WrittenIsLog /\ ProgramOrder

\* A step that moves no entry.
Quiet ==
  /\ UNCHANGED <<log, published, got, written, refused, accepted, pushes, ppc, held, inits>>
  /\ dpc' # dpc => ~Writing /\ dpc' \in {"batch", "check", "final"}

\* Every step moves an entry in one of eight ways, or is quiet.
LEMMA StepKinds ==
  ASSUME Typed, [Next]_vars
  PROVE  \/ InitQueue
         \/ \E p \in Producers : PushEnter(p) \/ PushClaim(p) \/ PushPublish(p)
         \/ DrainPop \/ FinalPop \/ DrainWrite \/ FinalEnd
         \/ Quiet
<1>1. UNCHANGED vars => Quiet
  BY DEF vars, Quiet
<1>2. InitSink \/ InitDone \/ SetLevel => Quiet
  BY DEF InitSink, InitDone, SetLevel, Quiet, queueVars, drainVars
<1>3. InitStart => Quiet
  <2> SUFFICES ASSUME InitStart PROVE Quiet
    OBVIOUS
  <2>1. cpc[Main] = "init_start" /\ Main \in Closers
    BY LoggerAssumption DEF InitStart, CallerGoto
  <2>2. ~Open /\ ~\E c \in Closers : cpc[c] = "join"
    BY <2>1 DEF Typed, OneCaller, InitPcs, Open
  <2>3. ~Writing
    BY <2>2 DEF Typed, Phases, Writing
  <2> QED
    BY <2>3 DEF InitStart, Quiet, queueVars
<1>4. DrainEndBatch \/ DrainCheckStop => Quiet
  BY DEF DrainEndBatch, DrainCheckStop, AfterStop, Quiet, Writing, queueVars
<1>5. ASSUME NEW c \in Closers
      PROVE  Shutdown(c) \/ ShutdownSkipped(c) \/ ShutdownStep(c) =>
               Quiet \/ \E d \in Closers : ShutdownUnregister(d)
  BY DEF Shutdown, ShutdownSkipped, ShutdownStep, ShutdownStop, ShutdownJoin,
         ShutdownResetQueue, ShutdownResetSink, Quiet, queueVars, drainVars
<1>6. ASSUME NEW c \in Closers
      PROVE  ShutdownUnregister(c) => Quiet
  BY DEF ShutdownUnregister, Quiet, drainVars
<1> QED
  BY <1>1, <1>2, <1>3, <1>4, <1>5, <1>6 DEF Next, InitStep, PushStep, DrainStep

\* What a pop does to the drain thread's reads.
LEMMA PopStep ==
  ASSUME Typed, GotIsLog, DrainPop \/ FinalPop
  PROVE  /\ UNCHANGED <<log, published, written, refused, accepted, pushes, ppc, held, inits>>
         /\ ~Writing /\ Writing'
         /\ Len(got'[Drain]) = Len(got[Drain]) + 1
         /\ Len(got'[Drain]) <= Len(log)
         /\ GotIsLog'
         /\ \A n \in 1 .. Len(got[Drain]) : got'[Drain][n] = got[Drain][n]
<1> DEFINE k == Len(got[Drain])
<1>1. /\ got' = [got EXCEPT ![Drain] = Append(got[Drain], log[k + 1])]
      /\ k + 1 \in published /\ UNCHANGED <<log, published>>
  BY DEF DrainPop, FinalPop, Q!Deliver
<1>2. /\ got[Drain] \in Seq(Entries) /\ log \in Seq(Entries) /\ k \in Nat
      /\ published \subseteq 1 .. Len(log) /\ Len(log) \in Nat
  BY DEF Typed, LoggerTypeOK
<1>3. got'[Drain] = Append(got[Drain], log[k + 1])
  BY <1>1 DEF Typed, LoggerTypeOK
<1>4. k + 1 \in 1 .. Len(log)
  BY <1>1, <1>2
<1>5. log[k + 1] \in Entries
  BY <1>2, <1>4
<1>6. /\ Len(got'[Drain]) = k + 1 /\ got'[Drain][k + 1] = log[k + 1]
      /\ \A n \in 1 .. k : got'[Drain][n] = got[Drain][n]
  BY <1>2, <1>3, <1>5
<1>7. GotIsLog'
  <2>1. k + 1 <= Len(log)
    BY <1>4
  <2>2. ASSUME NEW n \in 1 .. k + 1 PROVE n \in published /\ got'[Drain][n] = log[n]
    <3>1. CASE n = k + 1
      BY <1>1, <1>6, <3>1
    <3>2. CASE n \in 1 .. k
      BY <1>6, <3>2 DEF GotIsLog
    <3> QED
      BY <1>2, <3>1, <3>2
  <2> QED
    BY <1>1, <1>6, <2>1, <2>2 DEF GotIsLog
<1>8. /\ UNCHANGED <<written, refused, accepted, pushes, ppc, held, inits>>
      /\ ~Writing /\ Writing'
  BY DEF DrainPop, FinalPop, DrainGoto, Writing
<1> QED
  BY <1>1, <1>4, <1>6, <1>7, <1>8

\* Where a write takes its entry from.
LEMMA WriteStep ==
  ASSUME Typed, GotIsLog, DrainWrite
  PROVE  /\ UNCHANGED <<log, published, got, accepted, pushes, ppc, held, inits>>
         /\ Writing /\ dpc' \in {"batch", "final"}
         /\ Len(got[Drain]) \in 1 .. Len(log)
         /\ Popped = log[Len(got[Drain])] /\ Popped = got[Drain][Len(got[Drain])]
         /\ \/ written' = Append(written, Popped) /\ refused' = refused
            \/ written' = written /\ refused' = refused \cup {Popped}
<1>1. /\ UNCHANGED <<log, published, got, accepted, pushes, ppc, held, inits>>
      /\ Writing /\ dpc' \in {"batch", "final"}
  BY DEF DrainWrite, DrainGoto, Writing, queueVars
<1>2. got[Drain] \in Seq(Entries) /\ Len(got[Drain]) \in Nat /\ Len(log) \in Nat
  BY DEF Typed, LoggerTypeOK
<1>3. Len(got[Drain]) > 0
  BY <1>1 DEF Typed, InHand, Writing
<1>4. Len(got[Drain]) \in 1 .. Len(log) /\ got[Drain][Len(got[Drain])] = log[Len(got[Drain])]
  BY <1>2, <1>3 DEF GotIsLog
<1> QED
  BY <1>1, <1>4 DEF DrainWrite, Popped

\* What a claim does to the log.
LEMMA ClaimStep ==
  ASSUME Typed, NEW p \in Producers, PushClaim(p)
  PROVE  /\ UNCHANGED <<published, got, written, refused, accepted, pushes, held, inits, dpc>>
         /\ ppc[p] = "entered" /\ ppc' \in [Producers -> {"idle", "entered", "claimed"}]
         /\ \A q \in Producers \ {p} : ppc'[q] = ppc[q]
         /\ \/ log' = log /\ ppc'[p] = "idle"
            \/ /\ ppc'[p] = "claimed"
               /\ Len(log') = Len(log) + 1 /\ log'[Len(log) + 1] = Entry(p)
               /\ \A n \in 1 .. Len(log) : log'[n] = log[n]
<1>1. /\ UNCHANGED <<published, got, written, refused, accepted, pushes, held, inits, dpc>>
      /\ ppc[p] = "entered"
  BY DEF PushClaim, Q!Claim, queueVars, drainVars
<1>2. \/ log' = log /\ ppc' = [ppc EXCEPT ![p] = "idle"]
      \/ log' = Append(log, Entry(p)) /\ ppc' = [ppc EXCEPT ![p] = "claimed"]
  BY DEF PushClaim, Q!Claim, queueVars
<1>3. ppc \in [Producers -> {"idle", "entered", "claimed"}] /\ log \in Seq(Entries)
  BY DEF Typed, LoggerTypeOK
<1>4. Entry(p) \in Entries
  BY <1>1, EntryTyped DEF Typed
<1>5. CASE log' = log /\ ppc' = [ppc EXCEPT ![p] = "idle"]
  BY <1>1, <1>3, <1>5
<1>6. CASE log' = Append(log, Entry(p)) /\ ppc' = [ppc EXCEPT ![p] = "claimed"]
  BY <1>1, <1>3, <1>4, <1>6
<1> QED
  BY <1>2, <1>5, <1>6

\* A logged entry has a producer and a number.
LEMMA LogEntry ==
  ASSUME Typed, NEW n \in 1 .. Len(log)
  PROVE  /\ log[n] \in Entries /\ log[n][1] \in Producers /\ log[n][2] \in Nat
         /\ pushes[log[n][1]] \in Nat
<1>1. log[n] \in Entries
  BY DEF Typed, LoggerTypeOK
<1>2. log[n][1] \in Producers /\ log[n][2] \in 1 .. MaxPush
  BY <1>1 DEF Entries
<1>3. pushes[log[n][1]] \in 0 .. MaxPush
  BY <1>2 DEF Typed, LoggerTypeOK
<1> QED
  BY <1>1, <1>2, <1>3, LoggerAssumption

\* The log keeps its order.
LEMMA LogOrderedStep ==
  ASSUME Typed, LogOrdered, [Next]_vars
  PROVE  LogOrdered'
<1> DEFINE Bound(n) == /\ log[n][2] <= pushes[log[n][1]]
                       /\ ppc[log[n][1]] = "entered" => Before(log[n], Entry(log[n][1]))
<1>0. /\ Len(log) \in Nat /\ pushes \in [Producers -> 0 .. MaxPush]
      /\ ppc \in [Producers -> {"idle", "entered", "claimed"}]
  BY DEF Typed, LoggerTypeOK
<1>1. CASE InitQueue
  <2>1. log' = <<>> /\ Len(<<>>) = 0
    BY <1>1 DEF InitQueue
  <2> QED
    BY <2>1 DEF LogOrdered
<1>2. CASE UNCHANGED <<log, pushes, ppc>>
  BY <1>2 DEF LogOrdered, Before, Entry
<1>3. ASSUME NEW p \in Producers, PushEnter(p)
      PROVE  LogOrdered'
  <2>1. log' = log /\ pushes' = [pushes EXCEPT ![p] = @ + 1]
    BY <1>3 DEF PushEnter, queueVars
  <2>2. \A q \in Producers \ {p} : ppc'[q] = ppc[q] /\ pushes'[q] = pushes[q]
    BY <1>0, <1>3 DEF PushEnter
  <2>3. ASSUME NEW n \in 1 .. Len(log) PROVE Bound(n)'
    <3>1. log[n][1] \in Producers /\ log[n][2] \in Nat /\ Bound(n) /\ pushes[log[n][1]] \in Nat
      BY LogEntry DEF LogOrdered
    <3>2. CASE log[n][1] = p
      <4>1. pushes'[p] = pushes[p] + 1 /\ log[n][2] <= pushes[p]
        BY <1>0, <2>1, <3>1, <3>2
      <4>2. log[n][2] < pushes'[p] /\ log[n][2] <= pushes'[p]
        BY <3>1, <3>2, <4>1
      <4> QED
        BY <2>1, <3>2, <4>2 DEF Before, Entry
    <3>3. CASE log[n][1] # p
      BY <2>1, <2>2, <3>1, <3>3 DEF Before, Entry
    <3> QED
      BY <3>2, <3>3
  <2> QED
    BY <2>1, <2>3 DEF LogOrdered, Before
<1>4. ASSUME NEW p \in Producers, PushClaim(p)
      PROVE  LogOrdered'
  <2>1. /\ UNCHANGED pushes
        /\ ppc[p] = "entered"
        /\ \A q \in Producers \ {p} : ppc'[q] = ppc[q]
        /\ \/ log' = log /\ ppc'[p] = "idle"
           \/ /\ ppc'[p] = "claimed"
              /\ Len(log') = Len(log) + 1 /\ log'[Len(log) + 1] = Entry(p)
              /\ \A n \in 1 .. Len(log) : log'[n] = log[n]
    BY <1>4, ClaimStep
  <2>2. ASSUME NEW n \in 1 .. Len(log), log'[n] = log[n] PROVE Bound(n)'
    <3>1. log[n][1] \in Producers /\ Bound(n)
      BY LogEntry DEF LogOrdered
    <3>2. ppc'[log[n][1]] = "entered" => ppc[log[n][1]] = "entered"
      BY <2>1, <3>1
    <3> QED
      BY <2>1, <2>2, <3>1, <3>2 DEF Before, Entry
  <2>3. CASE log' = log
    BY <2>2, <2>3 DEF LogOrdered, Before
  <2>4. CASE /\ ppc'[p] = "claimed"
             /\ Len(log') = Len(log) + 1 /\ log'[Len(log) + 1] = Entry(p)
             /\ \A n \in 1 .. Len(log) : log'[n] = log[n]
    <3>1. Entry(p)[1] = p /\ Entry(p)[2] = pushes[p] /\ pushes[p] \in Nat
      BY <1>0, LoggerAssumption DEF Entry
    <3>2. ASSUME NEW n \in Nat, n = Len(log) + 1 PROVE Bound(n)'
      <4>1. log'[n] = Entry(p)
        BY <2>4, <3>2
      <4>2. log'[n][1] = p /\ log'[n][2] <= pushes'[p] /\ ppc'[p] # "entered"
        BY <2>1, <2>4, <3>1, <4>1
      <4> QED
        BY <4>2
    <3>3. \A n \in 1 .. Len(log') : Bound(n)'
      <4>1. ASSUME NEW n \in 1 .. Len(log') PROVE n \in 1 .. Len(log) \/ n = Len(log) + 1
        BY <1>0, <2>4
      <4>2. \A n \in 1 .. Len(log) : Bound(n)'
        BY <2>2, <2>4
      <4> QED
        BY <1>0, <3>2, <4>1, <4>2
    <3>4. ASSUME NEW i \in 1 .. Len(log'), NEW j \in 1 .. Len(log'), i < j
          PROVE  Before(log'[i], log'[j])
      <4>1. i \in 1 .. Len(log)
        BY <1>0, <2>4, <3>4
      <4>2. CASE j \in 1 .. Len(log)
        BY <2>4, <3>4, <4>1, <4>2 DEF LogOrdered
      <4>3. CASE j = Len(log) + 1
        <5>1. log[i][1] = p => Before(log[i], Entry(p))
          BY <2>1, <4>1 DEF LogOrdered
        <5> QED
          BY <2>4, <3>1, <4>1, <4>3, <5>1 DEF Before
      <4> QED
        BY <1>0, <2>4, <4>2, <4>3
    <3> QED
      BY <3>3, <3>4 DEF LogOrdered
  <2> QED
    BY <2>1, <2>3, <2>4
<1>5. ASSUME NEW p \in Producers, PushPublish(p)
      PROVE  LogOrdered'
  <2>1. log' = log /\ pushes' = pushes /\ ppc' = [ppc EXCEPT ![p] = "idle"]
    BY <1>5 DEF PushPublish, Q!Publish
  <2>2. ASSUME NEW n \in 1 .. Len(log) PROVE Bound(n)'
    <3>1. log[n][1] \in Producers /\ Bound(n)
      BY LogEntry DEF LogOrdered
    <3>2. ppc'[log[n][1]] = "entered" => ppc[log[n][1]] = "entered"
      BY <1>0, <2>1, <3>1
    <3> QED
      BY <2>1, <3>1, <3>2 DEF Before, Entry
  <2> QED
    BY <2>1, <2>2 DEF LogOrdered, Before
<1>6. DrainPop \/ FinalPop \/ DrainWrite \/ FinalEnd \/ Quiet => UNCHANGED <<log, pushes, ppc>>
  BY DEF DrainPop, FinalPop, DrainWrite, FinalEnd, Quiet, Q!Deliver, queueVars
<1> QED
  BY <1>1, <1>2, <1>3, <1>4, <1>5, <1>6, StepKinds

\* The drain thread's reads stay a prefix of the log.
LEMMA GotIsLogStep ==
  ASSUME Typed, GotIsLog, [Next]_vars
  PROVE  GotIsLog'
<1>0. Len(log) \in Nat /\ Len(got[Drain]) \in Nat
  BY DEF Typed, LoggerTypeOK
<1>1. CASE InitQueue
  <2>1. Len(log') = 0 /\ Len(got'[Drain]) = 0
    BY <1>1 DEF InitQueue
  <2> QED
    BY <2>1 DEF GotIsLog
<1>2. CASE UNCHANGED <<log, got>> /\ published \subseteq published'
  BY <1>2 DEF GotIsLog
<1>3. ASSUME NEW p \in Producers, PushClaim(p)
      PROVE  GotIsLog'
  <2>1. UNCHANGED <<published, got>>
    BY <1>3, ClaimStep
  <2>2. Len(log) <= Len(log') /\ \A n \in 1 .. Len(log) : log'[n] = log[n]
    BY <1>0, <1>3, ClaimStep
  <2>3. Len(log') \in Nat
    BY <1>0, <1>3, ClaimStep
  <2>4. Len(got[Drain]) <= Len(log')
    BY <1>0, <2>2, <2>3 DEF GotIsLog
  <2>5. ASSUME NEW n \in 1 .. Len(got[Drain]) PROVE n \in published /\ got[Drain][n] = log'[n]
    BY <1>0, <2>2 DEF GotIsLog
  <2> QED
    BY <2>1, <2>4, <2>5 DEF GotIsLog
<1>4. DrainPop \/ FinalPop => GotIsLog'
  BY PopStep
<1>5. ASSUME NEW p \in Producers
      PROVE  PushEnter(p) \/ PushPublish(p) => UNCHANGED <<log, got>> /\ published \subseteq published'
  BY DEF PushEnter, PushPublish, Q!Publish, queueVars
<1>6. DrainWrite \/ FinalEnd \/ Quiet => UNCHANGED <<log, got>> /\ published \subseteq published'
  BY DEF DrainWrite, FinalEnd, Quiet, queueVars
<1> QED
  BY <1>1, <1>2, <1>3, <1>4, <1>5, <1>6, StepKinds

\* What the sink has stays in the order of the log.
LEMMA WrittenStep ==
  ASSUME Typed, Fifo, [Next]_vars
  PROVE  WrittenIsLog' /\ ProgramOrder'
<1>0. /\ Len(log) \in Nat /\ Len(got[Drain]) \in Nat /\ written \in Seq(Entries)
      /\ Len(got[Drain]) <= Len(log)
  BY DEF Fifo, GotIsLog, Typed, LoggerTypeOK
<1>1. CASE InitQueue
  <2>1. written' = <<>>
    BY <1>1 DEF InitQueue
  <2> QED
    BY <2>1 DEF WrittenIsLog, ProgramOrder
<1>2. CASE /\ UNCHANGED <<got, written>> /\ (Writing' => Writing)
           /\ \A n \in 1 .. Len(log) : log'[n] = log[n]
  <2>1. ProgramOrder'
    BY <1>2 DEF Fifo, ProgramOrder
  <2>2. ASSUME NEW i \in DOMAIN written
        PROVE  \E n \in 1 .. Len(got[Drain]) : written[i] = log'[n] /\ (Writing' => n < Len(got[Drain]))
    <3>1. PICK n \in 1 .. Len(got[Drain]) : written[i] = log[n] /\ (Writing => n < Len(got[Drain]))
      BY DEF Fifo, WrittenIsLog
    <3>2. n \in 1 .. Len(log)
      BY <1>0
    <3> QED
      BY <1>2, <3>1, <3>2
  <2>3. WrittenIsLog'
    BY <1>2, <2>2 DEF WrittenIsLog
  <2> QED
    BY <2>1, <2>3
<1>3. CASE DrainPop \/ FinalPop
  <2>1. /\ UNCHANGED <<log, written>> /\ ~Writing /\ Writing'
        /\ Len(got'[Drain]) = Len(got[Drain]) + 1
    BY <1>3, PopStep DEF Fifo
  <2>2. ProgramOrder'
    BY <2>1 DEF Fifo, ProgramOrder
  <2>3. ASSUME NEW i \in DOMAIN written
        PROVE  \E n \in 1 .. Len(got'[Drain]) : written[i] = log[n] /\ n < Len(got'[Drain])
    <3>1. PICK n \in 1 .. Len(got[Drain]) : written[i] = log[n]
      BY DEF Fifo, WrittenIsLog
    <3>2. n \in 1 .. Len(got'[Drain]) /\ n < Len(got'[Drain])
      BY <1>0, <2>1
    <3> QED
      BY <3>1, <3>2
  <2> QED
    BY <2>1, <2>2, <2>3 DEF WrittenIsLog
<1>4. CASE DrainWrite
  <2> DEFINE k == Len(got[Drain])
  <2>1. /\ UNCHANGED <<log, got>> /\ Writing /\ ~Writing' /\ k \in 1 .. Len(log) /\ Popped = log[k]
        /\ written' = Append(written, Popped) \/ written' = written
    BY <1>4, WriteStep DEF Fifo, Writing
  <2>2. ASSUME NEW i \in DOMAIN written
        PROVE  /\ Before(written[i], Popped)
               /\ \E n \in 1 .. k : written[i] = log[n]
    <3>1. PICK n \in 1 .. k : written[i] = log[n] /\ n < k
      BY <2>1 DEF Fifo, WrittenIsLog
    <3>2. n \in 1 .. Len(log)
      BY <1>0
    <3> QED
      BY <2>1, <3>1, <3>2 DEF Fifo, LogOrdered
  <2>3. CASE written' = written
    BY <2>1, <2>2, <2>3 DEF Fifo, ProgramOrder, WrittenIsLog
  <2>4. CASE written' = Append(written, Popped)
    <3>1. Popped \in Entries
      BY <2>1, LogEntry
    <3>2. /\ DOMAIN written' = DOMAIN written \cup {Len(written) + 1}
          /\ DOMAIN written = 1 .. Len(written) /\ Len(written) \in Nat
          /\ written'[Len(written) + 1] = Popped
          /\ \A i \in DOMAIN written : written'[i] = written[i]
      BY <1>0, <2>4, <3>1
    <3>3. k \in 1 .. k
      BY <2>1
    <3>4. WrittenIsLog'
      BY <2>1, <2>2, <3>2, <3>3 DEF WrittenIsLog
    <3>5. ASSUME NEW i \in DOMAIN written', NEW j \in DOMAIN written', i < j
          PROVE  Before(written'[i], written'[j])
      <4>1. i \in DOMAIN written
        BY <3>2, <3>5
      <4>2. CASE j \in DOMAIN written
        BY <3>2, <3>5, <4>1, <4>2 DEF Fifo, ProgramOrder, Before
      <4>3. CASE j = Len(written) + 1
        BY <2>2, <3>2, <4>1, <4>3
      <4> QED
        BY <3>2, <4>2, <4>3
    <3> QED
      BY <3>4, <3>5 DEF ProgramOrder, Before
  <2> QED
    BY <2>1, <2>3, <2>4
<1>5. ASSUME NEW p \in Producers, PushEnter(p) \/ PushClaim(p) \/ PushPublish(p)
      PROVE  /\ UNCHANGED <<got, written>> /\ (Writing' => Writing)
             /\ \A n \in 1 .. Len(log) : log'[n] = log[n]
  <2>1. CASE PushEnter(p) \/ PushPublish(p)
    BY <2>1 DEF PushEnter, PushPublish, Q!Publish, queueVars, drainVars, Writing
  <2>2. CASE PushClaim(p)
    BY <2>2, ClaimStep DEF Writing
  <2> QED
    BY <1>5, <2>1, <2>2
<1>6. FinalEnd \/ Quiet => UNCHANGED <<log, got, written>> /\ (Writing' => Writing)
  BY DEF FinalEnd, DrainGoto, Quiet, queueVars, Writing
<1> QED
  BY <1>1, <1>2, <1>3, <1>4, <1>5, <1>6, StepKinds

\* The order holds at the start, with nothing logged.
LEMMA FifoInit == Init => Fifo
BY DEF Init, Fifo, GotIsLog, LogOrdered, WrittenIsLog, ProgramOrder

\* The file has the entries of one thread in the order it logged them, each
\* once, whatever the stragglers do and whether or not the sink refuses some.
THEOREM ProgramOrderAlways == Spec => []ProgramOrder
<1>1. Typed /\ Fifo /\ [Next]_vars => Typed' /\ Fifo'
  BY TypedStep, LogOrderedStep, GotIsLogStep, WrittenStep DEF Fifo
<1>2. Fifo => ProgramOrder
  BY DEF Fifo
<1> QED
  BY TypedInit, FifoInit, <1>1, <1>2, PTL DEF Spec

-----------------------------------------------------------------------------
(***************************************************************************)
(* When every producer stops before shutdown.                              *)
(***************************************************************************)
NoStragglers == Stragglers = {}

\* A push under way has the queue it entered.
HeldNow == \A p \in Producers : ppc[p] # "idle" => initialized /\ held[p] = inits

\* Without stragglers a push ends before the queue it entered is given up.
LEMMA HeldStep ==
  ASSUME NoStragglers, Typed, HeldNow, [Next]_vars
  PROVE  HeldNow'
<1>0. /\ ppc \in [Producers -> {"idle", "entered", "claimed"}]
      /\ held \in [Producers -> 0 .. MaxInits]
  BY DEF Typed, LoggerTypeOK
<1>1. CASE UNCHANGED <<ppc, held, inits>> /\ (initialized => initialized')
  BY <1>1 DEF HeldNow
<1>2. CASE InitQueue
  BY <1>2 DEF InitQueue, HeldNow
<1>3. ASSUME NEW p \in Producers, PushEnter(p)
      PROVE  HeldNow'
  BY <1>0, <1>3 DEF PushEnter, MayLog, NoStragglers, HeldNow
<1>4. ASSUME NEW p \in Producers, PushClaim(p) \/ PushPublish(p)
      PROVE  HeldNow'
  BY <1>0, <1>4 DEF PushClaim, PushPublish, HeldNow
<1>5. ASSUME NEW c \in Closers, Shutdown(c)
      PROVE  HeldNow'
  BY <1>5 DEF Shutdown, MayClose, NoStragglers, HeldNow
<1>6. InitStep \/ SetLevel \/ DrainStep => UNCHANGED <<ppc, held, inits>> /\ (initialized => initialized')
  BY DEF InitStep, InitSink, InitStart, InitDone, SetLevel, DrainStep, DrainPop, DrainWrite,
         DrainEndBatch, DrainCheckStop, FinalPop, FinalEnd
<1>7. ASSUME NEW c \in Closers, ShutdownSkipped(c) \/ ShutdownStep(c)
      PROVE  UNCHANGED <<ppc, held, inits>> /\ (initialized => initialized')
  BY <1>7 DEF ShutdownSkipped, ShutdownStep, ShutdownStop, ShutdownJoin, ShutdownUnregister,
              ShutdownResetQueue, ShutdownResetSink
<1>8. UNCHANGED vars => UNCHANGED <<ppc, held, inits>> /\ (initialized => initialized')
  BY DEF vars
<1> QED
  BY <1>1, <1>2, <1>3, <1>4, <1>5, <1>6, <1>7, <1>8 DEF Next, PushStep

\* Nobody uses the queue or the sink after shutdown has taken it away.
THEOREM NoUseWithoutStragglers ==
  ASSUME NoStragglers
  PROVE  Spec => []NoUseAfterReset
<1>1. Init => Typed /\ HeldNow
  BY TypedInit DEF Init, HeldNow
<1>2. Typed /\ HeldNow /\ [Next]_vars => Typed' /\ HeldNow'
  BY TypedStep, HeldStep
<1>3. Typed /\ HeldNow => NoUseAfterReset
  <2> SUFFICES ASSUME Typed, HeldNow PROVE NoUseAfterReset
    OBVIOUS
  <2>1. \A p \in Producers : ppc[p] # "idle" => QueueAlive(p)
    BY DEF Typed, Phases, Serving, Open, HeldNow, QueueAlive
  <2>2. dpc \notin {"none", "exit"} => queue /\ sink /\ Drain \in members
    BY DEF Typed, Phases, Serving
  <2>3. \A c \in Closers : cpc[c] = "flush" => queue /\ sink
    BY DEF Typed, Phases, Serving
  <2> QED
    BY <2>1, <2>2, <2>3 DEF NoUseAfterReset
<1> QED
  BY <1>1, <1>2, <1>3, PTL DEF Spec

-----------------------------------------------------------------------------
(***************************************************************************)
(* No entry is lost on its way from push to the sink.                      *)
(***************************************************************************)
\* A claimed place is published, or its producer is about to.
Claimed ==
  \A n \in 1 .. Len(log) :
    n \in published \/ \E p \in Producers : ppc[p] = "claimed" /\ log[n] = Entry(p)

AcceptedInLog == \A e \in accepted : \E n \in published : log[n] = e

\* What was read went to the sink or is on its way.
ReadIsWritten ==
  \A n \in 1 .. Len(got[Drain]) :
    got[Drain][n] \in Written \cup refused \/ (Writing /\ n = Len(got[Drain]))

\* The drain thread leaves with the queue empty.
DrainedAtExit == dpc \in {"none", "exit"} => Len(got[Drain]) = Len(log)

\* Until init starts again.
ClosedOnceReturned == returned # {} => ~initialized /\ ~InInit

Flow == Claimed /\ AcceptedInLog /\ ReadIsWritten /\ DrainedAtExit /\ ClosedOnceReturned

\* Two places do not hold the same entry.
LEMMA OnePlaceEach ==
  ASSUME Typed, LogOrdered, NEW i \in 1 .. Len(log), NEW j \in 1 .. Len(log), log[i] = log[j]
  PROVE  i = j
<1>1. log[i][2] \in Nat /\ Len(log) \in Nat
  BY LogEntry DEF Typed, LoggerTypeOK
<1>2. ~(i < j) /\ ~(j < i)
  BY <1>1 DEF LogOrdered, Before
<1> QED
  BY <1>1, <1>2

\* A claimed place keeps a producer until it is published.
LEMMA ClaimedStep ==
  ASSUME Typed, LogOrdered, Claimed, [Next]_vars
  PROVE  Claimed'
<1>0. Len(log) \in Nat /\ ppc \in [Producers -> {"idle", "entered", "claimed"}]
  BY DEF Typed, LoggerTypeOK
<1>1. CASE InitQueue
  <2>1. Len(log') = 0
    BY <1>1 DEF InitQueue
  <2> QED
    BY <2>1 DEF Claimed
<1>2. CASE UNCHANGED <<log, published, ppc, pushes>>
  BY <1>2 DEF Claimed, Entry
<1>3. ASSUME NEW p \in Producers, PushEnter(p)
      PROVE  Claimed'
  <2>1. /\ UNCHANGED <<log, published>> /\ ppc[p] = "idle"
        /\ pushes' = [pushes EXCEPT ![p] = @ + 1] /\ pushes \in [Producers -> 0 .. MaxPush]
    BY <1>3 DEF PushEnter, queueVars, Typed, LoggerTypeOK
  <2>2. ASSUME NEW q \in Producers, ppc[q] = "claimed"
        PROVE  ppc'[q] = "claimed" /\ Entry(q)' = Entry(q)
    BY <1>0, <1>3, <2>1, <2>2 DEF PushEnter, Entry
  <2>3. ASSUME NEW n \in 1 .. Len(log)
        PROVE  n \in published \/ \E q \in Producers : ppc'[q] = "claimed" /\ log[n] = Entry(q)'
    BY <2>2 DEF Claimed
  <2> QED
    BY <2>1, <2>3 DEF Claimed
<1>4. ASSUME NEW p \in Producers, PushClaim(p)
      PROVE  Claimed'
  <2>1. /\ UNCHANGED <<published, pushes>> /\ ppc[p] = "entered"
        /\ \A q \in Producers \ {p} : ppc'[q] = ppc[q]
    BY <1>4, ClaimStep
  <2>2. ASSUME NEW n \in 1 .. Len(log), log'[n] = log[n]
        PROVE  n \in published \/ \E q \in Producers : ppc'[q] = "claimed" /\ log'[n] = Entry(q)'
    <3>1. CASE n \in published
      BY <3>1
    <3>2. ASSUME NEW q \in Producers, ppc[q] = "claimed", log[n] = Entry(q)
          PROVE  ppc'[q] = "claimed" /\ log'[n] = Entry(q)'
      BY <2>1, <2>2, <3>2 DEF Entry
    <3> QED
      BY <3>1, <3>2 DEF Claimed
  <2>3. CASE log' = log
    BY <2>1, <2>2, <2>3 DEF Claimed
  <2>4. CASE /\ ppc'[p] = "claimed"
             /\ Len(log') = Len(log) + 1 /\ log'[Len(log) + 1] = Entry(p)
             /\ \A n \in 1 .. Len(log) : log'[n] = log[n]
    <3>1. ASSUME NEW n \in 1 .. Len(log')
          PROVE  n \in published \/ \E q \in Producers : ppc'[q] = "claimed" /\ log'[n] = Entry(q)'
      <4>1. CASE n \in 1 .. Len(log)
        BY <2>2, <2>4, <4>1
      <4>2. CASE n = Len(log) + 1
        BY <2>1, <2>4, <4>2 DEF Entry
      <4> QED
        BY <1>0, <2>4, <4>1, <4>2
    <3> QED
      BY <2>1, <3>1 DEF Claimed
  <2> QED
    BY <1>4, <2>3, <2>4, ClaimStep
<1>5. ASSUME NEW p \in Producers, PushPublish(p)
      PROVE  Claimed'
  <2>1. /\ UNCHANGED <<log, pushes>> /\ ppc' = [ppc EXCEPT ![p] = "idle"]
    BY <1>5 DEF PushPublish, Q!Publish
  <2>2. PICK m \in 1 .. Len(log) : log[m] = Entry(p) /\ published' = published \cup {m}
    BY <1>5 DEF PushPublish, Q!Publish
  <2>3. ASSUME NEW n \in 1 .. Len(log), n \notin published'
        PROVE  \E q \in Producers : ppc'[q] = "claimed" /\ log[n] = Entry(q)
    <3>1. PICK q \in Producers : ppc[q] = "claimed" /\ log[n] = Entry(q)
      BY <2>2, <2>3 DEF Claimed
    <3>2. q # p
      BY <2>2, <2>3, <3>1, OnePlaceEach
    <3> QED
      BY <1>0, <2>1, <3>1, <3>2
  <2>4. \A q \in Producers : Entry(q)' = Entry(q)
    BY <2>1 DEF Entry
  <2> QED
    BY <2>1, <2>3, <2>4 DEF Claimed
<1>6. DrainPop \/ FinalPop \/ DrainWrite \/ FinalEnd \/ Quiet => UNCHANGED <<log, published, ppc, pushes>>
  BY DEF DrainPop, FinalPop, DrainWrite, FinalEnd, Quiet, Q!Deliver, queueVars
<1> QED
  BY <1>1, <1>2, <1>3, <1>4, <1>5, <1>6, StepKinds

\* An accepted entry stays published in the log.
LEMMA AcceptedInLogStep ==
  ASSUME Typed, AcceptedInLog, [Next]_vars
  PROVE  AcceptedInLog'
<1>0. published \subseteq 1 .. Len(log)
  BY DEF Typed, LoggerTypeOK
<1>1. CASE InitQueue
  BY <1>1 DEF InitQueue, AcceptedInLog
<1>2. CASE UNCHANGED <<published, accepted>> /\ \A n \in 1 .. Len(log) : log'[n] = log[n]
  BY <1>0, <1>2 DEF AcceptedInLog
<1>3. ASSUME NEW p \in Producers, PushPublish(p)
      PROVE  AcceptedInLog'
  BY <1>3 DEF PushPublish, Q!Publish, AcceptedInLog
<1>4. ASSUME NEW p \in Producers
      PROVE  PushClaim(p) => UNCHANGED <<published, accepted>> /\ \A n \in 1 .. Len(log) : log'[n] = log[n]
  BY ClaimStep
<1>5. ASSUME NEW p \in Producers
      PROVE  PushEnter(p) => UNCHANGED <<log, published, accepted>>
  BY DEF PushEnter, queueVars
<1>6. DrainPop \/ FinalPop \/ DrainWrite \/ FinalEnd \/ Quiet => UNCHANGED <<log, published, accepted>>
  BY DEF DrainPop, FinalPop, DrainWrite, FinalEnd, Quiet, Q!Deliver, queueVars
<1> QED
  BY <1>1, <1>2, <1>3, <1>4, <1>5, <1>6, StepKinds

\* What was read is written or refused, but for the entry in hand.
LEMMA ReadIsWrittenStep ==
  ASSUME Typed, GotIsLog, ReadIsWritten, [Next]_vars
  PROVE  ReadIsWritten'
<1>0. Len(got[Drain]) \in Nat /\ written \in Seq(Entries)
  BY DEF Typed, LoggerTypeOK
<1>1. CASE InitQueue
  <2>1. Len(got'[Drain]) = 0
    BY <1>1 DEF InitQueue
  <2> QED
    BY <2>1 DEF ReadIsWritten
<1>2. CASE UNCHANGED <<got, written, refused>> /\ (Writing => Writing')
  BY <1>2 DEF ReadIsWritten, Written
<1>3. CASE DrainPop \/ FinalPop
  <2>1. /\ UNCHANGED <<written, refused>> /\ ~Writing /\ Writing'
        /\ Len(got'[Drain]) = Len(got[Drain]) + 1
        /\ \A n \in 1 .. Len(got[Drain]) : got'[Drain][n] = got[Drain][n]
    BY <1>3, PopStep
  <2>2. ASSUME NEW n \in 1 .. Len(got[Drain]) + 1
        PROVE  n \in 1 .. Len(got[Drain]) \/ n = Len(got'[Drain])
    BY <1>0, <2>1
  <2> QED
    BY <2>1, <2>2 DEF ReadIsWritten, Written
<1>4. CASE DrainWrite
  <2>1. /\ UNCHANGED got /\ Writing /\ Len(got[Drain]) \in 1 .. Len(log)
        /\ Popped = got[Drain][Len(got[Drain])]
        /\ \/ written' = Append(written, Popped) /\ refused' = refused
           \/ written' = written /\ refused' = refused \cup {Popped}
    BY <1>4, WriteStep
  <2>2. Written \cup refused \cup {Popped} \subseteq Written' \cup refused'
    <3>1. CASE written' = Append(written, Popped) /\ refused' = refused
      <4>1. Popped \in Entries
        BY <2>1, LogEntry DEF GotIsLog
      <4>2. /\ DOMAIN written' = DOMAIN written \cup {Len(written) + 1}
            /\ written'[Len(written) + 1] = Popped
            /\ \A i \in DOMAIN written : written'[i] = written[i]
        BY <1>0, <3>1, <4>1
      <4> QED
        BY <3>1, <4>2 DEF Written
    <3>2. CASE written' = written /\ refused' = refused \cup {Popped}
      BY <3>2 DEF Written
    <3> QED
      BY <2>1, <3>1, <3>2
  <2> QED
    BY <2>1, <2>2 DEF ReadIsWritten
<1>5. ASSUME NEW p \in Producers
      PROVE  PushEnter(p) \/ PushClaim(p) \/ PushPublish(p) =>
               UNCHANGED <<got, written, refused>> /\ (Writing => Writing')
  <2>1. PushEnter(p) \/ PushPublish(p) => UNCHANGED <<got, written, refused, dpc>>
    BY DEF PushEnter, PushPublish, Q!Publish, queueVars, drainVars
  <2>2. PushClaim(p) => UNCHANGED <<got, written, refused, dpc>>
    BY ClaimStep
  <2> QED
    BY <2>1, <2>2 DEF Writing
<1>6. FinalEnd \/ Quiet => UNCHANGED <<got, written, refused>> /\ (Writing => Writing')
  BY DEF FinalEnd, DrainGoto, Quiet, queueVars, Writing
<1> QED
  BY <1>1, <1>2, <1>3, <1>4, <1>5, <1>6, StepKinds

\* The drain thread leaves only when it has read all that was claimed.
LEMMA DrainedStep ==
  ASSUME NoStragglers, Typed, HeldNow, GotIsLog, Claimed, DrainedAtExit, [Next]_vars
  PROVE  DrainedAtExit'
<1>0. Len(log) \in Nat /\ Len(got[Drain]) \in Nat
  BY DEF Typed, LoggerTypeOK
<1>1. CASE InitQueue
  <2>1. Len(log') = 0 /\ Len(got'[Drain]) = 0
    BY <1>1 DEF InitQueue
  <2> QED
    BY <2>1 DEF DrainedAtExit
<1>2. CASE UNCHANGED <<log, got>> /\ (dpc' \in {"none", "exit"} => dpc' = dpc)
  BY <1>2 DEF DrainedAtExit
<1>3. ASSUME NEW p \in Producers, PushClaim(p)
      PROVE  dpc' = dpc /\ dpc \notin {"none", "exit"}
  <2>1. initialized
    BY <1>3, ClaimStep DEF HeldNow
  <2> QED
    BY <1>3, <2>1, ClaimStep DEF Typed, Phases, Open
<1>4. DrainPop \/ FinalPop \/ DrainWrite => dpc' \notin {"none", "exit"}
  BY DEF DrainPop, FinalPop, DrainWrite, DrainGoto
<1>5. CASE FinalEnd
  <2>1. dpc = "final" /\ UNCHANGED <<log, got>> /\ Len(got[Drain]) + 1 \notin published
    BY <1>5 DEF FinalEnd, DrainGoto, NothingReady, queueVars
  <2>2. ~initialized
    BY <2>1 DEF Typed, Phases, Open
  <2>3. ~\E p \in Producers : ppc[p] = "claimed"
    BY <2>2 DEF HeldNow
  <2>4. \A n \in 1 .. Len(log) : n \in published
    BY <2>3 DEF Claimed
  <2>5. Len(got[Drain]) = Len(log)
    BY <1>0, <2>1, <2>4 DEF GotIsLog
  <2> QED
    BY <2>1, <2>5 DEF DrainedAtExit
<1>6. ASSUME NEW p \in Producers
      PROVE  PushEnter(p) \/ PushPublish(p) => UNCHANGED <<log, got, dpc>>
  BY DEF PushEnter, PushPublish, Q!Publish, queueVars, drainVars
<1>7. Quiet => UNCHANGED <<log, got>> /\ (dpc' \in {"none", "exit"} => dpc' = dpc)
  BY DEF Quiet
<1> QED
  BY <1>1, <1>2, <1>3, <1>4, <1>5, <1>6, <1>7, StepKinds DEF DrainedAtExit

\* After a shutdown has returned the logger stays closed until init.
LEMMA ClosedStep ==
  ASSUME Typed, ClosedOnceReturned, [Next]_vars
  PROVE  ClosedOnceReturned'
<1>0. cpc \in [Closers -> CallerPcs] /\ Main \in Closers
  BY LoggerAssumption DEF Typed, LoggerTypeOK, CallerPcs, InitPcs
<1>1. CASE InitQueue
  BY <1>1 DEF InitQueue, ClosedOnceReturned
<1>2. CASE UNCHANGED <<returned, initialized, cpc>>
  BY <1>2 DEF ClosedOnceReturned, InInit
<1>3. CASE InitStep
  BY <1>0, <1>3 DEF InitStep, InitSink, InitStart, InitDone, CallerGoto, ClosedOnceReturned, InInit
<1>4. ASSUME NEW c \in Closers, Shutdown(c) \/ ShutdownSkipped(c)
      PROVE  ClosedOnceReturned'
  BY <1>0, <1>4 DEF Shutdown, ShutdownSkipped, ExchangeInitialized, MayClose, CallerGoto,
     ClosedOnceReturned, InInit
<1>5. ASSUME NEW c \in Closers, ShutdownStep(c)
      PROVE  ClosedOnceReturned'
  <2>1. /\ cpc[c] \notin {"idle", "init_sink", "init_start", "init_done"}
        /\ initialized' = initialized
        /\ \E pc \in CallerPcs \ {"init_sink", "init_start", "init_done"} : cpc' = [cpc EXCEPT ![c] = pc]
    BY <1>5 DEF ShutdownStep, ShutdownStop, ShutdownJoin, ShutdownUnregister, ShutdownResetQueue,
                ShutdownResetSink, CallerGoto, CallerPcs
  <2>2. ~initialized /\ (c # Main => cpc[Main] = "idle")
    BY <1>0, <2>1 DEF Typed, OneCaller
  <2>3. cpc'[Main] \notin {"init_sink", "init_start", "init_done"}
    BY <1>0, <2>1, <2>2
  <2> QED
    BY <2>1, <2>2, <2>3 DEF ClosedOnceReturned, InInit
<1>6. SetLevel \/ DrainStep \/ (\E p \in Producers : PushEnter(p) \/ PushStep(p)) \/ UNCHANGED vars =>
        UNCHANGED <<returned, initialized, cpc>>
  BY DEF SetLevel, DrainStep, DrainPop, DrainWrite, DrainEndBatch, DrainCheckStop, FinalPop,
     FinalEnd,
         PushStep, PushEnter, PushClaim, PushPublish, vars
<1> QED
  BY <1>1, <1>2, <1>3, <1>4, <1>5, <1>6 DEF Next

\* Nothing is on its way at the start.
LEMMA FlowInit == Init => Flow
<1> SUFFICES ASSUME Init PROVE Flow
  OBVIOUS
<1>1. Len(log) = 0 /\ Len(got[Drain]) = 0
  BY DEF Init
<1> QED
  BY <1>1 DEF Init, Flow, Claimed, AcceptedInLog, ReadIsWritten, DrainedAtExit, ClosedOnceReturned

\* When all is shut down, every entry whose push returned true was given to the sink.
THEOREM AcceptedReachSinkWithoutStragglers ==
  ASSUME NoStragglers
  PROVE  Spec => []AcceptedReachSink
<1> DEFINE I == Typed /\ Fifo /\ HeldNow /\ Flow
<1>1. Init => I
  BY TypedInit, FifoInit, FlowInit DEF Init, HeldNow
<1>2. I /\ [Next]_vars => I'
  <2>1. I /\ [Next]_vars => Typed' /\ Fifo' /\ HeldNow'
    BY TypedStep, LogOrderedStep, GotIsLogStep, WrittenStep, HeldStep DEF Fifo
  <2>2. I /\ [Next]_vars => Flow'
    BY ClaimedStep, AcceptedInLogStep, ReadIsWrittenStep, DrainedStep, ClosedStep DEF Flow, Fifo
  <2> QED
    BY <2>1, <2>2
<1>3. I => AcceptedReachSink
  <2> SUFFICES ASSUME I, returned # {}, ClosersIdle, NEW e \in accepted
               PROVE  e \in Written \cup refused
    BY DEF AcceptedReachSink
  <2>1. dpc \in {"none", "exit"}
    BY DEF Flow, ClosedOnceReturned, ClosersIdle, Typed, Phases, Open
  <2>2. Len(got[Drain]) = Len(log)
    BY <2>1 DEF Flow, DrainedAtExit
  <2>3. PICK n \in 1 .. Len(log) : log[n] = e
    BY DEF Flow, AcceptedInLog, Typed, LoggerTypeOK
  <2>4. got[Drain][n] = e
    BY <2>2, <2>3 DEF Fifo, GotIsLog
  <2>5. ~Writing
    BY <2>1 DEF Writing
  <2> QED
    BY <2>2, <2>3, <2>4, <2>5 DEF Flow, ReadIsWritten
<1> HIDE DEF I
<1> QED
  BY <1>1, <1>2, <1>3, PTL DEF Spec
===============================================================================
