--------------------------------- MODULE Bench ---------------------------------
(***************************************************************************)
(* The programs under bench/ that drive the queue: the only complete       *)
(* clients in the repository, and the protocol any program needs to get    *)
(* everything out of the queue and come to an end.                         *)
(*                                                                         *)
(* The queue is BroadcastQueue, which MpmcQueue implements; refreshing its *)
(* cached minimum has no effect there, so a refresh is only a step.  A     *)
(* driver runs once, as one iteration of its benchmark.                    *)
(***************************************************************************)
EXTENDS Integers, Sequences, FiniteSets

CONSTANTS
  Producers, Consumers,   \* threads
  Main,                   \* a producer: the benchmark's own thread, when it pushes
  First,                  \* the consumer, where there is one
  SIZE,
  OPS,                    \* OPS_PER_PRODUCER, pushes of the other producers
  ITERS,                  \* of bench_rdtsc
  ROUNDS                  \* iterations of BM_QueuePop

\* bench_rdtsc pushes everything before it pops anything, and spins when the
\* queue is full: 100000 entries into 2^18 slots.
ASSUME BenchAssumption ==
  /\ Main \in Producers /\ First \in Consumers
  /\ IsFiniteSet(Producers)
  /\ SIZE \in Nat \ {0} /\ OPS \in Nat /\ ROUNDS \in Nat
  /\ ITERS \in 1 .. SIZE

VARIABLES
  log, published, got, members,   \* the queue (BroadcastQueue)
  driver,       \* the benchmark that runs
  main,         \* where its own thread is
  ppc, made,    \* producers: program counter, pushes made
  cpc,          \* consumers
  hpc,          \* the helper of BM_ConsumerScaling
  stop,         \* stop, producers_done
  rounds        \* iterations of BM_QueuePop so far

queueVars == <<log, published, got, members>>
vars == <<log, published, got, members, driver, main, ppc, made, cpc, hpc, stop, rounds>>

Drivers == {"ProducerScaling", "ConsumerScaling", "QueuePush_1P", "QueuePush_NP",
            "PushLatency", "QueuePop", "rdtsc"}

\* Their drain thread leaves what is published after its last look.
NoFinalDrain == {"QueuePush_1P", "QueuePush_NP", "PushLatency"}

\* They push once and do not look whether it was accepted, or not try again.
PushOnce == {"QueuePush_1P", "PushLatency", "QueuePop"}

Entries == Producers \X (1 .. SIZE + OPS + ROUNDS)

Q == INSTANCE BroadcastQueue

Pushing == IF driver \in {"ProducerScaling", "ConsumerScaling"} THEN Producers ELSE {Main}
Reading == IF driver = "ConsumerScaling" THEN Consumers ELSE {First}

\* Pushes a producer has to make by now: BM_QueuePop leaves one slot free, then
\* makes one push per round.
Due == CASE driver = "QueuePop" -> SIZE - 1 + rounds
         [] driver = "rdtsc"    -> ITERS
         [] OTHER               -> OPS

TOTAL == Cardinality(Producers) * OPS

Init ==
  /\ log = <<>> /\ published = {} /\ got = [c \in Consumers |-> <<>>] /\ members = {}
  /\ driver \in Drivers /\ main = "register"
  /\ ppc = [p \in Producers |-> "none"] /\ made = [p \in Producers |-> 0]
  /\ cpc = [c \in Consumers |-> "none"] /\ hpc = "none"
  /\ stop = FALSE /\ rounds = 0

\* Consumers register, then the threads start.
Register(c) ==
  /\ main = "register"
  /\ c \in Reading \ members
  /\ Q!Join(c)
  /\ UNCHANGED <<driver, main, ppc, made, cpc, hpc, stop, rounds>>

Sequential == driver \in {"QueuePop", "rdtsc"}

Begin ==
  /\ main = "register" /\ members = Reading
  /\ main' = IF Sequential THEN "fill" ELSE "join_producers"
  /\ ppc' = [p \in Producers |-> IF p \in Pushing THEN "push" ELSE "none"]
  /\ cpc' = [c \in Consumers |-> CASE Sequential \/ c \notin Reading -> "none"
                                   [] driver = "ConsumerScaling"    -> "count"
                                   [] OTHER                         -> "check"]
  /\ hpc' = IF driver = "ConsumerScaling" THEN "loop" ELSE "none"
  /\ UNCHANGED <<queueVars, driver, made, stop, rounds>>

-----------------------------------------------------------------------------
(***************************************************************************)
(* Producers: `while (!q.push(entry)) yield`, or one attempt.              *)
(***************************************************************************)
IsFull == \E c \in members : Len(log) >= Len(got[c]) + SIZE

ProducerClaims(p) ==
  /\ ppc[p] = "push" /\ made[p] < Due
  /\ Q!Claim(<<p, made[p] + 1>>)
  /\ ppc' = [ppc EXCEPT ![p] = "publish"]
  /\ UNCHANGED <<driver, main, made, cpc, hpc, stop, rounds>>

ProducerPublishes(p) ==
  /\ ppc[p] = "publish"
  /\ \E n \in 1 .. Len(log) : log[n] = <<p, made[p] + 1>> /\ Q!Publish(n)
  /\ ppc' = [ppc EXCEPT ![p] = "push"]
  /\ made' = [made EXCEPT ![p] = @ + 1]
  /\ UNCHANGED <<driver, main, cpc, hpc, stop, rounds>>

\* The entry is dropped; the others try again.
ProducerGivesUp(p) ==
  /\ driver \in PushOnce
  /\ ppc[p] = "push" /\ made[p] < Due
  /\ IsFull
  /\ made' = [made EXCEPT ![p] = @ + 1]
  /\ UNCHANGED <<queueVars, driver, main, ppc, cpc, hpc, stop, rounds>>

Pushed == \A p \in Pushing : ppc[p] = "push" /\ made[p] = Due

-----------------------------------------------------------------------------
(***************************************************************************)
(* Consumers.                                                              *)
(***************************************************************************)
Empty(c) == Len(got[c]) + 1 \notin published

ConsumerGoto(c, from, to) == cpc[c] = from /\ cpc' = [cpc EXCEPT ![c] = to]

\* `while (pop) {}` of the drain thread and of its final drain
DrainerPops(c) ==
  /\ cpc[c] \in {"pop", "final"}
  /\ Q!Deliver(c)
  /\ UNCHANGED <<driver, main, ppc, made, cpc, hpc, stop, rounds>>

AfterStop_Exit == "exit"
AfterStop == IF driver \in NoFinalDrain THEN "exit" ELSE "final"

DrainerChecks(c) ==
  /\ ConsumerGoto(c, "check", IF stop THEN AfterStop ELSE "pop")
  /\ UNCHANGED <<queueVars, driver, main, ppc, made, hpc, stop, rounds>>

\* The drain thread refreshes the minimum and looks at stop again.
DrainerEmpty(c) ==
  /\ Empty(c)
  /\ ConsumerGoto(c, "pop", "check") \/ ConsumerGoto(c, "final", "exit")
  /\ UNCHANGED <<queueVars, driver, main, ppc, made, hpc, stop, rounds>>

Wanted_OneMore == TOTAL + 1
\* how many entries a consumer of BM_ConsumerScaling waits for
Wanted == TOTAL

CounterPops(c) ==
  /\ cpc[c] = "count" /\ Len(got[c]) < Wanted
  /\ Q!Deliver(c)
  /\ UNCHANGED <<driver, main, ppc, made, cpc, hpc, stop, rounds>>

CounterEnds(c) ==
  /\ Len(got[c]) >= Wanted
  /\ ConsumerGoto(c, "count", "exit")
  /\ UNCHANGED <<queueVars, driver, main, ppc, made, hpc, stop, rounds>>

\* It refreshes until the producers are done, and a thousand times after.
Helper ==
  /\ \/ hpc = "loop" /\ hpc' = IF stop THEN "last" ELSE "loop"
     \/ hpc = "last" /\ hpc' = "exit"
  /\ UNCHANGED <<queueVars, driver, main, ppc, made, cpc, stop, rounds>>

-----------------------------------------------------------------------------
(***************************************************************************)
(* The benchmark's own thread.                                             *)
(***************************************************************************)
JoinProducers ==
  /\ main = "join_producers" /\ Pushed
  /\ main' = "join_rest"
  /\ stop' = TRUE
  /\ UNCHANGED <<queueVars, driver, ppc, made, cpc, hpc, rounds>>

JoinRest ==
  /\ main = "join_rest"
  /\ \A c \in Reading : cpc[c] = "exit"
  /\ hpc \in {"none", "exit"}
  /\ main' = "done"
  /\ UNCHANGED <<queueVars, driver, ppc, made, cpc, hpc, stop, rounds>>

Filled ==
  /\ main = "fill" /\ Pushed
  /\ main' = "take"
  /\ UNCHANGED <<queueVars, driver, ppc, made, cpc, hpc, stop, rounds>>

\* bench_rdtsc spins until the pop succeeds.
TakeAll ==
  /\ driver = "rdtsc" /\ main = "take"
  /\ Q!Deliver(First)
  /\ main' = IF Len(got'[First]) = ITERS THEN "done" ELSE "take"
  /\ UNCHANGED <<driver, ppc, made, cpc, hpc, stop, rounds>>

\* BM_QueuePop pops, refreshes and pushes; an empty queue is an error.
TakeOne ==
  /\ driver = "QueuePop" /\ main = "take" /\ rounds < ROUNDS
  /\ \/ /\ Q!Deliver(First)
        /\ rounds' = rounds + 1
        /\ main' = "fill"
     \/ /\ Empty(First)
        /\ main' = "Queue empty unexpectedly"
        /\ UNCHANGED <<queueVars, rounds>>
  /\ UNCHANGED <<driver, ppc, made, cpc, hpc, stop>>

RoundsOver ==
  /\ driver = "QueuePop" /\ main = "take" /\ rounds = ROUNDS
  /\ main' = "done"
  /\ UNCHANGED <<queueVars, driver, ppc, made, cpc, hpc, stop, rounds>>

-----------------------------------------------------------------------------
ProducerStep(p) == ProducerClaims(p) \/ ProducerPublishes(p) \/ ProducerGivesUp(p)

ConsumerStep(c) == \/ DrainerPops(c) \/ DrainerChecks(c) \/ DrainerEmpty(c)
                   \/ CounterPops(c) \/ CounterEnds(c)

MainStep == \/ \E c \in Consumers : Register(c)
            \/ Begin \/ JoinProducers \/ JoinRest
            \/ Filled \/ TakeAll \/ TakeOne \/ RoundsOver

Next ==
  \/ MainStep
  \/ Helper
  \/ \E p \in Producers : ProducerStep(p)
  \/ \E c \in Consumers : ConsumerStep(c)

\* Every thread is scheduled again and again.
Fairness ==
  /\ WF_vars(MainStep)
  /\ WF_vars(Helper)
  /\ \A p \in Producers : WF_vars(ProducerStep(p))
  /\ \A c \in Consumers : WF_vars(ConsumerStep(c))

Spec == Init /\ [][Next]_vars /\ Fairness

-----------------------------------------------------------------------------
(***************************************************************************)
(* LatencyHistogram::report: the sample it prints for the percentile       *)
(* num/den of n samples, counted from 0.                                   *)
(***************************************************************************)
Index(n, num, den) == (n * num) \div den

\* p50, p90, p99, p99.9, p99.99
Printed(n) == <<Index(n, 50, 100), Index(n, 90, 100), Index(n, 99, 100),
                Index(n, 999, 1000), Index(n, 9999, 10000)>>

-----------------------------------------------------------------------------
(***************************************************************************)
(* Properties.                                                             *)
(***************************************************************************)

\* Entries of the log that c has not been given.
Left(c) == Len(log) - Len(got[c])

\* When a driver has joined its threads, every consumer has been given a first
\* part of the log, in its order, and every push is in the log (but those that
\* BM_QueuePush_1P and BM_PushLatency made once and did not look at).  The drain
\* threads with a final drain, the counting consumers and bench_rdtsc leave
\* nothing behind: the last entries are published after a drain thread last found
\* the queue empty (bench_contention.cpp:39-41, :124, bench_rdtsc.cpp:81).  The
\* three drivers without a final drain do leave entries behind, the last ones and
\* at most a queue full of them (bench_queue_throughput.cpp:37-43, :79-85,
\* bench_queue_latency.cpp:58-64).  BM_QueuePop keeps all slots but one occupied
\* and never meets the empty queue it reports (bench_queue_throughput.cpp:122-129).
AllAccountedFor ==
  /\ main = "done" =>
       /\ \A c \in Reading : got[c] = SubSeq(log, 1, Len(got[c]))
       /\ Len(log) <= Cardinality(Pushing) * Due
       /\ driver \notin NoFinalDrain \cap PushOnce => Len(log) = Cardinality(Pushing) * Due
       /\ \A c \in Reading :
            CASE driver = "QueuePop"      -> Left(c) = SIZE - 1
              [] driver \in NoFinalDrain -> Left(c) <= SIZE
              [] OTHER                   -> Left(c) = 0
  /\ main # "Queue empty unexpectedly"

\* Every driver comes to an end: no producer spins for ever on a full queue, no
\* consumer waits for an entry that never comes, every loop sees its flag
\* (bench_contention.cpp:35, :58, :124, :139).
Finishes == <>(main = "done")
=============================================================================
