------------------------------ MODULE BenchProofs ------------------------------
(***************************************************************************)
(* The drivers of Bench get everything out of the queue, or all but its    *)
(* last entries, and the latency report prints samples, for any number of  *)
(* threads, pushes, slots and samples.                                     *)
(***************************************************************************)
EXTENDS Bench, FiniteSetTheorems, SequenceTheorems, TLAPS

\* Every index into the sorted samples is in range, and the percentiles do not
\* decrease from p50 to p99.99 (bench_queue_latency.cpp:35-39,
\* bench_rdtsc.cpp:42-45).
THEOREM PercentilesInRange ==
  ASSUME NEW n \in Nat \ {0}
  PROVE  /\ Printed(n) \in Seq(0 .. n - 1)
         /\ \A i, j \in 1 .. 5 : i < j => Printed(n)[i] <= Printed(n)[j]
<1> DEFINE a == Index(n, 50, 100)
           b == Index(n, 90, 100)
           c == Index(n, 99, 100)
           d == Index(n, 999, 1000)
           e == Index(n, 9999, 10000)
<1>1. a \in Nat /\ b \in Nat /\ c \in Nat /\ d \in Nat /\ e \in Nat
  BY DEF Index
<1>2. a <= b /\ b <= c
  BY DEF Index
<1>3. c <= d
  BY DEF Index
<1>4. d <= e
  BY DEF Index
<1>5. e < n
  BY DEF Index
<1> HIDE DEF a, b, c, d, e
<1>6. a \in 0 .. n - 1 /\ b \in 0 .. n - 1 /\ c \in 0 .. n - 1 /\ d \in 0 .. n - 1 /\ e \in 0 .. n - 1
  BY <1>1, <1>2, <1>3, <1>4, <1>5
<1>7. Printed(n) = <<a, b, c, d, e>>
  BY DEF Printed, a, b, c, d, e
<1> QED
  BY <1>1, <1>2, <1>3, <1>4, <1>6, <1>7

-----------------------------------------------------------------------------
(***************************************************************************)
(* The drivers that get everything out of the queue.                       *)
(*                                                                         *)
(* BenchInv is inductive, in a driver whose producers repeat a refused     *)
(* push, or whose one producer is never refused.  That the reader has been *)
(* given everything rests on what is in the log: each push made, once, and *)
(* readable but for the one its producer is about to publish.              *)
(***************************************************************************)
Item == Producers \X Nat

\* Pushes of p that have a place in the log.
Claimed(p) == IF ppc[p] = "publish" THEN made[p] + 1 ELSE made[p]

BenchTypeOK ==
  /\ log \in Seq(Item) /\ published \subseteq 1 .. Len(log)
  /\ got \in [Consumers -> Seq(Item)] /\ members \subseteq Reading
  /\ driver \in Drivers
  /\ main \in {"register", "fill", "take", "join_producers", "join_rest", "done"}
  /\ ppc \in [Producers -> {"none", "push", "publish"}]
  /\ made \in [Producers -> Nat]
  /\ cpc \in [Consumers -> {"none", "check", "pop", "final", "count", "exit"}]
  /\ stop \in BOOLEAN /\ rounds \in Nat

\* Which threads run, and what the benchmark's own thread knows of them.
Threads ==
  /\ \A p \in Producers \ Pushing : ppc[p] = "none"
  /\ \A p \in Pushing : Claimed(p) <= Due
  /\ main = "register" => \A p \in Producers : ppc[p] = "none"
  /\ main = "register" => ~stop /\ \A c \in Consumers : cpc[c] = "none"
  /\ main # "register" => members = Reading
  /\ main \in {"fill", "take"} => Sequential
  /\ main \in {"join_producers", "join_rest"} => ~Sequential
  /\ main \in {"join_rest", "done"} /\ ~Sequential => stop
  /\ Sequential => ~stop /\ \A c \in Consumers : cpc[c] = "none"
  /\ Sequential /\ main \in {"take", "done"} => Pushed
  /\ stop => Pushed

\* The log holds each push made once.
Logged ==
  /\ \A m, n \in 1 .. Len(log) : log[m] = log[n] => m = n
  /\ \A n \in 1 .. Len(log) : \E p \in Pushing : \E k \in 1 .. Claimed(p) : log[n] = <<p, k>>
  /\ \A p \in Pushing : \A k \in 1 .. Claimed(p) : \E n \in 1 .. Len(log) : log[n] = <<p, k>>
  /\ \A n \in 1 .. Len(log) : n \notin published =>
       \E p \in Pushing : ppc[p] = "publish" /\ log[n] = <<p, made[p] + 1>>
  /\ Sequential => Len(log) = Claimed(Main)

\* What each consumer has been given, and when it leaves.
Given ==
  /\ \A c \in Consumers : Len(got[c]) <= Len(log) /\ \A n \in 1 .. Len(got[c]) : got[c][n] = log[n]
  /\ \A c \in Consumers :
       /\ cpc[c] = "final" => stop
       /\ driver = "ConsumerScaling" => cpc[c] \in {"none", "count", "exit"}
       /\ driver # "ConsumerScaling" => cpc[c] # "count"
       /\ cpc[c] = "exit" /\ driver = "ConsumerScaling" => Len(got[c]) >= TOTAL
       /\ cpc[c] = "exit" /\ driver # "ConsumerScaling" => stop /\ Len(got[c]) = Len(log)
  /\ main = "done" /\ ~Sequential => \A c \in Reading : cpc[c] = "exit"
  /\ driver = "QueuePop" => Len(got[First]) = rounds
  /\ driver = "rdtsc" /\ main = "done" => Len(got[First]) = ITERS

BenchInv == driver \notin NoFinalDrain => BenchTypeOK /\ Threads /\ Logged /\ Given

Kept == driver \notin NoFinalDrain

\* The constants of one run of a driver.
LEMMA DriverFixed ==
  ASSUME Next \/ UNCHANGED vars
  PROVE  /\ driver' = driver /\ Pushing' = Pushing /\ Reading' = Reading
         /\ Sequential' = Sequential /\ Kept' = Kept
         /\ rounds' = rounds => Due' = Due
<1>1. driver' = driver
  BY DEF Next, MainStep, Helper, ProducerStep, ConsumerStep, Register, Begin, JoinProducers,
    JoinRest, Filled, TakeAll, TakeOne, RoundsOver, ProducerClaims, ProducerPublishes,
    ProducerGivesUp, DrainerPops, DrainerChecks, DrainerEmpty, CounterPops, CounterEnds, vars
<1> QED
  BY <1>1 DEF Pushing, Reading, Sequential, Kept, Due

\* What the steps below use of BenchInv.
LEMMA BenchTyped ==
  ASSUME BenchInv, Kept
  PROVE  /\ BenchTypeOK /\ Threads /\ Logged /\ Given
         /\ Pushing \subseteq Producers /\ Reading \subseteq Consumers
         /\ Len(log) \in Nat /\ Due \in Nat
         /\ \A c \in Consumers : got[c] \in Seq(Item) /\ Len(got[c]) \in Nat
         /\ \A p \in Producers : made[p] \in Nat /\ Claimed(p) \in Nat
<1> USE BenchAssumption
<1>1. BenchTypeOK /\ Threads /\ Logged /\ Given
  BY DEF BenchInv, Kept
<1>2. Len(log) \in Nat /\ rounds \in Nat
  BY <1>1 DEF BenchTypeOK
<1>3. \A c \in Consumers : got[c] \in Seq(Item) /\ Len(got[c]) \in Nat
  BY <1>1 DEF BenchTypeOK
<1>4. \A p \in Producers : made[p] \in Nat /\ Claimed(p) \in Nat
  BY <1>1 DEF BenchTypeOK, Claimed
<1>5. Due \in Nat
  BY <1>2 DEF Due
<1> QED
  BY <1>1, <1>2, <1>3, <1>4, <1>5 DEF Pushing, Reading

\* A step that claims and publishes nothing leaves the log as it is.
LEMMA LoggedSame ==
  ASSUME Logged, UNCHANGED <<log, published, ppc, made, driver>>
  PROVE  Logged'
<1>1. Pushing' = Pushing /\ Sequential' = Sequential
  BY DEF Pushing, Sequential
<1>2. \A p : Claimed(p)' = Claimed(p)
  BY DEF Claimed
<1>3. /\ \A m, n \in 1 .. Len(log') : log'[m] = log'[n] => m = n
      /\ \A n \in 1 .. Len(log') :
           \E p \in Pushing : \E k \in 1 .. Claimed(p) : log'[n] = <<p, k>>
      /\ \A p \in Pushing : \A k \in 1 .. Claimed(p) :
           \E n \in 1 .. Len(log') : log'[n] = <<p, k>>
  BY DEF Logged
<1>4. \A n \in 1 .. Len(log') : n \notin published' =>
        \E p \in Pushing : ppc'[p] = "publish" /\ log'[n] = <<p, made'[p] + 1>>
  BY DEF Logged
<1>5. Sequential => Len(log') = Claimed(Main)
  BY DEF Logged
<1> QED
  BY <1>1, <1>2, <1>3, <1>4, <1>5 DEF Logged

\* A consumer registers.
LEMMA RegisterKeeps ==
  ASSUME BenchInv, Kept, NEW c \in Consumers, Register(c)
  PROVE  BenchTypeOK' /\ Threads' /\ Logged' /\ Given'
<1> USE BenchAssumption
<1>1. /\ main = "register" /\ members' = members \cup {c} /\ c \in Reading
      /\ UNCHANGED <<log, published, got, driver, main, ppc, made, cpc, hpc, stop, rounds>>
  BY DEF Register, Q!Join
<1>2. BenchTypeOK /\ Threads /\ Logged /\ Given
  BY BenchTyped
<1>3. Pushing' = Pushing /\ Reading' = Reading /\ Sequential' = Sequential /\ Due' = Due
      /\ \A p \in Producers : Claimed(p)' = Claimed(p)
  BY <1>1 DEF Pushing, Reading, Sequential, Due, Claimed
<1>4. BenchTypeOK'
  BY <1>1, <1>2, <1>3 DEF BenchTypeOK
<1>5. Threads'
  BY <1>1, <1>2, <1>3, BenchTyped DEF Threads, Pushed
<1>6. Logged'
  BY <1>1, <1>2, LoggedSame
<1>7. Given'
  BY <1>1, <1>2, <1>3 DEF Given
<1> QED
  BY <1>4, <1>5, <1>6, <1>7

\* The threads start.
LEMMA BeginKeeps ==
  ASSUME BenchInv, Kept, Begin
  PROVE  BenchTypeOK' /\ Threads' /\ Logged' /\ Given'
<1> USE BenchAssumption
<1>1. /\ main = "register" /\ members = Reading
      /\ main' = IF Sequential THEN "fill" ELSE "join_producers"
      /\ ppc' = [p \in Producers |-> IF p \in Pushing THEN "push" ELSE "none"]
      /\ cpc' = [c \in Consumers |-> CASE Sequential \/ c \notin Reading -> "none"
                                       [] driver = "ConsumerScaling"    -> "count"
                                       [] OTHER                         -> "check"]
      /\ UNCHANGED <<log, published, got, members, driver, made, stop, rounds>>
  BY DEF Begin, queueVars
<1>2. /\ BenchTypeOK /\ Threads /\ Logged /\ Given
      /\ Pushing \subseteq Producers /\ Reading \subseteq Consumers
  BY BenchTyped
<1>3. /\ Pushing' = Pushing /\ Reading' = Reading /\ Sequential' = Sequential /\ Due' = Due
      /\ \A p \in Producers : ppc[p] = "none"
      /\ ~stop
  BY <1>1, <1>2 DEF Pushing, Reading, Sequential, Due, Threads
<1>4. \A p \in Producers : /\ ppc'[p] = IF p \in Pushing THEN "push" ELSE "none"
                           /\ Claimed(p)' = made[p] /\ Claimed(p) = made[p]
  BY <1>1, <1>3 DEF Claimed
<1>5. \A c \in Consumers : cpc'[c] = CASE Sequential \/ c \notin Reading -> "none"
                                      [] driver = "ConsumerScaling"    -> "count"
                                      [] OTHER                         -> "check"
  BY <1>1
<1>6. BenchTypeOK'
  <2>1. main' \in {"fill", "join_producers"}
    BY <1>1
  <2>2. ppc' \in [Producers -> {"none", "push", "publish"}]
    BY <1>1
  <2>3. cpc' \in [Consumers -> {"none", "check", "pop", "final", "count", "exit"}]
    <3>1. \A c \in Consumers : cpc'[c] \in {"none", "check", "pop", "final", "count", "exit"}
      BY <1>5
    <3> QED
      BY <1>1, <3>1
  <2> QED
    BY <1>1, <1>2, <1>3, <2>1, <2>2, <2>3 DEF BenchTypeOK
<1>7. Threads'
  <2>1. \A p \in Producers \ Pushing : ppc'[p] = "none"
    BY <1>4
  <2>2. \A p \in Pushing : Claimed(p)' <= Due
    BY <1>2, <1>4 DEF Threads
  <2>3. ASSUME Sequential
        PROVE  \A c \in Consumers : cpc'[c] = "none"
    BY <1>5, <2>3 DEF Sequential
  <2> QED
    BY <1>1, <1>2, <1>3, <2>1, <2>2, <2>3 DEF Threads
<1>8. Logged'
  <2>1. \A n \in 1 .. Len(log) : n \in published
    BY <1>2, <1>3 DEF Logged
  <2>2. log' = log /\ published' = published
    BY <1>1
  <2>3. \A p \in Pushing : Claimed(p)' = Claimed(p)
    BY <1>2, <1>4
  <2>4. Sequential => Len(log) = Claimed(Main)'
    BY <1>2, <1>4 DEF Logged
  <2> QED
    BY <1>2, <1>3, <2>1, <2>2, <2>3, <2>4 DEF Logged
<1>9. Given'
  <2>1. \A c \in Consumers : /\ cpc'[c] \notin {"final", "exit"}
                             /\ driver = "ConsumerScaling" => cpc'[c] \in {"none", "count", "exit"}
                             /\ driver # "ConsumerScaling" => cpc'[c] # "count"
    BY <1>5
  <2>2. main' # "done"
    BY <1>1
  <2> QED
    BY <1>1, <1>2, <1>3, <2>1, <2>2 DEF Given
<1> QED
  BY <1>6, <1>7, <1>8, <1>9

\* An entry takes the next place of the log.
LEMMA ClaimKeeps ==
  ASSUME BenchInv, Kept, NEW p \in Producers, ProducerClaims(p)
  PROVE  BenchTypeOK' /\ Threads' /\ Logged' /\ Given'
<1> USE BenchAssumption
<1> DEFINE e == <<p, made[p] + 1>>
<1>1. /\ ppc[p] = "push" /\ made[p] < Due
      /\ log' = Append(log, e)
      /\ ppc' = [ppc EXCEPT ![p] = "publish"]
      /\ UNCHANGED <<published, got, members, driver, main, made, cpc, stop, rounds>>
  BY DEF ProducerClaims, Q!Claim
<1>2. /\ BenchTypeOK /\ Threads /\ Logged /\ Given
      /\ Pushing \subseteq Producers /\ Len(log) \in Nat /\ Due \in Nat
      /\ \A c \in Consumers : Len(got[c]) \in Nat
      /\ \A q \in Producers : made[q] \in Nat
  BY BenchTyped
<1>3. Pushing' = Pushing /\ Reading' = Reading /\ Sequential' = Sequential /\ Due' = Due
  BY <1>1 DEF Pushing, Reading, Sequential, Due
<1>4. p \in Pushing /\ ~Pushed /\ ~stop
  BY <1>1, <1>2 DEF Threads, Pushed
<1>5. /\ ppc'[p] = "publish" /\ \A q \in Producers : q # p => ppc'[q] = ppc[q]
      /\ Claimed(p) = made[p] /\ Claimed(p)' = made[p] + 1
      /\ \A q \in Producers : q # p => Claimed(q)' = Claimed(q)
  BY <1>1, <1>2 DEF BenchTypeOK, Claimed
<1>6. /\ e \in Item /\ log \in Seq(Item)
      /\ Len(log') = Len(log) + 1 /\ log'[Len(log) + 1] = e
      /\ \A n \in 1 .. Len(log) : log'[n] = log[n]
      /\ 1 .. Len(log') = (1 .. Len(log)) \cup {Len(log) + 1}
  <2>1. e \in Item
    BY <1>2 DEF Item
  <2> HIDE DEF e
  <2> QED
    BY <1>1, <1>2, <2>1 DEF BenchTypeOK
<1>7. BenchTypeOK'
  <2>1. log' \in Seq(Item)
    BY <1>1, <1>6
  <2>2. published' \subseteq 1 .. Len(log')
    BY <1>1, <1>2, <1>6 DEF BenchTypeOK
  <2>3. ppc' \in [Producers -> {"none", "push", "publish"}]
    BY <1>1, <1>2 DEF BenchTypeOK
  <2> HIDE DEF e
  <2> QED
    BY <1>1, <1>2, <1>3, <2>1, <2>2, <2>3 DEF BenchTypeOK
<1>8. Threads'
  <2>1. \A q \in Producers \ Pushing : ppc'[q] = "none"
    BY <1>2, <1>4, <1>5 DEF Threads
  <2>2. \A q \in Pushing : Claimed(q)' <= Due
    BY <1>1, <1>2, <1>5 DEF Threads
  <2>3. main # "register" /\ ~(Sequential /\ main \in {"take", "done"})
    BY <1>1, <1>2, <1>4 DEF Threads
  <2> HIDE DEF e
  <2> QED
    BY <1>1, <1>2, <1>3, <1>4, <2>1, <2>2, <2>3 DEF Threads
<1>9. Logged'
  <2>1. \A n \in 1 .. Len(log) : log[n] # e
    <3> SUFFICES ASSUME NEW n \in 1 .. Len(log), log[n] = e
                 PROVE  FALSE
      OBVIOUS
    <3>1. PICK q \in Pushing : \E k \in 1 .. Claimed(q) : log[n] = <<q, k>>
      BY <1>2 DEF Logged
    <3>2. q = p /\ made[p] + 1 \in 1 .. Claimed(q)
      BY <3>1
    <3> QED
      BY <1>2, <1>5, <3>2
  <2> HIDE DEF e
  <2>2. ASSUME NEW m \in 1 .. Len(log'), NEW n \in 1 .. Len(log'), log'[m] = log'[n]
        PROVE  m = n
    <3>1. CASE m \in 1 .. Len(log) /\ n \in 1 .. Len(log)
      <4>1. log[m] = log[n]
        BY <1>6, <2>2, <3>1
      <4> QED
        BY <1>2, <3>1, <4>1 DEF Logged
    <3>2. CASE m = Len(log) + 1
      BY <1>6, <2>1, <2>2, <3>2
    <3>3. CASE n = Len(log) + 1
      BY <1>6, <2>1, <2>2, <3>3
    <3> QED
      BY <1>6, <3>1, <3>2, <3>3
  <2>3. ASSUME NEW n \in 1 .. Len(log')
        PROVE  \E q \in Pushing : \E k \in 1 .. Claimed(q)' : log'[n] = <<q, k>>
    <3>1. CASE n = Len(log) + 1
      <4>1. made[p] + 1 \in 1 .. Claimed(p)'
        BY <1>2, <1>5
      <4> QED
        BY <1>4, <1>6, <3>1, <4>1 DEF e
    <3>2. CASE n \in 1 .. Len(log)
      <4>1. PICK q \in Pushing : \E k \in 1 .. Claimed(q) : log[n] = <<q, k>>
        BY <1>2, <3>2 DEF Logged
      <4>2. 1 .. Claimed(q) \subseteq 1 .. Claimed(q)'
        BY <1>2, <1>5
      <4> QED
        BY <1>6, <3>2, <4>1, <4>2
    <3> QED
      BY <1>6, <3>1, <3>2
  <2>4. ASSUME NEW q \in Pushing, NEW k \in 1 .. Claimed(q)'
        PROVE  \E n \in 1 .. Len(log') : log'[n] = <<q, k>>
    <3>1. CASE q = p /\ k = made[p] + 1
      BY <1>2, <1>6, <3>1 DEF e
    <3>2. CASE ~(q = p /\ k = made[p] + 1)
      <4>1. k \in 1 .. Claimed(q)
        BY <1>2, <1>5, <3>2
      <4>2. PICK n \in 1 .. Len(log) : log[n] = <<q, k>>
        BY <1>2, <4>1 DEF Logged
      <4> QED
        BY <1>6, <4>2
    <3> QED
      BY <3>1, <3>2
  <2>5. ASSUME NEW n \in 1 .. Len(log'), n \notin published'
        PROVE  \E q \in Pushing : ppc'[q] = "publish" /\ log'[n] = <<q, made'[q] + 1>>
    <3>1. CASE n = Len(log) + 1
      BY <1>1, <1>4, <1>5, <1>6, <3>1 DEF e
    <3>2. CASE n \in 1 .. Len(log)
      <4>1. PICK q \in Pushing : ppc[q] = "publish" /\ log[n] = <<q, made[q] + 1>>
        BY <1>1, <1>2, <2>5, <3>2 DEF Logged
      <4>2. q # p
        BY <1>1, <4>1
      <4> QED
        BY <1>1, <1>2, <1>5, <1>6, <3>2, <4>1, <4>2
    <3> QED
      BY <1>6, <3>1, <3>2
  <2>6. Sequential => Len(log') = Claimed(Main)'
    <3>1. Sequential => p = Main
      BY <1>4 DEF Sequential, Pushing
    <3> QED
      BY <1>2, <1>5, <1>6, <3>1 DEF Logged
  <2>7. Pushing' = Pushing /\ Sequential' = Sequential
    BY <1>3
  <2>8. /\ \A n \in 1 .. Len(log') : \E q \in Pushing : \E k \in 1 .. Claimed(q)' : log'[n] = <<q, k>>
        /\ \A q \in Pushing : \A k \in 1 .. Claimed(q)' : \E n \in 1 .. Len(log') : log'[n] = <<q, k>>
    BY <2>3, <2>4
  <2> QED
    BY <2>2, <2>5, <2>6, <2>7, <2>8 DEF Logged
<1>10. Given'
  <2>1. \A c \in Consumers : Len(got[c]) <= Len(log') /\ \A n \in 1 .. Len(got[c]) : got[c][n] = log'[n]
    BY <1>2, <1>6 DEF Given
  <2> HIDE DEF e
  <2> QED
    BY <1>1, <1>2, <1>3, <1>4, <2>1 DEF Given, TOTAL
<1> QED
  BY <1>7, <1>8, <1>9, <1>10

\* It becomes readable.
LEMMA PublishKeeps ==
  ASSUME BenchInv, Kept, NEW p \in Producers, ProducerPublishes(p)
  PROVE  BenchTypeOK' /\ Threads' /\ Logged' /\ Given'
<1> USE BenchAssumption
<1>1. PICK l \in 1 .. Len(log) :
        /\ log[l] = <<p, made[p] + 1>>
        /\ published' = published \cup {l}
        /\ UNCHANGED <<log, got, members>>
  BY DEF ProducerPublishes, Q!Publish
<1>2. /\ ppc[p] = "publish"
      /\ ppc' = [ppc EXCEPT ![p] = "push"]
      /\ made' = [made EXCEPT ![p] = @ + 1]
      /\ UNCHANGED <<driver, main, cpc, stop, rounds>>
  BY DEF ProducerPublishes
<1>3. /\ BenchTypeOK /\ Threads /\ Logged /\ Given
      /\ Pushing \subseteq Producers /\ Len(log) \in Nat
      /\ \A q \in Producers : made[q] \in Nat
  BY BenchTyped
<1>4. Pushing' = Pushing /\ Reading' = Reading /\ Sequential' = Sequential /\ Due' = Due
  BY <1>2 DEF Pushing, Reading, Sequential, Due
<1>5. p \in Pushing /\ ~Pushed /\ ~stop
  BY <1>2, <1>3 DEF Threads, Pushed
<1>6. /\ made'[p] = made[p] + 1 /\ ppc'[p] = "push"
      /\ \A q \in Producers : q # p => ppc'[q] = ppc[q] /\ made'[q] = made[q]
  BY <1>2, <1>3 DEF BenchTypeOK
<1>7. \A q \in Producers : Claimed(q)' = Claimed(q)
  BY <1>2, <1>6 DEF Claimed
<1>8. BenchTypeOK'
  <2>1. published' \subseteq 1 .. Len(log)
    BY <1>1, <1>3 DEF BenchTypeOK
  <2>2. ppc' \in [Producers -> {"none", "push", "publish"}] /\ made' \in [Producers -> Nat]
    BY <1>2, <1>3 DEF BenchTypeOK
  <2> QED
    BY <1>1, <1>2, <1>3, <1>4, <2>1, <2>2 DEF BenchTypeOK
<1>9. Threads'
  <2>1. \A q \in Producers \ Pushing : ppc'[q] = "none"
    BY <1>3, <1>5, <1>6 DEF Threads
  <2>2. \A q \in Pushing : Claimed(q)' <= Due
    BY <1>3, <1>7 DEF Threads
  <2>3. main # "register" /\ ~(Sequential /\ main \in {"take", "done"})
    BY <1>2, <1>3, <1>5 DEF Threads
  <2> QED
    BY <1>1, <1>2, <1>3, <1>4, <1>5, <2>1, <2>2, <2>3 DEF Threads
<1>10. Logged'
  <2>1. ASSUME NEW n \in 1 .. Len(log), n \notin published'
        PROVE  \E q \in Pushing : ppc'[q] = "publish" /\ log[n] = <<q, made'[q] + 1>>
    <3>1. PICK q \in Pushing : ppc[q] = "publish" /\ log[n] = <<q, made[q] + 1>>
      BY <1>1, <1>3, <2>1 DEF Logged
    <3>2. q # p
      BY <1>1, <1>3, <2>1, <3>1 DEF Logged
    <3> QED
      BY <1>3, <1>6, <3>1, <3>2
  <2>2. \A n \in 1 .. Len(log) : \E q \in Pushing : \E k \in 1 .. Claimed(q)' : log[n] = <<q, k>>
    BY <1>3, <1>7 DEF Logged
  <2>3. \A q \in Pushing : \A k \in 1 .. Claimed(q)' : \E n \in 1 .. Len(log) : log[n] = <<q, k>>
    BY <1>3, <1>7 DEF Logged
  <2>4. Sequential => Len(log) = Claimed(Main)'
    BY <1>3, <1>7 DEF Logged
  <2>5. \A m, n \in 1 .. Len(log) : log[m] = log[n] => m = n
    BY <1>3 DEF Logged
  <2>6. log' = log /\ Pushing' = Pushing /\ Sequential' = Sequential
    BY <1>1, <1>4
  <2>7. /\ \A m, n \in 1 .. Len(log') : log'[m] = log'[n] => m = n
        /\ \A n \in 1 .. Len(log') : \E q \in Pushing : \E k \in 1 .. Claimed(q)' : log'[n] = <<q, k>>
        /\ \A q \in Pushing : \A k \in 1 .. Claimed(q)' : \E n \in 1 .. Len(log') : log'[n] = <<q, k>>
        /\ Sequential => Len(log') = Claimed(Main)'
    <3>1. \A m, n \in 1 .. Len(log') : log'[m] = log'[n] => m = n
      BY <2>5, <2>6
    <3>2. \A n \in 1 .. Len(log') : \E q \in Pushing : \E k \in 1 .. Claimed(q)' : log'[n] = <<q, k>>
      BY <2>2, <2>6
    <3>3. \A q \in Pushing : \A k \in 1 .. Claimed(q)' : \E n \in 1 .. Len(log') : log'[n] = <<q, k>>
      BY <2>3, <2>6
    <3>4. Sequential => Len(log') = Claimed(Main)'
      BY <2>4, <2>6
    <3> QED
      BY <3>1, <3>2, <3>3, <3>4
  <2>8. \A n \in 1 .. Len(log') : n \notin published' =>
          \E q \in Pushing : ppc'[q] = "publish" /\ log'[n] = <<q, made'[q] + 1>>
    BY <2>1, <2>6
  <2> QED
    BY <2>6, <2>7, <2>8 DEF Logged
<1>11. Given'
  BY <1>1, <1>2, <1>3, <1>4 DEF Given, TOTAL
<1> QED
  BY <1>8, <1>9, <1>10, <1>11

\* No producer drops an entry: it repeats the push, or is not refused, as
\* BM_QueuePop takes one entry before each push (bench_queue_throughput.cpp:122-132).
LEMMA NothingDropped ==
  ASSUME BenchInv, Kept, NEW p \in Producers, ProducerGivesUp(p)
  PROVE  FALSE
<1> USE BenchAssumption
<1>1. /\ driver = "QueuePop" /\ ppc[p] = "push" /\ made[p] < Due
  BY DEF ProducerGivesUp, Kept, PushOnce, NoFinalDrain
<1>2. PICK c \in members : Len(log) >= Len(got[c]) + SIZE
  BY DEF ProducerGivesUp, IsFull
<1>3. /\ BenchTypeOK /\ Threads /\ Logged /\ Given
      /\ \A q \in Producers : made[q] \in Nat
  BY BenchTyped
<1>4. p = Main /\ c = First /\ Sequential /\ Due = SIZE - 1 + rounds /\ rounds \in Nat
  BY <1>1, <1>2, <1>3 DEF Threads, Pushing, BenchTypeOK, Reading, Sequential, Due
<1>5. Len(log) = made[p] /\ Len(got[First]) = rounds
  BY <1>1, <1>3, <1>4 DEF Logged, Claimed, Given
<1> QED
  BY <1>1, <1>2, <1>3, <1>4, <1>5

\* Every entry of the log is readable once the producers are done.
LEMMA PushedIsPublished ==
  ASSUME BenchInv, Kept, Pushed
  PROVE  published = 1 .. Len(log)
<1>1. BenchTypeOK /\ Logged
  BY BenchTyped
<1>2. \A n \in 1 .. Len(log) : n \in published
  BY <1>1 DEF Logged, Pushed
<1> QED
  BY <1>1, <1>2 DEF BenchTypeOK

\* Each consumer has been given a first part of the log, in its order.
Prefixes ==
  /\ log \in Seq(Item) /\ published \subseteq 1 .. Len(log)
  /\ got \in [Consumers -> Seq(Item)]
  /\ \A c \in Consumers : Len(got[c]) <= Len(log) /\ \A n \in 1 .. Len(got[c]) : got[c][n] = log[n]

\* A consumer is given the next entry.
LEMMA NextIsGiven ==
  ASSUME Prefixes, NEW c \in Consumers, Q!Deliver(c)
  PROVE  /\ got' \in [Consumers -> Seq(Item)]
         /\ \A d \in Consumers : Len(got'[d]) <= Len(log) /\ \A n \in 1 .. Len(got'[d]) : got'[d][n] = log[n]
         /\ Len(got'[c]) = Len(got[c]) + 1 /\ Len(got[c]) < Len(log)
         /\ \A d \in Consumers : d # c => got'[d] = got[d]
         /\ UNCHANGED <<log, published, members>>
<1>1. /\ Len(got[c]) + 1 \in published
      /\ got' = [got EXCEPT ![c] = Append(got[c], log[Len(got[c]) + 1])]
      /\ UNCHANGED <<log, published, members>>
  BY DEF Q!Deliver
<1>2. Len(log) \in Nat /\ \A d \in Consumers : got[d] \in Seq(Item) /\ Len(got[d]) \in Nat
  BY DEF Prefixes
<1>3. /\ got \in [Consumers -> Seq(Item)] /\ log \in Seq(Item)
      /\ Len(got[c]) + 1 \in 1 .. Len(log)
  BY <1>1, <1>2 DEF Prefixes
<1> DEFINE x == log[Len(got[c]) + 1]
<1>4. x \in Item
  BY <1>3
<1> HIDE DEF x
<1>5. /\ Append(got[c], x) \in Seq(Item) /\ Len(Append(got[c], x)) = Len(got[c]) + 1
      /\ \A n \in 1 .. Len(got[c]) : Append(got[c], x)[n] = got[c][n]
      /\ Append(got[c], x)[Len(got[c]) + 1] = x
  BY <1>2, <1>4
<1>6. got'[c] = Append(got[c], x) /\ \A d \in Consumers : d # c => got'[d] = got[d]
  BY <1>1, <1>3 DEF x
<1>7. got' \in [Consumers -> Seq(Item)]
  BY <1>1, <1>3, <1>5 DEF x
<1>8. ASSUME NEW d \in Consumers
      PROVE  Len(got'[d]) <= Len(log) /\ \A n \in 1 .. Len(got'[d]) : got'[d][n] = log[n]
  <2>1. Len(got[d]) <= Len(log) /\ \A n \in 1 .. Len(got[d]) : got[d][n] = log[n]
    BY DEF Prefixes
  <2>2. CASE d # c
    BY <1>6, <2>1, <2>2
  <2>3. CASE d = c
    <3>1. Len(got'[d]) = Len(got[c]) + 1
      BY <1>5, <1>6, <2>3
    <3>2. ASSUME NEW n \in 1 .. Len(got[c]) + 1
          PROVE  got'[d][n] = log[n]
      <4>1. CASE n = Len(got[c]) + 1
        BY <1>5, <1>6, <2>3, <4>1 DEF x
      <4>2. CASE n \in 1 .. Len(got[c])
        BY <1>5, <1>6, <2>1, <2>3, <4>2
      <4> QED
        BY <1>2, <4>1, <4>2
    <3> QED
      BY <1>2, <1>3, <2>3, <3>1, <3>2
  <2> QED
    BY <2>2, <2>3
<1> QED
  BY <1>1, <1>2, <1>3, <1>5, <1>6, <1>7, <1>8

\* Where a driver keeps everything, that is what it was due.
LEMMA DeliveryKeeps ==
  ASSUME BenchInv, Kept, NEW c \in Consumers, Q!Deliver(c)
  PROVE  /\ got' \in [Consumers -> Seq(Item)]
         /\ \A d \in Consumers : Len(got'[d]) <= Len(log) /\ \A n \in 1 .. Len(got'[d]) : got'[d][n] = log[n]
         /\ Len(got'[c]) = Len(got[c]) + 1 /\ Len(got[c]) < Len(log)
         /\ \A d \in Consumers : d # c => got'[d] = got[d]
         /\ UNCHANGED <<log, published, members>>
<1> QED
  BY BenchTyped, NextIsGiven DEF BenchTypeOK, Given, Prefixes

\* The drain threads and the consumers of BM_ConsumerScaling.
LEMMA ConsumerKeeps ==
  ASSUME BenchInv, Kept, NEW c \in Consumers, ConsumerStep(c)
  PROVE  BenchTypeOK' /\ Threads' /\ Logged' /\ Given'
<1> USE BenchAssumption
<1>1. /\ BenchTypeOK /\ Threads /\ Logged /\ Given /\ Len(log) \in Nat
      /\ \A d \in Consumers : got[d] \in Seq(Item) /\ Len(got[d]) \in Nat
  BY BenchTyped
<1>2. UNCHANGED <<log, published, members, driver, main, ppc, made, stop, rounds>>
  BY DEF ConsumerStep, DrainerPops, DrainerChecks, DrainerEmpty, CounterPops, CounterEnds,
    Q!Deliver, queueVars
<1>3. /\ Pushing' = Pushing /\ Reading' = Reading /\ Sequential' = Sequential /\ Due' = Due
      /\ Pushed' = Pushed /\ \A p \in Producers : Claimed(p)' = Claimed(p)
  BY <1>2 DEF Pushing, Reading, Sequential, Due, Pushed, Claimed
<1>4. Logged'
  BY <1>1, <1>2, LoggedSame
<1>5. cpc[c] \notin {"none", "exit"} /\ ~Sequential /\ main # "register"
  <2>1. cpc[c] \notin {"none", "exit"}
    BY DEF ConsumerStep, DrainerPops, DrainerChecks, DrainerEmpty, CounterPops,
      CounterEnds, ConsumerGoto
  <2> QED
    BY <1>1, <2>1 DEF Threads
<1>6. cpc' \in [Consumers -> {"none", "check", "pop", "final", "count", "exit"}]
      /\ \A d \in Consumers : d # c => cpc'[d] = cpc[d]
  BY <1>1 DEF BenchTypeOK, ConsumerStep, DrainerPops, DrainerChecks, DrainerEmpty, CounterPops,
    CounterEnds, ConsumerGoto, AfterStop
<1>7. Threads'
  <2>1. \A p \in Pushing : Claimed(p)' <= Due
    BY <1>1, <1>3, BenchTyped DEF Threads
  <2> QED
    BY <1>1, <1>2, <1>3, <1>5, <2>1 DEF Threads
<1>8. CASE DrainerPops(c) \/ CounterPops(c)
  <2>1. Q!Deliver(c) /\ cpc' = cpc /\ cpc[c] # "exit"
    BY <1>5, <1>8 DEF DrainerPops, CounterPops
  <2>2. /\ got' \in [Consumers -> Seq(Item)]
        /\ \A d \in Consumers : Len(got'[d]) <= Len(log) /\ \A n \in 1 .. Len(got'[d]) : got'[d][n] = log[n]
        /\ \A d \in Consumers : d # c => got'[d] = got[d]
    BY <2>1, DeliveryKeeps
  <2>3. BenchTypeOK'
    BY <1>1, <1>2, <1>3, <1>6, <2>2 DEF BenchTypeOK
  <2>4. Given'
    <3>1. driver \notin {"QueuePop", "rdtsc"}
      BY <1>5 DEF Sequential
    <3>2. ASSUME NEW d \in Consumers
          PROVE  /\ cpc[d] = "final" => stop
                 /\ driver = "ConsumerScaling" => cpc[d] \in {"none", "count", "exit"}
                 /\ driver # "ConsumerScaling" => cpc[d] # "count"
                 /\ cpc[d] = "exit" /\ driver = "ConsumerScaling" => Len(got'[d]) >= TOTAL
                 /\ cpc[d] = "exit" /\ driver # "ConsumerScaling" => stop /\ Len(got'[d]) = Len(log)
      <4>1. CASE d = c
        BY <1>1, <2>1, <4>1 DEF Given
      <4>2. CASE d # c
        BY <1>1, <2>2, <4>2 DEF Given
      <4> QED
        BY <4>1, <4>2
    <3>3. main = "done" /\ ~Sequential => \A d \in Reading : cpc[d] = "exit"
      BY <1>1 DEF Given
    <3>4. cpc' = cpc
      BY <2>1
    <3> QED
      BY <1>2, <1>3, <2>2, <3>1, <3>2, <3>3, <3>4 DEF Given, TOTAL
  <2> QED
    BY <1>4, <1>7, <2>3, <2>4
<1>9. CASE DrainerChecks(c) \/ DrainerEmpty(c) \/ CounterEnds(c)
  <2>1. got' = got
    BY <1>9 DEF DrainerChecks, DrainerEmpty, CounterEnds, queueVars
  <2>2. BenchTypeOK'
    BY <1>1, <1>2, <1>3, <1>6, <2>1 DEF BenchTypeOK
  <2>3. /\ cpc'[c] = "final" => stop
        /\ driver = "ConsumerScaling" => cpc'[c] \in {"none", "count", "exit"}
        /\ driver # "ConsumerScaling" => cpc'[c] # "count"
        /\ cpc'[c] = "exit" /\ driver = "ConsumerScaling" => Len(got[c]) >= TOTAL
        /\ cpc'[c] = "exit" /\ driver # "ConsumerScaling" => stop /\ Len(got[c]) = Len(log)
    <3>0. cpc \in [Consumers -> {"none", "check", "pop", "final", "count", "exit"}]
      BY <1>1 DEF BenchTypeOK
    <3>1. CASE DrainerChecks(c)
      <4>1. cpc[c] = "check" /\ cpc'[c] = IF stop THEN "final" ELSE "pop"
        BY <3>0, <3>1 DEF DrainerChecks, ConsumerGoto, AfterStop, Kept
      <4> QED
        BY <1>1, <4>1 DEF Given
    <3>2. CASE DrainerEmpty(c)
      <4>1. /\ Len(got[c]) + 1 \notin published
            /\ \/ cpc[c] = "pop" /\ cpc'[c] = "check"
               \/ cpc[c] = "final" /\ cpc'[c] = "exit"
        BY <3>0, <3>2 DEF DrainerEmpty, ConsumerGoto, Empty
      <4>2. driver # "ConsumerScaling"
        BY <1>1, <4>1 DEF Given
      <4>3. CASE cpc[c] = "final"
        <5>1. stop /\ Pushed
          BY <1>1, <4>3 DEF Given, Threads
        <5>2. published = 1 .. Len(log)
          BY <5>1, PushedIsPublished
        <5>3. Len(got[c]) <= Len(log) /\ Len(got[c]) \in Nat
          BY <1>1 DEF Given
        <5>4. Len(got[c]) = Len(log)
          BY <1>1, <4>1, <5>2, <5>3
        <5> QED
          BY <4>1, <4>2, <4>3, <5>1, <5>4
      <4> QED
        BY <4>1, <4>2, <4>3
    <3>3. CASE CounterEnds(c)
      <4>1. cpc[c] = "count" /\ cpc'[c] = "exit" /\ Len(got[c]) >= TOTAL
        BY <3>0, <3>3 DEF CounterEnds, ConsumerGoto, Wanted
      <4> QED
        BY <1>1, <4>1 DEF Given
    <3> QED
      BY <1>9, <3>1, <3>2, <3>3
  <2>4. Given'
    <3>1. main = "done" /\ ~Sequential => \A d \in Reading : cpc'[d] = "exit"
      <4>1. main = "done" /\ ~Sequential => c \notin Reading
        BY <1>1, <1>5 DEF Given
      <4>2. Reading \subseteq Consumers
        BY BenchTyped
      <4> QED
        BY <1>1, <1>6, <4>1, <4>2 DEF Given
    <3>2. ASSUME NEW d \in Consumers
          PROVE  /\ cpc'[d] = "final" => stop
                 /\ driver = "ConsumerScaling" => cpc'[d] \in {"none", "count", "exit"}
                 /\ driver # "ConsumerScaling" => cpc'[d] # "count"
                 /\ cpc'[d] = "exit" /\ driver = "ConsumerScaling" => Len(got[d]) >= TOTAL
                 /\ cpc'[d] = "exit" /\ driver # "ConsumerScaling" => stop /\ Len(got[d]) = Len(log)
      <4>1. CASE d = c
        BY <2>3, <4>1
      <4>2. CASE d # c
        BY <1>1, <1>6, <4>2 DEF Given
      <4> QED
        BY <4>1, <4>2
    <3> QED
      BY <1>1, <1>2, <1>3, <2>1, <3>1, <3>2 DEF Given, TOTAL
  <2> QED
    BY <1>4, <1>7, <2>2, <2>4
<1> QED
  BY <1>8, <1>9 DEF ConsumerStep

\* The benchmark's own thread joins the others.
LEMMA JoinsKeep ==
  ASSUME BenchInv, Kept, JoinProducers \/ JoinRest \/ Filled \/ RoundsOver \/ Helper
  PROVE  BenchTypeOK' /\ Threads' /\ Logged' /\ Given'
<1> USE BenchAssumption
<1>1. BenchTypeOK /\ Threads /\ Logged /\ Given
  BY BenchTyped
<1>2. UNCHANGED <<log, published, got, members, driver, ppc, made, cpc, rounds>>
  BY DEF JoinProducers, JoinRest, Filled, RoundsOver, Helper, queueVars
<1>3. /\ Pushing' = Pushing /\ Reading' = Reading /\ Sequential' = Sequential /\ Due' = Due
      /\ Pushed' = Pushed /\ \A p \in Producers : Claimed(p)' = Claimed(p)
  BY <1>2 DEF Pushing, Reading, Sequential, Due, Pushed, Claimed
<1>4. Logged'
  BY <1>1, <1>2, LoggedSame
<1>5. Pushing \subseteq Producers
  BY BenchTyped
<1>6. \A p \in Pushing : Claimed(p)' <= Due
  BY <1>1, <1>3, <1>5 DEF Threads
<1>7. CASE JoinProducers
  <2>1. main = "join_producers" /\ Pushed /\ main' = "join_rest" /\ stop' = TRUE /\ ~Sequential
    BY <1>1, <1>7 DEF JoinProducers, Threads
  <2>2. BenchTypeOK'
    BY <1>1, <1>2, <1>3, <2>1 DEF BenchTypeOK
  <2>3. Threads'
    BY <1>1, <1>2, <1>3, <1>6, <2>1 DEF Threads
  <2>4. Given'
    BY <1>1, <1>2, <1>3, <2>1 DEF Given, TOTAL, Sequential
  <2> QED
    BY <1>4, <2>2, <2>3, <2>4
<1>8. CASE JoinRest
  <2>1. /\ main = "join_rest" /\ main' = "done" /\ stop' = stop /\ ~Sequential /\ stop
        /\ \A c \in Reading : cpc[c] = "exit"
    BY <1>1, <1>8 DEF JoinRest, Threads
  <2>2. BenchTypeOK'
    BY <1>1, <1>2, <1>3, <2>1 DEF BenchTypeOK
  <2>3. Threads'
    BY <1>1, <1>2, <1>3, <1>6, <2>1 DEF Threads
  <2>4. Given'
    BY <1>1, <1>2, <1>3, <2>1 DEF Given, TOTAL, Sequential
  <2> QED
    BY <1>4, <2>2, <2>3, <2>4
<1>9. CASE Filled \/ RoundsOver
  <2>1. /\ main' \in {"take", "done"} /\ stop' = stop /\ Sequential /\ Pushed /\ main # "register"
        /\ driver = "rdtsc" => main' # "done"
    BY <1>1, <1>9 DEF Filled, RoundsOver, Threads
  <2>2. BenchTypeOK'
    BY <1>1, <1>2, <1>3, <2>1 DEF BenchTypeOK
  <2>3. Threads'
    BY <1>1, <1>2, <1>3, <1>6, <2>1 DEF Threads
  <2>4. Given'
    BY <1>1, <1>2, <1>3, <2>1 DEF Given, TOTAL
  <2> QED
    BY <1>4, <2>2, <2>3, <2>4
<1>10. CASE Helper
  <2>1. main' = main /\ stop' = stop
    BY <1>10 DEF Helper
  <2>2. BenchTypeOK'
    BY <1>1, <1>2, <1>3, <2>1 DEF BenchTypeOK
  <2>3. Threads'
    BY <1>1, <1>2, <1>3, <1>6, <2>1 DEF Threads
  <2>4. Given'
    BY <1>1, <1>2, <1>3, <2>1 DEF Given, TOTAL
  <2> QED
    BY <1>4, <2>2, <2>3, <2>4
<1> QED
  BY <1>7, <1>8, <1>9, <1>10

\* BM_QueuePop never finds the queue empty (bench_queue_throughput.cpp:122-129).
LEMMA OneToTake ==
  ASSUME SIZE # 1, BenchInv, Kept, driver = "QueuePop", main = "take"
  PROVE  ~Empty(First)
<1> USE BenchAssumption
<1>1. /\ BenchTypeOK /\ Threads /\ Logged /\ Given /\ Sequential
  BY BenchTyped DEF Sequential
<1>2. Pushed /\ Pushing = {Main} /\ Due = SIZE - 1 + rounds /\ rounds \in Nat
  BY <1>1 DEF Threads, Pushing, Due, BenchTypeOK
<1>3. Len(log) = SIZE - 1 + rounds /\ Len(got[First]) = rounds
  BY <1>1, <1>2 DEF Logged, Claimed, Pushed, Given
<1>4. published = 1 .. Len(log)
  BY <1>2, PushedIsPublished
<1> QED
  BY <1>2, <1>3, <1>4 DEF Empty

\* bench_rdtsc and BM_QueuePop take.
LEMMA TakesKeep ==
  ASSUME SIZE # 1, BenchInv, Kept, TakeAll \/ TakeOne
  PROVE  BenchTypeOK' /\ Threads' /\ Logged' /\ Given'
<1> USE BenchAssumption
<1>1. /\ BenchTypeOK /\ Threads /\ Logged /\ Given
      /\ \A d \in Consumers : got[d] \in Seq(Item) /\ Len(got[d]) \in Nat
  BY BenchTyped
<1>2. /\ main = "take" /\ Sequential /\ Q!Deliver(First)
      /\ UNCHANGED <<driver, ppc, made, cpc, stop>>
      /\ \/ /\ driver = "rdtsc" /\ rounds' = rounds
            /\ main' = IF Len(got'[First]) = ITERS THEN "done" ELSE "take"
         \/ driver = "QueuePop" /\ rounds' = rounds + 1 /\ main' = "fill"
  BY OneToTake DEF TakeAll, TakeOne, Sequential
<1>3. /\ got' \in [Consumers -> Seq(Item)]
      /\ \A d \in Consumers : Len(got'[d]) <= Len(log) /\ \A n \in 1 .. Len(got'[d]) : got'[d][n] = log[n]
      /\ Len(got'[First]) = Len(got[First]) + 1
      /\ UNCHANGED <<log, published, members>>
  BY <1>2, DeliveryKeeps
<1>4. /\ Pushing' = Pushing /\ Reading' = Reading /\ Sequential' = Sequential
      /\ Pushing \subseteq Producers
      /\ \A p \in Producers : Claimed(p)' = Claimed(p) /\ Claimed(p) \in Nat
  BY <1>2, BenchTyped DEF Pushing, Reading, Sequential, Claimed
<1>5. /\ rounds \in Nat /\ Due \in Nat
      /\ \/ rounds' = rounds /\ Due' = Due /\ Pushed' = Pushed
         \/ rounds' = rounds + 1 /\ Due' = Due + 1 /\ main' = "fill"
  <2>1. rounds \in Nat
    BY <1>1 DEF BenchTypeOK
  <2>2. CASE driver = "rdtsc"
    BY <1>2, <1>4, <2>1, <2>2, BenchTyped DEF Due, Pushed
  <2>3. CASE driver = "QueuePop"
    BY <1>2, <2>1, <2>3 DEF Due
  <2> QED
    BY <1>2, <2>1, <2>2, <2>3, BenchTyped
<1>6. BenchTypeOK'
  <2>1. main' \in {"take", "done", "fill"} /\ rounds' \in Nat
    BY <1>2, <1>5
  <2> QED
    BY <1>1, <1>2, <1>3, <1>4, <2>1 DEF BenchTypeOK
<1>7. Threads'
  <2>1. \A p \in Pushing : Claimed(p)' <= Due'
    <3>1. \A p \in Pushing : Claimed(p) <= Due
      BY <1>1 DEF Threads
    <3> QED
      BY <1>4, <1>5, <3>1
  <2>2. main' # "register" /\ main' \notin {"join_producers", "join_rest"}
    BY <1>2
  <2>3. ~stop /\ (\A c \in Consumers : cpc[c] = "none") /\ Pushed /\ members = Reading
    BY <1>1, <1>2 DEF Threads
  <2>4. main' \in {"take", "done"} => Pushed'
    BY <1>5, <2>3
  <2>5. \A p \in Producers \ Pushing : ppc[p] = "none"
    BY <1>1 DEF Threads
  <2> QED
    BY <1>2, <1>3, <1>4, <2>1, <2>2, <2>3, <2>4, <2>5 DEF Threads
<1>8. Logged'
  BY <1>1, <1>2, <1>3, LoggedSame
<1>9. Given'
  <2>1. \A c \in Consumers : cpc[c] = "none"
    BY <1>1, <1>2 DEF Threads
  <2>2. driver # "ConsumerScaling" /\ Sequential'
    BY <1>2, <1>4 DEF Sequential
  <2>3. driver = "QueuePop" => Len(got'[First]) = rounds'
    BY <1>1, <1>2, <1>3 DEF Given
  <2>4. driver = "rdtsc" /\ main' = "done" => Len(got'[First]) = ITERS
    BY <1>2
  <2> QED
    BY <1>2, <1>3, <2>1, <2>2, <2>3, <2>4 DEF Given
<1> QED
  BY <1>6, <1>7, <1>8, <1>9

\* BenchInv is inductive.
LEMMA BenchStep ==
  ASSUME SIZE # 1, BenchInv, [Next]_vars
  PROVE  BenchInv'
<1>1. driver' = driver
  BY DriverFixed
<1>2. SUFFICES ASSUME Kept
               PROVE  BenchTypeOK' /\ Threads' /\ Logged' /\ Given'
  BY <1>1 DEF BenchInv, Kept
<1>3. ASSUME NEW c \in Consumers, Register(c)
      PROVE  BenchTypeOK' /\ Threads' /\ Logged' /\ Given'
  BY <1>2, <1>3, RegisterKeeps
<1>4. CASE Begin
  BY <1>2, <1>4, BeginKeeps
<1>5. ASSUME NEW p \in Producers, ProducerStep(p)
      PROVE  BenchTypeOK' /\ Threads' /\ Logged' /\ Given'
  BY <1>2, <1>5, ClaimKeeps, PublishKeeps, NothingDropped DEF ProducerStep
<1>6. ASSUME NEW c \in Consumers, ConsumerStep(c)
      PROVE  BenchTypeOK' /\ Threads' /\ Logged' /\ Given'
  BY <1>2, <1>6, ConsumerKeeps
<1>7. CASE JoinProducers \/ JoinRest \/ Filled \/ RoundsOver \/ Helper
  BY <1>2, <1>7, JoinsKeep
<1>8. CASE TakeAll \/ TakeOne
  BY <1>2, <1>8, TakesKeep
<1>9. CASE UNCHANGED vars
  <2>1. BenchTypeOK /\ Threads /\ Logged /\ Given
    BY <1>2, BenchTyped
  <2>2. /\ Pushing' = Pushing /\ Reading' = Reading /\ Sequential' = Sequential /\ Due' = Due
        /\ Pushed' = Pushed /\ \A p \in Producers : Claimed(p)' = Claimed(p)
    BY <1>9 DEF vars, Pushing, Reading, Sequential, Due, Pushed, Claimed
  <2>3. BenchTypeOK'
    BY <1>9, <2>1, <2>2 DEF vars, BenchTypeOK
  <2>4. Threads'
    BY <1>2, <1>9, <2>1, <2>2, BenchTyped DEF vars, Threads
  <2>5. Logged'
    BY <1>9, <2>1, LoggedSame DEF vars
  <2>6. Given'
    BY <1>9, <2>1, <2>2 DEF vars, Given, TOTAL
  <2> QED
    BY <2>3, <2>4, <2>5, <2>6
<1> QED
  BY <1>3, <1>4, <1>5, <1>6, <1>7, <1>8, <1>9 DEF Next, MainStep

\* Nothing runs at first.
LEMMA BenchStart ==
  ASSUME Init
  PROVE  BenchInv
<1> USE BenchAssumption
<1>1. /\ log = <<>> /\ Len(log) = 0 /\ 1 .. Len(log) = {} /\ <<>> \in Seq(Item)
  BY DEF Init
<1>2. BenchTypeOK
  BY <1>1 DEF Init, BenchTypeOK
<1>3. \A p \in Producers : Claimed(p) = 0
  BY DEF Init, Claimed
<1>4. Pushing \subseteq Producers /\ Due \in Nat
  BY DEF Pushing, Due, Init
<1>5. Threads
  BY <1>3, <1>4 DEF Init, Threads
<1>6. Logged
  <2>1. \A p \in Pushing : 1 .. Claimed(p) = {}
    BY <1>3, <1>4
  <2> QED
    BY <1>1, <1>3, <2>1 DEF Logged, Init
<1>7. Given
  BY <1>1 DEF Init, Given
<1> QED
  BY <1>2, <1>5, <1>6, <1>7 DEF BenchInv

\* The log holds each entry the producers had to push, once.
LEMMA AllLogged ==
  ASSUME BenchInv, Kept, Pushed
  PROVE  Len(log) = Cardinality(Pushing) * Due
<1> USE BenchAssumption
<1>1. /\ BenchTypeOK /\ Logged /\ Len(log) \in Nat /\ Due \in Nat
      /\ \A p \in Pushing : Claimed(p) = Due
  BY BenchTyped DEF Pushed, Claimed
<1> DEFINE S == Pushing \X (1 .. Due)
           f == [n \in 1 .. Len(log) |-> log[n]]
<1>2. f \in [1 .. Len(log) -> S]
  <2>1. ASSUME NEW n \in 1 .. Len(log)
        PROVE  log[n] \in S
    <3>1. PICK p \in Pushing : \E k \in 1 .. Claimed(p) : log[n] = <<p, k>>
      BY <1>1 DEF Logged
    <3>2. Claimed(p) = Due
      BY <1>1
    <3> QED
      BY <3>1, <3>2
  <2> QED
    BY <2>1
<1>3. \A m, n \in 1 .. Len(log) : f[m] = f[n] => m = n
  BY <1>1 DEF Logged
<1>4. \A s \in S : \E n \in 1 .. Len(log) : f[n] = s
  <2>1. ASSUME NEW p \in Pushing, NEW k \in 1 .. Due
        PROVE  \E n \in 1 .. Len(log) : log[n] = <<p, k>>
    BY <1>1 DEF Logged
  <2>2. ASSUME NEW s \in S
        PROVE  \E n \in 1 .. Len(log) : f[n] = s
    <3>1. PICK p \in Pushing, k \in 1 .. Due : s = <<p, k>>
      OBVIOUS
    <3> QED
      BY <2>1, <3>1
  <2> QED
    BY <2>2
<1> HIDE DEF f, S
<1>5. f \in Bijection(1 .. Len(log), S)
  BY <1>2, <1>3, <1>4 DEF Bijection, Injection, Surjection, IsInjective
<1>6. Cardinality(S) = Len(log)
  BY <1>1, <1>5, FS_CountingElements DEF ExistsBijection
<1>7. IsFiniteSet(Pushing) /\ IsFiniteSet(1 .. Due) /\ Cardinality(1 .. Due) = Due
  <2>1. IsFiniteSet({Main})
    BY FS_Singleton
  <2>2. Pushing = Producers \/ Pushing = {Main}
    BY DEF Pushing
  <2>3. IsFiniteSet(1 .. Due) /\ Cardinality(1 .. Due) = Due
    BY <1>1, FS_Interval
  <2> QED
    BY <2>1, <2>2, <2>3
<1> QED
  BY <1>6, <1>7, FS_Product DEF S

-----------------------------------------------------------------------------
(***************************************************************************)
(* The drivers without a final drain.  DrainInv is inductive for them: the *)
(* one producer's pushes are in the log or, where it pushes once, dropped, *)
(* and the consumer is never more than a queue full of entries behind.     *)
(***************************************************************************)
DrainInv ==
  /\ Prefixes
  /\ ppc \in [Producers -> {"none", "push", "publish"}] /\ made \in [Producers -> Nat]
  /\ main \in {"register", "join_producers", "join_rest", "done"}
  /\ main = "register" => \A p \in Producers : ppc[p] = "none"
  /\ main # "register" => First \in members
  /\ main \in {"join_rest", "done"} => Pushed
  /\ \A p \in Producers \ {Main} : ppc[p] = "none"
  /\ Len(log) <= Len(got[First]) + SIZE
  /\ Len(log) <= Claimed(Main) /\ Claimed(Main) <= OPS
  /\ driver \notin PushOnce => Len(log) = Claimed(Main)

\* What is constant while such a driver runs.
LEMMA DrainConstants ==
  ASSUME ~Kept
  PROVE  /\ Pushing = {Main} /\ Reading = {First} /\ Due = OPS /\ ~Sequential
         /\ Cardinality(Pushing) = 1
<1>1. driver \in {"QueuePush_1P", "QueuePush_NP", "PushLatency"}
  BY DEF Kept, NoFinalDrain
<1>2. Pushing = {Main} /\ Reading = {First} /\ Due = OPS /\ ~Sequential
  BY <1>1 DEF Pushing, Reading, Due, Sequential
<1> QED
  BY <1>2, FS_Singleton

\* Nothing is in the log at first.
LEMMA DrainStart ==
  ASSUME Init, ~Kept
  PROVE  DrainInv
<1> USE BenchAssumption
<1>1. log = <<>> /\ Len(log) = 0 /\ <<>> \in Seq(Item) /\ \A c \in Consumers : got[c] = <<>>
  BY DEF Init
<1>2. Prefixes
  BY <1>1 DEF Init, Prefixes
<1>3. Claimed(Main) = 0
  BY DEF Init, Claimed
<1> QED
  BY <1>1, <1>2, <1>3 DEF Init, DrainInv

\* The producer's steps.
LEMMA DrainPush ==
  ASSUME DrainInv, ~Kept, NEW p \in Producers, ProducerStep(p)
  PROVE  DrainInv'
<1> USE BenchAssumption
<1>1. /\ Pushing = {Main} /\ Due = OPS
      /\ main' = main /\ driver' = driver /\ members' = members /\ got' = got
      /\ Len(log) \in Nat /\ Len(got[First]) \in Nat
  BY DrainConstants
  DEF DrainInv, Prefixes, ProducerStep, ProducerClaims, ProducerPublishes, ProducerGivesUp,
      Q!Claim, Q!Publish, queueVars
<1>2. p = Main /\ ppc[Main] \in {"push", "publish"} /\ main # "register" /\ First \in members
  BY DEF DrainInv, ProducerStep, ProducerClaims, ProducerPublishes, ProducerGivesUp
<1>3. ~Pushed /\ main \notin {"join_rest", "done"} /\ made[Main] \in Nat
  BY <1>1, <1>2
  DEF DrainInv, Pushed, ProducerStep, ProducerClaims, ProducerPublishes, ProducerGivesUp
<1>4. /\ main' \in {"register", "join_producers", "join_rest", "done"}
      /\ main' # "register" /\ First \in members' /\ main' \notin {"join_rest", "done"}
  BY <1>1, <1>2, <1>3 DEF DrainInv
<1>5. SUFFICES /\ Prefixes'
               /\ ppc' \in [Producers -> {"none", "push", "publish"}] /\ made' \in [Producers -> Nat]
               /\ \A q \in Producers \ {Main} : ppc'[q] = "none"
               /\ Len(log') <= Len(got[First]) + SIZE
               /\ Len(log') <= Claimed(Main)' /\ Claimed(Main)' <= OPS
               /\ driver \notin PushOnce => Len(log') = Claimed(Main)'
  BY <1>1, <1>4 DEF DrainInv
<1>6. CASE ProducerClaims(p)
  <2> DEFINE e == <<p, made[p] + 1>>
  <2>1. /\ ppc[p] = "push" /\ made[p] < OPS /\ made' = made
        /\ ppc' = [ppc EXCEPT ![p] = "publish"]
        /\ log' = Append(log, e) /\ published' = published
        /\ \A c \in members : Len(log) < Len(got[c]) + SIZE
    BY <1>1, <1>6 DEF ProducerClaims, Q!Claim
  <2>2. e \in Item
    BY <1>2, <1>3 DEF Item
  <2> HIDE DEF e
  <2>3. /\ log \in Seq(Item) /\ log' \in Seq(Item) /\ Len(log') = Len(log) + 1
        /\ \A n \in 1 .. Len(log) : log'[n] = log[n]
    BY <2>1, <2>2 DEF DrainInv, Prefixes
  <2>4. Prefixes'
    <3>1. ASSUME NEW c \in Consumers
          PROVE  Len(got[c]) <= Len(log') /\ \A n \in 1 .. Len(got[c]) : got[c][n] = log'[n]
      <4>1. Len(got[c]) \in Nat /\ Len(got[c]) <= Len(log) /\ \A n \in 1 .. Len(got[c]) : got[c][n] = log[n]
        BY DEF DrainInv, Prefixes
      <4> QED
        BY <1>1, <2>3, <4>1
    <3>2. published' \subseteq 1 .. Len(log')
      BY <1>1, <2>1, <2>3 DEF DrainInv, Prefixes
    <3>3. got' \in [Consumers -> Seq(Item)]
      BY <1>1 DEF DrainInv, Prefixes
    <3> QED
      BY <1>1, <2>3, <3>1, <3>2, <3>3 DEF Prefixes
  <2>5. Claimed(Main) = made[Main] /\ Claimed(Main)' = made[Main] + 1
    BY <1>2, <2>1 DEF DrainInv, Claimed
  <2>6. /\ ppc' \in [Producers -> {"none", "push", "publish"}] /\ made' \in [Producers -> Nat]
        /\ \A q \in Producers \ {Main} : ppc'[q] = "none"
    BY <1>2, <2>1 DEF DrainInv
  <2>7. Len(log) < Len(got[First]) + SIZE
    BY <1>2, <2>1
  <2>8. /\ Len(log) <= made[Main] /\ made[Main] < OPS
        /\ driver \notin PushOnce => Len(log) = made[Main]
    BY <1>2, <2>1, <2>5 DEF DrainInv
  <2> QED
    BY <1>1, <1>3, <2>3, <2>4, <2>5, <2>6, <2>7, <2>8
<1>7. CASE ProducerPublishes(p)
  <2>1. PICK l \in 1 .. Len(log) : published' = published \cup {l} /\ log' = log
    BY <1>7 DEF ProducerPublishes, Q!Publish
  <2>2. /\ ppc[p] = "publish" /\ ppc' = [ppc EXCEPT ![p] = "push"]
        /\ made' = [made EXCEPT ![p] = @ + 1]
    BY <1>7 DEF ProducerPublishes
  <2>3. Prefixes'
    BY <1>1, <2>1 DEF DrainInv, Prefixes
  <2>4. Claimed(Main)' = Claimed(Main)
    BY <1>2, <2>2 DEF DrainInv, Claimed
  <2>5. /\ ppc' \in [Producers -> {"none", "push", "publish"}] /\ made' \in [Producers -> Nat]
        /\ \A q \in Producers \ {Main} : ppc'[q] = "none"
    BY <1>2, <2>2 DEF DrainInv
  <2> QED
    BY <2>1, <2>3, <2>4, <2>5 DEF DrainInv
<1>8. CASE ProducerGivesUp(p)
  <2>1. /\ driver \in PushOnce /\ ppc[p] = "push" /\ made[p] < OPS /\ ppc' = ppc
        /\ made' = [made EXCEPT ![p] = @ + 1] /\ log' = log /\ published' = published
    BY <1>1, <1>8 DEF ProducerGivesUp, queueVars
  <2>2. Prefixes'
    BY <1>1, <2>1 DEF DrainInv, Prefixes
  <2>3. Claimed(Main) = made[Main] /\ Claimed(Main)' = made[Main] + 1
    BY <1>2, <2>1 DEF DrainInv, Claimed
  <2>4. made' \in [Producers -> Nat] /\ ppc' \in [Producers -> {"none", "push", "publish"}]
        /\ \A q \in Producers \ {Main} : ppc'[q] = "none"
    BY <1>2, <2>1 DEF DrainInv
  <2>5. Len(log) <= made[Main] /\ made[Main] < OPS /\ Len(log) <= Len(got[First]) + SIZE
    BY <1>2, <2>1, <2>3 DEF DrainInv
  <2> QED
    BY <1>1, <1>3, <2>1, <2>2, <2>3, <2>4, <2>5
<1> QED
  BY <1>6, <1>7, <1>8 DEF ProducerStep

\* DrainInv is inductive.
LEMMA DrainStep ==
  ASSUME DrainInv, ~Kept, [Next]_vars
  PROVE  DrainInv'
<1> USE BenchAssumption
<1>1. /\ Pushing = {Main} /\ Pushing' = {Main} /\ Reading = {First} /\ Due = OPS /\ Due' = OPS
      /\ ~Sequential /\ driver' = driver
  <2>1. driver' = driver /\ Pushing' = Pushing
    BY DriverFixed
  <2>2. driver \in {"QueuePush_1P", "QueuePush_NP", "PushLatency"}
    BY DEF Kept, NoFinalDrain
  <2>3. Due' = OPS
    BY <2>1, <2>2 DEF Due
  <2> QED
    BY <2>1, <2>3, DrainConstants
<1>2. ASSUME NEW p \in Producers, ProducerStep(p)
      PROVE  DrainInv'
  BY <1>2, DrainPush
<1>3. ASSUME NEW c \in Consumers, DrainerPops(c) \/ CounterPops(c)
      PROVE  DrainInv'
  <2>1. Q!Deliver(c) /\ UNCHANGED <<driver, main, ppc, made>> /\ Prefixes
    BY <1>3 DEF DrainerPops, CounterPops, DrainInv
  <2>2. /\ got' \in [Consumers -> Seq(Item)]
        /\ \A d \in Consumers : Len(got'[d]) <= Len(log) /\ \A n \in 1 .. Len(got'[d]) : got'[d][n] = log[n]
        /\ Len(got'[c]) = Len(got[c]) + 1 /\ \A d \in Consumers : d # c => got'[d] = got[d]
        /\ UNCHANGED <<log, published, members>>
    BY <2>1, NextIsGiven
  <2>3. Prefixes'
    BY <2>1, <2>2 DEF Prefixes
  <2>4. Len(log) \in Nat /\ Len(got[First]) \in Nat /\ Len(got'[First]) >= Len(got[First])
    <3>1. Len(log) \in Nat /\ Len(got[First]) \in Nat
      BY <2>1 DEF Prefixes
    <3> QED
      BY <2>2, <3>1
  <2>5. Len(log') <= Len(got'[First]) + SIZE
    BY <2>2, <2>4 DEF DrainInv
  <2>6. Claimed(Main)' = Claimed(Main) /\ (Pushed => Pushed')
    BY <1>1, <2>1 DEF Claimed, Pushed
  <2> QED
    BY <2>1, <2>2, <2>3, <2>5, <2>6 DEF DrainInv
<1>4. CASE Begin
  <2>1. /\ main = "register" /\ First \in members /\ main' = "join_producers"
        /\ ppc' = [p \in Producers |-> IF p \in {Main} THEN "push" ELSE "none"]
        /\ UNCHANGED <<log, published, got, members, made, driver>>
    BY <1>1, <1>4 DEF Begin, queueVars
  <2>2. Prefixes'
    BY <2>1 DEF DrainInv, Prefixes
  <2>3. Claimed(Main)' = Claimed(Main)
    BY <2>1 DEF DrainInv, Claimed
  <2> QED
    BY <2>1, <2>2, <2>3 DEF DrainInv
<1>5. ASSUME NEW c \in Consumers, Register(c)
      PROVE  DrainInv'
  <2>1. /\ main = "register" /\ main' = main
        /\ UNCHANGED <<log, published, got, ppc, made, driver>>
    BY <1>5 DEF Register, Q!Join
  <2>2. Prefixes' /\ Claimed(Main)' = Claimed(Main)
    BY <2>1 DEF DrainInv, Prefixes, Claimed
  <2> QED
    BY <2>1, <2>2 DEF DrainInv
<1>6. CASE JoinProducers \/ JoinRest
  <2>1. /\ main # "register" /\ main' \in {"join_rest", "done"} /\ Pushed
        /\ UNCHANGED <<log, published, got, members, ppc, made, driver>>
    BY <1>6 DEF JoinProducers, JoinRest, DrainInv, queueVars
  <2>2. Prefixes' /\ Claimed(Main)' = Claimed(Main) /\ Pushed'
    BY <1>1, <2>1 DEF DrainInv, Prefixes, Claimed, Pushed
  <2> QED
    BY <2>1, <2>2 DEF DrainInv
<1>7. ASSUME \/ Helper \/ UNCHANGED vars
             \/ \E c \in Consumers : DrainerChecks(c) \/ DrainerEmpty(c) \/ CounterEnds(c)
      PROVE  DrainInv'
  <2>1. UNCHANGED <<log, published, got, members, ppc, made, driver, main>>
    BY <1>7 DEF Helper, DrainerChecks, DrainerEmpty, CounterEnds, queueVars, vars
  <2>2. Prefixes' /\ Claimed(Main)' = Claimed(Main) /\ (Pushed => Pushed')
    BY <1>1, <2>1 DEF DrainInv, Prefixes, Claimed, Pushed
  <2> QED
    BY <2>1, <2>2 DEF DrainInv
<1>8. ~(Filled \/ TakeAll \/ TakeOne \/ RoundsOver)
  BY DEF Filled, TakeAll, TakeOne, RoundsOver, DrainInv
<1> QED
  BY <1>2, <1>3, <1>4, <1>5, <1>6, <1>7, <1>8 DEF Next, MainStep, ConsumerStep

\* What was given is a first part of the log.
LEMMA IsFirstPart ==
  ASSUME Prefixes, NEW c \in Consumers
  PROVE  got[c] = SubSeq(log, 1, Len(got[c]))
<1>1. /\ log \in Seq(Item) /\ got[c] \in Seq(Item) /\ Len(got[c]) \in Nat /\ Len(log) \in Nat
      /\ Len(got[c]) <= Len(log) /\ \A n \in 1 .. Len(got[c]) : got[c][n] = log[n]
  BY DEF Prefixes
<1> DEFINE s == SubSeq(log, 1, Len(got[c]))
<1>2. s \in Seq(Item) /\ Len(s) = Len(got[c]) /\ \A n \in 1 .. Len(got[c]) : s[n] = log[n]
  BY <1>1
<1> HIDE DEF s
<1> QED
  BY <1>1, <1>2, SeqEqual DEF s

\* What a driver that keeps everything has left when it is done.
LEMMA KeptAccounts ==
  ASSUME SIZE # 1, BenchInv, Kept, main = "done"
  PROVE  /\ Len(log) = Cardinality(Pushing) * Due
         /\ \A c \in Reading : CASE driver = "QueuePop" -> Left(c) = SIZE - 1
                                 [] OTHER -> Left(c) = 0
<1> USE BenchAssumption
<1>1. /\ BenchTypeOK /\ Threads /\ Logged /\ Given /\ Len(log) \in Nat
      /\ Reading \subseteq Consumers
      /\ \A c \in Consumers : got[c] \in Seq(Item) /\ Len(got[c]) \in Nat
  BY BenchTyped
<1>2. Pushed
  BY <1>1 DEF Threads
<1>3. Len(log) = Cardinality(Pushing) * Due
  BY <1>2, AllLogged
<1>4. CASE driver = "QueuePop"
  <2>1. Pushing = {Main} /\ Reading = {First} /\ Due = SIZE - 1 + rounds /\ rounds \in Nat /\ Sequential
    BY <1>1, <1>4 DEF Pushing, Reading, Due, BenchTypeOK, Sequential
  <2>2. Len(log) = SIZE - 1 + rounds /\ Len(got[First]) = rounds
    BY <1>1, <1>2, <1>4, <2>1 DEF Logged, Claimed, Pushed, Given
  <2>3. SIZE \in Nat /\ rounds \in Nat
    BY <2>1
  <2>4. Left(First) = SIZE - 1
    BY <2>2, <2>3 DEF Left
  <2> QED
    BY <1>3, <1>4, <2>1, <2>4
<1>5. CASE driver # "QueuePop"
  <2>1. ASSUME NEW c \in Reading
        PROVE  Len(got[c]) = Len(log)
    <3>1. Len(got[c]) <= Len(log) /\ Len(got[c]) \in Nat
      BY <1>1 DEF Given
    <3>2. CASE driver = "rdtsc"
      <4>1. Pushing = {Main} /\ Due = ITERS /\ Sequential /\ c = First
        BY <3>2 DEF Pushing, Due, Sequential, Reading
      <4>2. Len(log) = ITERS
        BY <1>1, <1>2, <4>1 DEF Logged, Claimed, Pushed
      <4> QED
        BY <1>1, <3>2, <4>1, <4>2 DEF Given
    <3>3. CASE driver = "ConsumerScaling"
      <4>1. Pushing = Producers /\ Due = OPS /\ ~Sequential
        BY <3>3 DEF Pushing, Due, Sequential
      <4>2. Len(got[c]) >= Len(log)
        BY <1>1, <1>3, <3>3, <4>1 DEF Given, TOTAL
      <4> QED
        BY <1>1, <3>1, <4>2
    <3>4. CASE driver = "ProducerScaling"
      BY <1>1, <3>4 DEF Given, Sequential
    <3> QED
      BY <1>1, <1>5, <3>2, <3>3, <3>4 DEF BenchTypeOK, Drivers, Kept, NoFinalDrain
  <2>2. \A c \in Reading : Left(c) = 0
    BY <1>1, <2>1 DEF Left
  <2> QED
    BY <1>3, <1>5, <2>2
<1> QED
  BY <1>4, <1>5

\* When a driver has joined its threads, its consumers have been given a first
\* part of the log, in order: all of it where there is a final drain, a count to
\* reach or bench_rdtsc's loop, all but at most a queue full of the last entries
\* where there is none.  BM_QueuePop never meets an empty queue.  For any number
\* of threads, pushes, rounds and slots but one slot (bench/*.cpp).
THEOREM AllEverAccountedFor ==
  ASSUME SIZE # 1
  PROVE  Spec => []AllAccountedFor
<1> USE BenchAssumption
<1> DEFINE Inv == BenchInv /\ (~Kept => DrainInv)
<1>1. Init => Inv
  BY BenchStart, DrainStart
<1>2. Inv /\ [Next]_vars => Inv'
  <2> SUFFICES ASSUME Inv, [Next]_vars
               PROVE  BenchInv' /\ (~Kept' => DrainInv')
    OBVIOUS
  <2>1. BenchInv'
    BY BenchStep
  <2>2. Kept' = Kept
    BY DriverFixed
  <2>3. ~Kept' => DrainInv'
    BY <2>2, DrainStep
  <2> QED
    BY <2>1, <2>3
<1>3. Inv => AllAccountedFor
  <2> SUFFICES ASSUME Inv
               PROVE  AllAccountedFor
    OBVIOUS
  <2>1. CASE Kept
    <3>1. Prefixes /\ Reading \subseteq Consumers /\ Len(log) \in Nat
      BY <2>1, BenchTyped DEF Prefixes, BenchTypeOK, Given
    <3>2. main # "Queue empty unexpectedly"
      BY <2>1, BenchTyped DEF BenchTypeOK
    <3>3. \A c \in Reading : got[c] = SubSeq(log, 1, Len(got[c]))
      BY <3>1, IsFirstPart
    <3>4. driver \notin NoFinalDrain
      BY <2>1 DEF Kept
    <3>5. main = "done" => /\ Len(log) = Cardinality(Pushing) * Due
                           /\ \A c \in Reading : CASE driver = "QueuePop" -> Left(c) = SIZE - 1
                                                   [] OTHER -> Left(c) = 0
      BY <2>1, KeptAccounts
    <3>6. main = "done" => Len(log) <= Cardinality(Pushing) * Due
      BY <3>1, <3>5
    <3> QED
      BY <3>2, <3>3, <3>4, <3>5, <3>6 DEF AllAccountedFor
  <2>2. CASE ~Kept
    <3>1. DrainInv /\ Prefixes /\ Len(log) \in Nat /\ Len(got[First]) \in Nat
      BY <2>2 DEF DrainInv, Prefixes
    <3>2. main # "Queue empty unexpectedly"
      BY <3>1 DEF DrainInv
    <3>3. driver \in NoFinalDrain /\ driver # "QueuePop"
      BY <2>2 DEF Kept, NoFinalDrain
    <3>4. Reading = {First} /\ Pushing = {Main} /\ Cardinality(Pushing) * Due = OPS
      BY <2>2, DrainConstants
    <3>5. got[First] = SubSeq(log, 1, Len(got[First]))
      BY <3>1, IsFirstPart
    <3>6. Left(First) <= SIZE
      BY <3>1 DEF DrainInv, Left
    <3>7. ASSUME main = "done"
          PROVE  Len(log) <= OPS /\ (driver \notin PushOnce => Len(log) = OPS)
      <4>1. Claimed(Main) = OPS
        BY <2>2, <3>1, <3>7, DrainConstants DEF DrainInv, Pushed, Claimed
      <4> QED
        BY <3>1, <4>1 DEF DrainInv
    <3> QED
      BY <3>2, <3>3, <3>4, <3>5, <3>6, <3>7 DEF AllAccountedFor
  <2> QED
    BY <2>1, <2>2
<1> HIDE DEF Inv
<1> QED
  BY <1>1, <1>2, <1>3, PTL DEF Spec
================================================================================
