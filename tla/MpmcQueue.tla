------------------------------ MODULE MpmcQueue ------------------------------
(***************************************************************************)
(* The lock-free broadcast ring buffer MPMCQueue<T, SIZE> of               *)
(* include/mpmc_logger/mpmc_queue.hpp.                                     *)
(*                                                                         *)
(* One action is one access to a shared atomic, or one copy of a slot's    *)
(* data, together with the thread-local computation around it.  The        *)
(* acquire/release pairs of the code order these accesses, so an           *)
(* interleaving of them is what a build can do; the two places where two   *)
(* threads could touch the same plain data at once are the states the      *)
(* invariant NoDataRace forbids.                                           *)
(*                                                                         *)
(* Every consumer sees every entry: a slot is free again when the slowest  *)
(* active consumer has passed it.                                          *)
(***************************************************************************)
EXTENDS Integers, Sequences, FiniteSets

CONSTANTS
  Producers,      \* threads that call push
  Consumers,      \* threads that register, pop and perhaps unregister
  Refreshers,     \* threads that call recompute_and_store_min_tail
  LateJoiners,    \* consumers that may register while pushes are under way
  Leavers,        \* consumers that may unregister
  SIZE,           \* slots of the ring
  MAX_CONSUMERS,  \* entries of consumers_
  INVALID_POS,    \* the "no position" marker, UINT64_MAX in the code
  NoItem,         \* what an unwritten slot holds
  MaxPush         \* bound: calls of push per producer

ASSUME QueueAssumption ==
  /\ SIZE \in Nat \ {0}
  /\ MAX_CONSUMERS \in Nat \ {0}
  /\ MaxPush \in Nat
  /\ INVALID_POS \notin Nat
  /\ LateJoiners \subseteq Consumers
  /\ Leavers \subseteq Consumers
  /\ Producers \cap Consumers = {}
  /\ Producers \cap Refreshers = {}
  /\ Consumers \cap Refreshers = {}

VARIABLES
  \* shared memory
  head,           \* producer_.head
  min_tail,       \* meta_.min_tail, the cached lower bound of the tails
  num_consumers,  \* meta_.num_consumers
  tail,           \* consumers_[i].tail
  active,         \* consumers_[i].active
  sequence,       \* slots_[s].sequence
  data,           \* slots_[s].data
  \* thread-local state
  pc,             \* where each thread stands in its call
  pos,            \* local `head` of push and of register_consumer
  lmin,           \* local `min_tail` of push
  scan_i,         \* loop index of compute_min_tail
  scan_min,       \* minimum found so far by compute_min_tail
  cid,            \* the consumer id a consumer was given
  \* history, read by no guard
  pushes,         \* calls of push each producer has made
  log,            \* items in the order their positions were claimed
  got,            \* items each consumer's pops have returned
  lag_seen        \* 1 once the current push has seen the ring full (LagLevel)

shared  == <<head, min_tail, num_consumers, tail, active, sequence, data>>
locals  == <<pos, lmin, scan_i, scan_min, cid>>
history == <<pushes, log, got, lag_seen>>
vars    == <<head, min_tail, num_consumers, tail, active, sequence, data,
             pc, pos, lmin, scan_i, scan_min, cid,
             pushes, log, got, lag_seen>>

Threads  == Producers \cup Consumers \cup Refreshers
Scanners == Producers \cup Refreshers
Ids      == 0 .. MAX_CONSUMERS - 1
Slots    == 0 .. SIZE - 1
Items    == Producers \X (1 .. MaxPush)

Goto(t, from, to) == pc[t] = from /\ pc' = [pc EXCEPT ![t] = to]

(***************************************************************************)
(* Positions and slots.                                                    *)
(***************************************************************************)

\* head & INDEX_MASK; SIZE is a power of two in the code
Slot(n) == n % SIZE

Full_OffByOne(h, m) == h > m + SIZE
Full_Early(h, m)    == h + 1 >= m + SIZE
\* The test of push against the cached minimum.
Full(h, m) == h >= m + SIZE

MinPos_Max(a, b) == IF a = INVALID_POS \/ a < b THEN b ELSE a
\* std::min, where INVALID_POS is larger than every position
MinPos(a, b) == IF a = INVALID_POS \/ b < a THEN b ELSE a

ScanResult_Next(t) == IF scan_min[t] = INVALID_POS THEN 0 ELSE scan_min[t] + 1
\* What compute_min_tail returns: 0 when it met no active consumer.
ScanResult(t) == IF scan_min[t] = INVALID_POS THEN 0 ELSE scan_min[t]

Item(p) == <<p, pushes[p]>>

(***************************************************************************)
(* The usage the repository follows (logger.cpp:25-29 and every bench):    *)
(* consumers register first, pushes and min_tail refreshes come after.     *)
(* LateJoiners are exempt, which is how the unrestricted use is modelled.  *)
(***************************************************************************)
Registering == {"unregistered", "reg_head", "reg_tail", "reg_active"}

Ready == \A c \in Consumers \ LateJoiners : pc[c] \notin Registering

\* 1 when an active consumer is SIZE positions behind head
Attached(c) == pc[c] \in {"idle", "pop_copy", "pop_adv"}
Lags(c)     == Attached(c) /\ active[cid[c]] /\ tail[cid[c]] + SIZE <= head
LagLevel    == IF \E c \in Consumers : Lags(c) THEN 1 ELSE 0

SeeLag(t) ==
  lag_seen' = IF t \in Producers /\ LagLevel > lag_seen[t]
              THEN [lag_seen EXCEPT ![t] = LagLevel]
              ELSE lag_seen

-----------------------------------------------------------------------------
Init ==
  /\ head = 0
  /\ min_tail = 0
  /\ num_consumers = 0
  /\ tail = [i \in Ids |-> 0]
  /\ active = [i \in Ids |-> FALSE]
  /\ sequence = [s \in Slots |-> INVALID_POS]
  /\ data = [s \in Slots |-> NoItem]
  /\ pc = [t \in Threads |-> IF t \in Consumers THEN "unregistered" ELSE "idle"]
  /\ pos = [t \in Producers \cup Consumers |-> 0]
  /\ lmin = [p \in Producers |-> 0]
  /\ scan_i = [t \in Scanners |-> 0]
  /\ scan_min = [t \in Scanners |-> INVALID_POS]
  /\ cid = [c \in Consumers |-> 0]
  /\ pushes = [p \in Producers |-> 0]
  /\ log = <<>>
  /\ got = [c \in Consumers |-> <<>>]
  /\ lag_seen = [p \in Producers |-> 0]

-----------------------------------------------------------------------------
(***************************************************************************)
(* register_consumer: the id is taken, the head is read, the tail is set   *)
(* and the entry is activated in four separate accesses.                   *)
(***************************************************************************)
IdsExhausted_OffByOne == num_consumers > MAX_CONSUMERS
IdsExhausted_Early    == num_consumers + 1 >= MAX_CONSUMERS
IdsExhausted == num_consumers >= MAX_CONSUMERS

RegisterTakeId(c) ==
  /\ pc[c] = "unregistered"
  /\ num_consumers' = num_consumers + 1
  /\ IF IdsExhausted
     THEN /\ pc' = [pc EXCEPT ![c] = "rejected"]   \* the call throws
          /\ UNCHANGED cid
     ELSE /\ pc' = [pc EXCEPT ![c] = "reg_head"]
          /\ cid' = [cid EXCEPT ![c] = num_consumers]
  /\ UNCHANGED <<head, min_tail, tail, active, sequence, data,
                 pos, lmin, scan_i, scan_min, history>>

RegisterLoadHead(c) ==
  /\ Goto(c, "reg_head", "reg_tail")
  /\ pos' = [pos EXCEPT ![c] = head]
  /\ UNCHANGED <<shared, lmin, scan_i, scan_min, cid, history>>

RegisterStoreTail(c) ==
  /\ Goto(c, "reg_tail", "reg_active")
  /\ tail' = [tail EXCEPT ![cid[c]] = pos[c]]
  /\ pos' = [pos EXCEPT ![c] = 0]
  /\ UNCHANGED <<head, min_tail, num_consumers, active, sequence, data,
                 lmin, scan_i, scan_min, cid, history>>

RegisterActivate(c) ==
  /\ Goto(c, "reg_active", "idle")
  /\ active' = [active EXCEPT ![cid[c]] = TRUE]
  /\ UNCHANGED <<head, min_tail, num_consumers, tail, sequence, data,
                 locals, history>>

\* unregister_consumer, called when no pop of this consumer is under way
Unregister(c) ==
  /\ c \in Leavers
  /\ pc[c] = "idle"
  /\ active[cid[c]]
  /\ active' = [active EXCEPT ![cid[c]] = FALSE]
  /\ UNCHANGED <<head, min_tail, num_consumers, tail, sequence, data,
                 pc, locals, history>>

-----------------------------------------------------------------------------
(***************************************************************************)
(* pop.  Only its owner writes a consumer's `tail` and `active`, so both   *)
(* are read in the step that reads the slot's sequence.  A pop that finds  *)
(* the consumer inactive or the slot not ready returns false: no change.   *)
(***************************************************************************)
SlotReady_Any(c)  == sequence[Slot(tail[cid[c]])] # INVALID_POS
SlotReady_Next(c) == sequence[Slot(tail[cid[c]])] = tail[cid[c]] + 1
SlotReady(c) == sequence[Slot(tail[cid[c]])] = tail[cid[c]]

PopCheck(c) ==
  /\ Goto(c, "idle", "pop_copy")
  /\ active[cid[c]]
  /\ SlotReady(c)
  /\ UNCHANGED <<shared, locals, history>>

PopCopy(c) ==
  /\ Goto(c, "pop_copy", "pop_adv")
  /\ got' = [got EXCEPT ![c] = Append(@, data[Slot(tail[cid[c]])])]
  /\ UNCHANGED <<shared, locals, pushes, log, lag_seen>>

PopAdvance(c) ==
  /\ Goto(c, "pop_adv", "idle")
  /\ tail' = [tail EXCEPT ![cid[c]] = @ + 1]
  /\ UNCHANGED <<head, min_tail, num_consumers, active, sequence, data,
                 locals, history>>

-----------------------------------------------------------------------------
(***************************************************************************)
(* compute_min_tail, run by a push that finds the ring full and by         *)
(* recompute_and_store_min_tail.  The four accumulators of the code only   *)
(* regroup a minimum; the entries are read in the order of their index.    *)
(***************************************************************************)
ScanActive(t) ==
  /\ pc[t] = "scan"
  /\ scan_i[t] < MAX_CONSUMERS
  /\ IF active[scan_i[t]]
     THEN /\ pc' = [pc EXCEPT ![t] = "scan_tail"]
          /\ UNCHANGED scan_i
     ELSE /\ scan_i' = [scan_i EXCEPT ![t] = @ + 1]
          /\ UNCHANGED pc
  /\ SeeLag(t)
  /\ UNCHANGED <<shared, pos, lmin, scan_min, cid, pushes, log, got>>

ScanTail(t) ==
  /\ Goto(t, "scan_tail", "scan")
  /\ scan_min' = [scan_min EXCEPT ![t] = MinPos(@, tail[scan_i[t]])]
  /\ scan_i' = [scan_i EXCEPT ![t] = @ + 1]
  /\ SeeLag(t)
  /\ UNCHANGED <<shared, pos, lmin, cid, pushes, log, got>>

\* Locals that the code no longer reads are reset, which merges states.
EndScan(t) ==
  /\ pc[t] = "scan"
  /\ scan_i[t] = MAX_CONSUMERS
  /\ scan_i' = [scan_i EXCEPT ![t] = 0]
  /\ scan_min' = [scan_min EXCEPT ![t] = INVALID_POS]

RefreshCall(r) ==
  /\ Ready
  /\ Goto(r, "idle", "scan")
  /\ UNCHANGED <<shared, locals, history>>

RefreshStore(r) ==
  /\ EndScan(r)
  /\ min_tail' = ScanResult(r)
  /\ pc' = [pc EXCEPT ![r] = "idle"]
  /\ UNCHANGED <<head, num_consumers, tail, active, sequence, data,
                 pos, lmin, cid, history>>

-----------------------------------------------------------------------------
(***************************************************************************)
(* push.                                                                   *)
(***************************************************************************)
PushCall(p) ==
  /\ Ready
  /\ pushes[p] < MaxPush
  /\ Goto(p, "idle", "load_head")
  /\ pushes' = [pushes EXCEPT ![p] = @ + 1]
  /\ UNCHANGED <<shared, locals, log, got, lag_seen>>

PushLoadHead(p) ==
  /\ Goto(p, "load_head", "load_min")
  /\ pos' = [pos EXCEPT ![p] = head]
  /\ UNCHANGED <<shared, lmin, scan_i, scan_min, cid, history>>

PushLoadMinTail(p) ==
  /\ pc[p] = "load_min"
  /\ lmin' = [lmin EXCEPT ![p] = min_tail]
  /\ pc' = [pc EXCEPT ![p] = IF Full(pos[p], min_tail) THEN "scan" ELSE "cas"]
  /\ UNCHANGED <<shared, pos, scan_i, scan_min, cid, history>>

\* The scan is over: cache its result and test for room once more.
PushUseScan(p) ==
  /\ EndScan(p)
  /\ min_tail' = IF ScanResult(p) # lmin[p] THEN ScanResult(p) ELSE min_tail
  /\ lmin' = [lmin EXCEPT ![p] = ScanResult(p)]
  /\ pc' = [pc EXCEPT ![p] =
              IF Full(pos[p], ScanResult(p)) THEN "full" ELSE "cas"]
  /\ UNCHANGED <<head, num_consumers, tail, active, sequence, data,
                 pos, cid, history>>

\* `return false`
PushReturnFull(p) ==
  /\ Goto(p, "full", "idle")
  /\ pos' = [pos EXCEPT ![p] = 0]
  /\ lmin' = [lmin EXCEPT ![p] = 0]
  /\ lag_seen' = [lag_seen EXCEPT ![p] = 0]
  /\ UNCHANGED <<shared, scan_i, scan_min, cid, pushes, log, got>>

CasMatches_Dropped(p) == TRUE
CasMatches(p) == head = pos[p]

\* The compare-exchange succeeds: position pos[p] belongs to p.
PushCas(p) ==
  /\ Goto(p, "cas", "copy")
  /\ CasMatches(p)
  /\ head' = pos[p] + 1
  /\ log' = Append(log, Item(p))
  /\ lmin' = [lmin EXCEPT ![p] = 0]
  /\ lag_seen' = [lag_seen EXCEPT ![p] = 0]
  /\ UNCHANGED <<min_tail, num_consumers, tail, active, sequence, data,
                 pos, scan_i, scan_min, cid, pushes, got>>

PushCasFail_KeepHead(p) == Goto(p, "cas", "cas") /\ UNCHANGED <<shared, locals, history>>
\* It fails because head moved, or spuriously (compare_exchange_weak).
PushCasFail(p) ==
  /\ Goto(p, "cas", "load_head")
  /\ pos' = [pos EXCEPT ![p] = 0]
  /\ lmin' = [lmin EXCEPT ![p] = 0]
  /\ UNCHANGED <<shared, scan_i, scan_min, cid, history>>

PushCopy(p) ==
  /\ Goto(p, "copy", "publish")
  /\ data' = [data EXCEPT ![Slot(pos[p])] = Item(p)]
  /\ UNCHANGED <<head, min_tail, num_consumers, tail, active, sequence,
                 locals, history>>

\* sequence.store(head, release), then `return true`
PushPublish(p) ==
  /\ Goto(p, "publish", "idle")
  /\ sequence' = [sequence EXCEPT ![Slot(pos[p])] = pos[p]]
  /\ pos' = [pos EXCEPT ![p] = 0]
  /\ UNCHANGED <<head, min_tail, num_consumers, tail, active, data,
                 lmin, scan_i, scan_min, cid, history>>

-----------------------------------------------------------------------------
RegisterStep(c) == \/ RegisterTakeId(c)
                   \/ RegisterLoadHead(c)
                   \/ RegisterStoreTail(c)
                   \/ RegisterActivate(c)

PopStep(c) == PopCheck(c) \/ PopCopy(c) \/ PopAdvance(c)

ScanStep(t) == ScanActive(t) \/ ScanTail(t)

PushStep(p) == \/ PushLoadHead(p)
               \/ PushLoadMinTail(p)
               \/ ScanStep(p)
               \/ PushUseScan(p)
               \/ PushReturnFull(p)
               \/ PushCas(p)
               \/ PushCasFail(p)
               \/ PushCopy(p)
               \/ PushPublish(p)

Next ==
  \/ \E c \in Consumers : RegisterStep(c) \/ PopStep(c) \/ Unregister(c)
  \/ \E p \in Producers : PushCall(p) \/ PushStep(p)
  \/ \E r \in Refreshers : RefreshCall(r) \/ ScanStep(r) \/ RefreshStore(r)

Spec == Init /\ [][Next]_vars

(***************************************************************************)
(* Fairness: a running thread keeps running (each step of a call is a      *)
(* plain instruction), a consumer that is registered keeps calling pop,    *)
(* and one compare-exchange neither fails spuriously for ever nor loses to *)
(* other producers for ever, which MaxPush bounds.  Nobody is obliged to   *)
(* call push, to refresh or to unregister.                                 *)
(***************************************************************************)
Fairness ==
  /\ \A c \in Consumers : WF_vars(RegisterStep(c)) /\ WF_vars(PopStep(c))
  /\ \A p \in Producers : WF_vars(PushStep(p)) /\ SF_vars(PushCas(p))

FairSpec == Spec /\ Fairness

-----------------------------------------------------------------------------
ProducerPcs  == {"idle", "load_head", "load_min", "scan", "scan_tail", "full",
                 "cas", "copy", "publish"}
ConsumerPcs  == Registering \cup {"rejected", "idle", "pop_copy", "pop_adv"}
RefresherPcs == {"idle", "scan", "scan_tail"}
Pcs == ProducerPcs \cup ConsumerPcs \cup RefresherPcs

\* Every variable has the range its C++ declaration suggests.
TypeOK ==
  /\ head \in Nat
  /\ min_tail \in Nat
  /\ num_consumers \in Nat
  /\ tail \in [Ids -> Nat]
  /\ active \in [Ids -> BOOLEAN]
  /\ sequence \in [Slots -> Nat \cup {INVALID_POS}]
  /\ data \in [Slots -> Items \cup {NoItem}]
  /\ pc \in [Threads -> Pcs]
  /\ \A p \in Producers : pc[p] \in ProducerPcs
  /\ \A c \in Consumers : pc[c] \in ConsumerPcs
  /\ \A r \in Refreshers : pc[r] \in RefresherPcs
  /\ pos \in [Producers \cup Consumers -> Nat]
  /\ lmin \in [Producers -> Nat]
  /\ scan_i \in [Scanners -> 0 .. MAX_CONSUMERS]
  /\ \A t \in Scanners : pc[t] = "scan_tail" => scan_i[t] < MAX_CONSUMERS
  /\ scan_min \in [Scanners -> Nat \cup {INVALID_POS}]
  /\ cid \in [Consumers -> Ids]
  /\ pushes \in [Producers -> 0 .. MaxPush]
  /\ \A p \in Producers : pc[p] # "idle" => pushes[p] > 0
  /\ log \in Seq(Items)
  /\ got \in [Consumers -> Seq(Items \cup {NoItem})]
  /\ lag_seen \in [Producers -> 0 .. 1]

-----------------------------------------------------------------------------
(***************************************************************************)
(* Properties.                                                             *)
(***************************************************************************)
Claimed(p) == pc[p] \in {"copy", "publish"}

\* No slot's plain data is touched by two threads at once: while push copies
\* into a slot (mpmc_queue.hpp:216) no other push copies into it and no pop
\* copies out of it (:242).
NoDataRace ==
  /\ \A p, q \in Producers :
       p # q /\ pc[p] = "copy" /\ pc[q] = "copy" => Slot(pos[p]) # Slot(pos[q])
  /\ \A p \in Producers, c \in Consumers :
       pc[p] = "copy" /\ pc[c] = "pop_copy" => Slot(pos[p]) # Slot(tail[cid[c]])

\* A consumer registered before the first push is handed exactly the items of
\* the claimed positions, in claim order: none lost, repeated, torn or
\* overwritten before it was read (pop, mpmc_queue.hpp:226-247).
DeliveredInOrder ==
  \A c \in Consumers \ LateJoiners : \A n \in 1 .. Len(got[c]) :
    n <= Len(log) /\ got[c][n] = log[n]

\* Every position an active consumer has yet to read is either still being
\* written by the push that claimed it or readable in its slot: so a consumer
\* can never wait for a position the ring no longer holds.
RingHoldsUnread ==
  \A c \in Consumers : Attached(c) /\ active[cid[c]] =>
    \A k \in tail[cid[c]] .. head - 1 :
      \/ \E p \in Producers : Claimed(p) /\ pos[p] = k
      \/ sequence[Slot(k)] = k /\ data[Slot(k)] = log[k + 1]

\* The cached min_tail, stored without a compare-exchange by several threads
\* and possibly stale (mpmc_queue.hpp:192-195, :298), never exceeds the tail
\* of an active consumer.
CacheIsLowerBound ==
  \A i \in Ids : active[i] => min_tail <= tail[i]

\* A push returns false only if, at some moment during the call, an active
\* consumer really was SIZE positions behind head (mpmc_queue.hpp:197-199).
FullIsGenuine == \A p \in Producers : pc[p] = "full" => lag_seen[p] = 1

\* register_consumer throws "too many consumers (max 32)" only while
\* MAX_CONSUMERS other consumers hold an entry (mpmc_queue.hpp:163-166).
HoldsEntry(c) == \/ pc[c] \in {"reg_head", "reg_tail", "reg_active"}
                 \/ Attached(c) /\ active[cid[c]]
RejectedOnlyWhenFull ==
  [][\A c \in Consumers : pc[c] # "rejected" /\ pc'[c] = "rejected" =>
       Cardinality({d \in Consumers : HoldsEntry(d)}) >= MAX_CONSUMERS]_vars

\* Under FairSpec every call of push returns, true or false.
PushReturns == \A p \in Producers : pc[p] = "load_head" ~> pc[p] = "idle"

\* Under FairSpec every claimed position is delivered to every consumer that
\* registered before the pushes and stays.
EveryClaimRead ==
  \A c \in Consumers \ (Leavers \cup LateJoiners) :
    \A n \in 1 .. MaxPush * Cardinality(Producers) :
      Len(log) >= n ~> (Len(got[c]) >= n \/ pc[c] = "rejected")
=============================================================================
