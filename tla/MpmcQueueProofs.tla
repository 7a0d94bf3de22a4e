---------------------------- MODULE MpmcQueueProofs ----------------------------
(***************************************************************************)
(* Proofs about MpmcQueue: type correctness for every use of the queue,    *)
(* the inductive invariant IInv for consumers that register before the     *)
(* pushes, and the safety properties it implies.                           *)
(***************************************************************************)
EXTENDS MpmcQueueInv, TLAPS

\* A position's slot is one of the ring's (head & INDEX_MASK).
LEMMA SlotRange == \A n \in Nat : Slot(n) \in Slots
BY QueueAssumption DEF Slot, Slots

\* Positions less than a lap apart use different slots.
LEMMA SlotInjective ==
  ASSUME NEW a \in Nat, NEW b \in Nat, a <= b, b < a + SIZE, Slot(a) = Slot(b)
  PROVE  a = b
<1> DEFINE m == a \div SIZE
           n == b \div SIZE
           r == a % SIZE
<1>1. SIZE \in Nat \ {0} /\ m \in Int /\ n \in Int /\ r \in Int
  BY QueueAssumption
<1>2. a = SIZE * m + r
  BY QueueAssumption
<1>3. b = SIZE * n + r
  BY QueueAssumption DEF Slot
<1> HIDE DEF m, n, r
<1>4. 0 <= SIZE * (n - m) /\ SIZE * (n - m) < SIZE
  BY <1>1, <1>2, <1>3
<1>5. n - m = 0
  BY <1>1, <1>4
<1> QED
  BY <1>1, <1>2, <1>3, <1>5

-----------------------------------------------------------------------------
(***************************************************************************)
(* Type correctness.                                                       *)
(***************************************************************************)

\* A thread plays one role.
LEMMA Roles ==
  /\ \A p \in Producers, c \in Consumers : p # c
  /\ \A p \in Producers, r \in Refreshers : p # r
  /\ \A c \in Consumers, r \in Refreshers : c # r
BY QueueAssumption DEF QueueAssumption

\* The types hold at the start.
LEMMA TypeInit == Init => TypeOK
BY QueueAssumption, Roles
DEF Init, TypeOK, Pcs, ProducerPcs, ConsumerPcs, RefresherPcs, Registering, Threads, Scanners, Ids, Slots

\* What each producer's item is worth.
LEMMA ItemType ==
  ASSUME TypeOK, NEW p \in Producers, pc[p] # "idle"
  PROVE  Item(p) \in Items
BY DEF TypeOK, Item, Items, Threads

\* LagLevel is 0 or 1.
LEMMA LagType == LagLevel \in 0 .. 1
BY DEF LagLevel

\* Seeing the lag keeps its type.
LEMMA SeeLagType ==
  ASSUME TypeOK, NEW t \in Scanners, SeeLag(t)
  PROVE  lag_seen' \in [Producers -> 0 .. 1]
BY LagType DEF TypeOK, SeeLag

\* A minimum with a position is a position.
LEMMA MinPosType ==
  ASSUME NEW a \in Nat \cup {INVALID_POS}, NEW b \in Nat
  PROVE  MinPos(a, b) \in Nat
BY QueueAssumption DEF MinPos

\* Every step keeps the types.
LEMMA TypeStep == TypeOK /\ [Next]_vars => TypeOK'
<1> SUFFICES ASSUME TypeOK, [Next]_vars PROVE TypeOK'
  OBVIOUS
<1> USE QueueAssumption, Roles DEF TypeOK, Pcs, ProducerPcs, ConsumerPcs, RefresherPcs, Registering, Threads, Scanners,
      shared, locals, history
<1>1. ASSUME NEW c \in Consumers, RegisterTakeId(c) PROVE TypeOK'
  <2>1. num_consumers' \in Nat
    BY <1>1 DEF RegisterTakeId
  <2>2. cid' \in [Consumers -> Ids]
    <3>1. num_consumers < MAX_CONSUMERS => num_consumers \in Ids
      BY DEF Ids
    <3>2. \/ cid' = cid
          \/ num_consumers < MAX_CONSUMERS /\ cid' = [cid EXCEPT ![c] = num_consumers]
      BY <1>1 DEF RegisterTakeId, IdsExhausted
    <3>3. CASE cid' = cid
      BY <3>3
    <3>4. CASE num_consumers \in Ids /\ cid' = [cid EXCEPT ![c] = num_consumers]
      BY <3>4
    <3> QED
      BY <3>1, <3>2, <3>3, <3>4
  <2>3. pc' = [pc EXCEPT ![c] = "rejected"] \/ pc' = [pc EXCEPT ![c] = "reg_head"]
    BY <1>1 DEF RegisterTakeId
  <2> QED
    BY <1>1, <2>1, <2>2, <2>3 DEF RegisterTakeId
<1>2. ASSUME NEW c \in Consumers, RegisterLoadHead(c) PROVE TypeOK'
  BY <1>2 DEF RegisterLoadHead, Goto
<1>3. ASSUME NEW c \in Consumers, RegisterStoreTail(c) PROVE TypeOK'
  BY <1>3 DEF RegisterStoreTail, Goto
<1>4. ASSUME NEW c \in Consumers, RegisterActivate(c) PROVE TypeOK'
  BY <1>4 DEF RegisterActivate, Goto
<1>5. ASSUME NEW c \in Consumers, PopCheck(c) PROVE TypeOK'
  BY <1>5 DEF PopCheck, Goto
<1>6. ASSUME NEW c \in Consumers, PopCopy(c) PROVE TypeOK'
  <2>1. /\ pc' = [pc EXCEPT ![c] = "pop_adv"]
        /\ got' = [got EXCEPT ![c] = Append(@, data[Slot(tail[cid[c]])])]
        /\ UNCHANGED <<head, min_tail, num_consumers, tail, active, sequence, data,
                       pos, lmin, scan_i, scan_min, cid, pushes, log, lag_seen>>
    BY <1>6 DEF PopCopy, Goto
  <2>2. got' \in [Consumers -> Seq(Items \cup {NoItem})]
    BY <2>1, SlotRange
  <2> QED
    BY <2>1, <2>2
<1>7. ASSUME NEW c \in Consumers, PopAdvance(c) PROVE TypeOK'
  <2>1. /\ tail' = [tail EXCEPT ![cid[c]] = @ + 1]
        /\ pc' = [pc EXCEPT ![c] = "idle"]
        /\ UNCHANGED <<head, min_tail, num_consumers, active, sequence, data,
                       pos, lmin, scan_i, scan_min, cid, pushes, log, got, lag_seen>>
    BY <1>7 DEF PopAdvance, Goto
  <2>2. tail' \in [Ids -> Nat]
    BY <2>1
  <2> QED
    BY <2>1, <2>2
<1>8. ASSUME NEW c \in Consumers, Unregister(c) PROVE TypeOK'
  BY <1>8 DEF Unregister, Goto
<1>9. ASSUME NEW p \in Producers, PushCall(p) PROVE TypeOK'
  <2>1. pushes' = [pushes EXCEPT ![p] = pushes[p] + 1] /\ pushes[p] < MaxPush
    BY <1>9 DEF PushCall
  <2>2. pushes' \in [Producers -> 0 .. MaxPush] /\ pushes'[p] > 0
    BY <2>1, QueueAssumption
  <2>3. /\ pc' = [pc EXCEPT ![p] = "load_head"] /\ pc[p] = "idle"
        /\ UNCHANGED <<head, min_tail, num_consumers, tail, active, sequence, data,
                       pos, lmin, scan_i, scan_min, cid, log, got, lag_seen>>
    BY <1>9 DEF PushCall, Goto
  <2> QED
    BY <2>1, <2>2, <2>3
<1>10. ASSUME NEW p \in Producers, PushLoadHead(p) PROVE TypeOK'
  BY <1>10 DEF PushLoadHead, Goto
<1>11. ASSUME NEW p \in Producers, PushLoadMinTail(p) PROVE TypeOK'
  BY <1>11 DEF PushLoadMinTail, Goto
<1>12. ASSUME NEW p \in Producers, PushUseScan(p) PROVE TypeOK'
  BY <1>12 DEF PushUseScan, Goto, EndScan, ScanResult
<1>13. ASSUME NEW p \in Producers, PushReturnFull(p) PROVE TypeOK'
  <2>1. /\ pos' \in [Producers \cup Consumers -> Nat] /\ lmin' \in [Producers -> Nat]
        /\ lag_seen' \in [Producers -> 0 .. 1]
    BY <1>13 DEF PushReturnFull
  <2>2. pc' = [pc EXCEPT ![p] = "idle"] /\ pc[p] = "full"
    BY <1>13 DEF PushReturnFull, Goto
  <2>3. UNCHANGED <<head, min_tail, num_consumers, tail, active, sequence, data,
                    scan_i, scan_min, cid, pushes, log, got>>
    BY <1>13 DEF PushReturnFull
  <2> QED
    BY <2>1, <2>2, <2>3
<1>14. ASSUME NEW p \in Producers, PushCas(p) PROVE TypeOK'
  <2>1. Item(p) \in Items
    BY <1>14, ItemType DEF PushCas, Goto
  <2>2. log' \in Seq(Items)
    BY <1>14, <2>1 DEF PushCas
  <2>3. head' \in Nat
    BY <1>14 DEF PushCas
  <2>4. lmin' \in [Producers -> Nat] /\ lag_seen' \in [Producers -> 0 .. 1]
    BY <1>14 DEF PushCas
  <2>5. pc' = [pc EXCEPT ![p] = "copy"] /\ pc[p] = "cas"
    BY <1>14 DEF PushCas, Goto
  <2>6. UNCHANGED <<min_tail, num_consumers, tail, active, sequence, data,
                    pos, scan_i, scan_min, cid, pushes, got>>
    BY <1>14 DEF PushCas
  <2> QED
    BY <2>2, <2>3, <2>4, <2>5, <2>6
<1>15. ASSUME NEW p \in Producers, PushCasFail(p) PROVE TypeOK'
  BY <1>15 DEF PushCasFail, Goto
<1>16. ASSUME NEW p \in Producers, PushCopy(p) PROVE TypeOK'
  BY <1>16, ItemType, SlotRange DEF PushCopy, Goto
<1>17. ASSUME NEW p \in Producers, PushPublish(p) PROVE TypeOK'
  BY <1>17, SlotRange DEF PushPublish, Goto
<1>18. ASSUME NEW r \in Refreshers, RefreshCall(r) PROVE TypeOK'
  BY <1>18 DEF RefreshCall, Goto
<1>19. ASSUME NEW r \in Refreshers, RefreshStore(r) PROVE TypeOK'
  BY <1>19 DEF RefreshStore, Goto, EndScan, ScanResult
<1>20. ASSUME NEW t \in Scanners, ScanActive(t) PROVE TypeOK'
  <2>1. lag_seen' \in [Producers -> 0 .. 1]
    BY <1>20, SeeLagType DEF ScanActive
  <2>2. UNCHANGED <<shared, pos, lmin, scan_min, cid, pushes, log, got>>
    BY <1>20 DEF ScanActive
  <2>3. pc[t] = "scan" /\ scan_i[t] < MAX_CONSUMERS
    BY <1>20 DEF ScanActive
  <2>4. \/ pc' = [pc EXCEPT ![t] = "scan_tail"] /\ scan_i' = scan_i
        \/ pc' = pc /\ scan_i' = [scan_i EXCEPT ![t] = @ + 1]
    BY <1>20 DEF ScanActive
  <2>5. CASE pc' = [pc EXCEPT ![t] = "scan_tail"] /\ scan_i' = scan_i
    BY <2>1, <2>2, <2>3, <2>5
  <2>6. CASE pc' = pc /\ scan_i' = [scan_i EXCEPT ![t] = @ + 1]
    <3>1. scan_i' \in [Scanners -> 0 .. MAX_CONSUMERS]
      BY <2>3, <2>6
    <3> QED
      BY <2>1, <2>2, <2>3, <2>6, <3>1
  <2> QED
    BY <2>4, <2>5, <2>6
<1>21. ASSUME NEW t \in Scanners, ScanTail(t) PROVE TypeOK'
  <2>1. scan_i[t] \in Ids /\ scan_min[t] \in Nat \cup {INVALID_POS}
    BY <1>21 DEF ScanTail, Goto, Ids
  <2>2. MinPos(scan_min[t], tail[scan_i[t]]) \in Nat
    BY <2>1, MinPosType
  <2>3. lag_seen' \in [Producers -> 0 .. 1]
    BY <1>21, SeeLagType DEF ScanTail
  <2>4. /\ pc' = [pc EXCEPT ![t] = "scan"]
        /\ scan_i' = [scan_i EXCEPT ![t] = scan_i[t] + 1]
        /\ scan_min' = [scan_min EXCEPT ![t] = MinPos(scan_min[t], tail[scan_i[t]])]
        /\ UNCHANGED <<head, min_tail, num_consumers, tail, active, sequence,
                       data, pos, lmin, cid, pushes, log, got>>
    BY <1>21 DEF ScanTail, Goto
  <2>5. scan_i' \in [Scanners -> 0 .. MAX_CONSUMERS]
    BY <2>1, <2>4 DEF Ids
  <2>6. scan_min' \in [Scanners -> Nat \cup {INVALID_POS}]
    BY <2>2, <2>4
  <2>7. /\ pc' \in [Threads -> Pcs]
        /\ \A p \in Producers : pc'[p] \in ProducerPcs
        /\ \A c \in Consumers : pc'[c] \in ConsumerPcs
        /\ \A r \in Refreshers : pc'[r] \in RefresherPcs
        /\ \A u \in Scanners : pc'[u] = "scan_tail" => scan_i'[u] < MAX_CONSUMERS
        /\ \A p \in Producers : pc'[p] # "idle" => pushes[p] > 0
    BY <1>21, <2>4 DEF ScanTail, Goto
  <2> QED
    BY <2>3, <2>4, <2>5, <2>6, <2>7
<1>22. CASE UNCHANGED vars
  BY <1>22 DEF vars
<1> QED
  BY <1>1, <1>2, <1>3, <1>4, <1>5, <1>6, <1>7, <1>8, <1>9, <1>10, <1>11, <1>12, <1>13, <1>14, <1>15, <1>16, <1>17, <1>18, <1>19, <1>20, <1>21, <1>22
  DEF Next, RegisterStep, PopStep, PushStep, ScanStep

\* Every variable keeps its type, however the queue is used.
THEOREM TypeCorrect == Spec => []TypeOK
<1>1. Init => TypeOK
  BY TypeInit
<1>2. TypeOK /\ [Next]_vars => TypeOK'
  BY TypeStep
<1> QED
  BY <1>1, <1>2, PTL DEF Spec

-----------------------------------------------------------------------------
(***************************************************************************)
(* Who changes what: the three frames the preservation lemmas use.         *)
(***************************************************************************)
ConsumerStep(c) == RegisterStep(c) \/ PopStep(c) \/ Unregister(c)

\* The steps of a push or a refresh that claim and write no position.
ClaimlessStep(t) ==
  \/ t \in Producers /\ \/ PushCall(t)
                        \/ PushLoadHead(t)
                        \/ PushLoadMinTail(t)
                        \/ PushUseScan(t)
                        \/ PushReturnFull(t)
                        \/ PushCasFail(t)
  \/ t \in Refreshers /\ (RefreshCall(t) \/ RefreshStore(t))
  \/ ScanStep(t)

ScannerStep(t) ==
  \/ ClaimlessStep(t)
  \/ t \in Producers /\ (PushCas(t) \/ PushCopy(t) \/ PushPublish(t))

\* Every step is one of a consumer, or one of a push or a refresh.
LEMMA StepKinds ==
  ASSUME Next
  PROVE  \/ \E c \in Consumers : ConsumerStep(c)
         \/ \E t \in Scanners : ScannerStep(t)
BY DEF Next, ConsumerStep, ScannerStep, ClaimlessStep, PushStep, Scanners

\* A consumer changes no producer's state.
LEMMA ConsumerFrame ==
  ASSUME TypeOK, NEW c \in Consumers, ConsumerStep(c)
  PROVE  /\ UNCHANGED <<head, min_tail, sequence, data, lmin, scan_i,
                        scan_min, pushes, log>>
         /\ \A t \in Scanners : pc'[t] = pc[t]
         /\ \A p \in Producers : pos'[p] = pos[p]
         /\ \A d \in Consumers \ {c} :
              pc'[d] = pc[d] /\ cid'[d] = cid[d] /\ got'[d] = got[d] /\ pos'[d] = pos[d]
BY Roles
DEF ConsumerStep, RegisterStep, PopStep, RegisterTakeId, RegisterLoadHead,
    RegisterStoreTail, RegisterActivate, PopCheck, PopCopy, PopAdvance,
    Unregister, Goto, TypeOK, Threads, Scanners, shared, locals, history

\* A push or a refresh changes no consumer's state, and no other push's.
LEMMA ScannerFrame ==
  ASSUME TypeOK, NEW t \in Scanners, ScannerStep(t)
  PROVE  /\ UNCHANGED <<num_consumers, tail, active, cid, got>>
         /\ \A c \in Consumers : pc'[c] = pc[c] /\ pos'[c] = pos[c]
         /\ \A u \in Scanners \ {t} : pc'[u] = pc[u]
         /\ \A p \in Producers \ {t} :
              pos'[p] = pos[p] /\ lmin'[p] = lmin[p] /\ pushes'[p] = pushes[p]
         /\ \A u \in Scanners \ {t} :
              scan_i'[u] = scan_i[u] /\ scan_min'[u] = scan_min[u]
<1> USE Roles
    DEF ScannerStep, ClaimlessStep, ScanStep, PushCall, PushLoadHead,
      PushLoadMinTail, PushUseScan, PushReturnFull, PushCasFail, PushCas,
      PushCopy, PushPublish, RefreshCall, RefreshStore, ScanActive, ScanTail,
      EndScan, Goto, Threads, Scanners,
      shared, locals, history
<1>1. UNCHANGED <<num_consumers, tail, active, cid, got>>
  BY DEF TypeOK
<1>2. \A c \in Consumers : pc'[c] = pc[c] /\ pos'[c] = pos[c]
  BY DEF TypeOK
<1>3. \A u \in Scanners \ {t} : pc'[u] = pc[u]
  BY DEF TypeOK
<1>4. \A p \in Producers \ {t} :
        pos'[p] = pos[p] /\ lmin'[p] = lmin[p] /\ pushes'[p] = pushes[p]
  BY DEF TypeOK
<1>5. \A u \in Scanners \ {t} :
        scan_i'[u] = scan_i[u] /\ scan_min'[u] = scan_min[u]
  BY DEF TypeOK
<1> QED
  BY <1>1, <1>2, <1>3, <1>4, <1>5

\* Without a claim, log, slots and claims stay.
LEMMA ClaimlessFrame ==
  ASSUME TypeOK, NEW t \in Scanners, ClaimlessStep(t)
  PROVE  /\ UNCHANGED <<head, sequence, data, log>>
         /\ \A p \in Producers :
              /\ Claimed(p)' <=> Claimed(p)
              /\ Claimed(p) => UNCHANGED <<pc[p], pos[p], pushes[p]>>
<1> USE DEF ClaimlessStep, ScanStep, PushCall, PushLoadHead, PushLoadMinTail,
            PushUseScan, PushReturnFull, PushCasFail, RefreshCall, RefreshStore,
            ScanActive, ScanTail, EndScan, Goto, shared, locals, history
<1>1. UNCHANGED <<head, sequence, data, log>>
  OBVIOUS
<1>2. /\ pc \in [Threads -> Pcs] /\ pushes \in [Producers -> 0 .. MaxPush]
      /\ pos \in [Producers \cup Consumers -> Nat]
      /\ t \in Threads /\ Producers \subseteq Threads
  BY DEF TypeOK, Threads, Scanners
<1>3. /\ \A u \in Threads \ {t} : pc'[u] = pc[u]
      /\ pc[t] \notin {"copy", "publish"} /\ pc'[t] \notin {"copy", "publish"}
  BY <1>2
<1>4. \A p \in Producers \ {t} : pos'[p] = pos[p] /\ pushes'[p] = pushes[p]
  BY <1>2
<1> QED
  BY <1>1, <1>2, <1>3, <1>4 DEF Claimed

-----------------------------------------------------------------------------
(***************************************************************************)
(* Start-up.  With nobody joining late, a registration step happens only   *)
(* before the first push or refresh.                                       *)
(***************************************************************************)
LEMMA ReadyTypes ==
  ASSUME LateJoiners = {}
  PROVE  Ready <=> \A c \in Consumers : pc[c] \notin Registering
BY DEF Ready

\* Nobody pushes or refreshes before all have registered.
LEMMA BusyMeansReady ==
  ASSUME StartUp, NEW t \in Scanners, pc[t] # "idle"
  PROVE  Ready
BY DEF StartUp

\* While someone registers, nothing has happened yet.
LEMMA Quiet ==
  ASSUME LateJoiners = {}, StartUp, NEW c \in Consumers, pc[c] \in Registering
  PROVE  /\ ~ Ready
         /\ head = 0 /\ min_tail = 0
         /\ \A i \in Ids : tail[i] = 0
         /\ \A t \in Scanners : pc[t] = "idle"
         /\ \A p \in Producers : ~ Claimed(p)
<1>1. ~ Ready
  BY ReadyTypes
<1>2. \A t \in Scanners : pc[t] = "idle"
  BY <1>1 DEF StartUp
<1> QED
  BY <1>1, <1>2 DEF StartUp, Claimed, Scanners

\* Every slot is empty until something is pushed.
LEMMA EmptyAtStart ==
  ASSUME TypeOK, SequenceOK, head = 0
  PROVE  \A s \in Slots : sequence[s] = INVALID_POS
BY DEF TypeOK, SequenceOK

\* Entries keep their owners.
LEMMA EntriesOwnedStep ==
  ASSUME TypeOK, EntriesOwned, Next
  PROVE  EntriesOwned'
<1> USE DEF EntriesOwned, Enrolled, Attached
<1>1. ASSUME NEW c \in Consumers, RegisterTakeId(c) PROVE EntriesOwned'
  <2>1. /\ num_consumers' = num_consumers + 1
        /\ active' = active
        /\ pc[c] = "unregistered"
        /\ \/ pc' = [pc EXCEPT ![c] = "rejected"] /\ cid' = cid
           \/ /\ pc' = [pc EXCEPT ![c] = "reg_head"]
              /\ cid' = [cid EXCEPT ![c] = num_consumers]
    BY <1>1 DEF RegisterTakeId
  <2>2. /\ \A d \in Consumers \ {c} : pc'[d] = pc[d] /\ cid'[d] = cid[d]
        /\ pc'[c] \in {"rejected", "reg_head"}
        /\ pc'[c] = "reg_head" => cid'[c] = num_consumers
    BY <2>1 DEF TypeOK, Threads
  <2>3. \A d \in Consumers : cid[d] \in Int /\ num_consumers \in Int
    BY DEF TypeOK, Ids
  <2> QED
    BY <2>1, <2>2, <2>3
<1>2. ASSUME NEW c \in Consumers, RegisterLoadHead(c) \/ RegisterStoreTail(c)
      PROVE  EntriesOwned'
  <2>1. /\ UNCHANGED <<num_consumers, active, cid>>
        /\ pc[c] \in {"reg_head", "reg_tail"}
        /\ pc'[c] \in {"reg_tail", "reg_active"}
    BY <1>2 DEF RegisterLoadHead, RegisterStoreTail, Goto, TypeOK, Threads,
                shared, history
  <2>2. \A d \in Consumers \ {c} : pc'[d] = pc[d]
    BY <1>2, ConsumerFrame DEF ConsumerStep, RegisterStep
  <2> QED
    BY <2>1, <2>2
<1>3. ASSUME NEW c \in Consumers, RegisterActivate(c) PROVE EntriesOwned'
  <2>1. /\ UNCHANGED <<num_consumers, cid>>
        /\ pc[c] = "reg_active" /\ pc'[c] = "idle"
        /\ \A i \in Ids : active'[i] => active[i] \/ i = cid[c]
        /\ \A i \in Ids : active[i] => active'[i]
    BY <1>3 DEF RegisterActivate, Goto, TypeOK, Threads, locals
  <2>2. \A d \in Consumers \ {c} : pc'[d] = pc[d]
    BY <1>3, ConsumerFrame DEF ConsumerStep, RegisterStep
  <2>3. \A d \in Consumers : cid[d] \in Ids
    BY DEF TypeOK
  <2> QED
    BY <2>1, <2>2, <2>3
<1>6. ASSUME NEW c \in Consumers, Unregister(c) PROVE EntriesOwned'
  <2>1. /\ UNCHANGED <<num_consumers, cid, pc>>
        /\ pc[c] = "idle"
        /\ \A i \in Ids : active'[i] <=> active[i] /\ i # cid[c]
    BY <1>6 DEF Unregister, TypeOK, locals
  <2>2. \A d \in Consumers : cid[d] \in Ids
    BY DEF TypeOK
  <2> QED
    BY <2>1, <2>2
<1>4. ASSUME NEW c \in Consumers, PopStep(c) PROVE EntriesOwned'
  <2>1. /\ UNCHANGED <<num_consumers, active, cid>>
        /\ pc[c] \in {"idle", "pop_copy", "pop_adv"}
        /\ pc'[c] \in {"idle", "pop_copy", "pop_adv"}
        /\ active[cid[c]] \/ pc[c] # "idle"
    BY <1>4 DEF PopStep, PopCheck, PopCopy, PopAdvance, Goto, TypeOK, Threads,
                shared, locals
  <2>2. \A d \in Consumers \ {c} : pc'[d] = pc[d]
    BY <1>4, ConsumerFrame DEF ConsumerStep
  <2> QED
    BY <2>1, <2>2
<1>5. ASSUME NEW t \in Scanners, ScannerStep(t) PROVE EntriesOwned'
  BY <1>5, ScannerFrame
<1> QED
  BY <1>1, <1>2, <1>3, <1>4, <1>5, <1>6, StepKinds
  DEF ConsumerStep, RegisterStep

\* Nothing happens before all have registered.
LEMMA StartUpStep ==
  ASSUME LateJoiners = {}, TypeOK, StartUp, SequenceOK, Reading, Next
  PROVE  StartUp'
<1>1. ASSUME NEW c \in Consumers, RegisterStep(c) PROVE StartUp'
  <2>1. pc[c] \in Registering
    BY <1>1 DEF RegisterStep, RegisterTakeId, RegisterLoadHead,
                RegisterStoreTail, RegisterActivate, Goto, Registering
  <2>2. /\ head' = 0 /\ min_tail' = 0
        /\ \A t \in Scanners : pc'[t] = "idle"
    BY <1>1, <2>1, Quiet, ConsumerFrame DEF ConsumerStep
  <2>3. \A i \in Ids : tail'[i] = 0
    BY <1>1, <2>1, Quiet
    DEF RegisterStep, RegisterTakeId, RegisterLoadHead, RegisterStoreTail,
        RegisterActivate, Goto, StartUp, TypeOK, shared
  <2>4. \A d \in Consumers : pc'[d] = "reg_tail" => pos'[d] = 0
    BY <1>1, <2>1, Quiet
    DEF RegisterStep, RegisterTakeId, RegisterLoadHead, RegisterStoreTail,
        RegisterActivate, Goto, StartUp, TypeOK, Threads, locals
  <2> QED
    BY <2>2, <2>3, <2>4 DEF StartUp
<1>2. ASSUME NEW c \in Consumers, PopStep(c) \/ Unregister(c) PROVE StartUp'
  <2>1. \A d \in Consumers : /\ pc'[d] \in Registering <=> pc[d] \in Registering
                             /\ pc'[d] = "reg_tail" <=> pc[d] = "reg_tail"
                             /\ pos'[d] = pos[d]
    BY <1>2 DEF PopStep, PopCheck, PopCopy, PopAdvance, Unregister, Goto,
                Registering, TypeOK, Threads, locals
  <2>2. Ready' <=> Ready
    BY <2>1 DEF Ready
  <2>3. ASSUME ~ Ready PROVE tail' = tail
    <3>1. head = 0
      BY <2>3 DEF StartUp
    <3>2. tail[cid[c]] \in Nat
      BY DEF TypeOK
    <3>3. pc[c] # "pop_adv"
      BY <3>1, <3>2, EmptyAtStart, SlotRange, QueueAssumption
      DEF Reading, SlotReady
    <3> QED
      BY <1>2, <3>3
      DEF PopStep, PopCheck, PopCopy, PopAdvance, Unregister, Goto, shared
  <2> QED
    BY <1>2, <2>1, <2>2, <2>3, ConsumerFrame DEF StartUp, ConsumerStep
<1>3. ASSUME NEW t \in Scanners, ScannerStep(t) PROVE StartUp'
  <2>1. Ready
    BY <1>3, BusyMeansReady
    DEF ScannerStep, ClaimlessStep, ScanStep, PushCall, PushLoadHead,
        PushLoadMinTail, PushUseScan, PushReturnFull, PushCasFail, PushCas,
        PushCopy, PushPublish, RefreshCall, RefreshStore, ScanActive, ScanTail,
        EndScan, Goto
  <2>2. Ready'
    BY <1>3, <2>1, ScannerFrame DEF Ready
  <2> QED
    BY <1>3, <2>2, ScannerFrame DEF StartUp
<1> QED
  BY <1>1, <1>2, <1>3, StepKinds DEF ConsumerStep

-----------------------------------------------------------------------------
(***************************************************************************)
(* Bounds.  A lower bound of the tails stays one, so it may be stale.      *)
(***************************************************************************)

\* Positions are only claimed at head, and head only grows.
LEMMA ClaimsGrow ==
  ASSUME TypeOK, Next
  PROVE  /\ head <= head'
         /\ \A p \in Producers : Claimed(p)' =>
              \/ Claimed(p) /\ pos'[p] = pos[p]
              \/ ~ Claimed(p) /\ pos'[p] = head
<1>1. ASSUME NEW c \in Consumers, ConsumerStep(c)
      PROVE  head' = head /\ \A p \in Producers :
               pc'[p] = pc[p] /\ pos'[p] = pos[p]
  BY <1>1, ConsumerFrame DEF Scanners
<1>2. ASSUME NEW t \in Scanners, ClaimlessStep(t)
      PROVE  head' = head /\ \A p \in Producers :
               Claimed(p)' => Claimed(p) /\ pos'[p] = pos[p]
  BY <1>2, ClaimlessFrame
<1>3. ASSUME NEW t \in Producers, PushCas(t)
      PROVE  /\ head' = head + 1
             /\ pos' = pos /\ pos[t] = head /\ pc[t] = "cas"
             /\ \A p \in Producers \ {t} : pc'[p] = pc[p]
  BY <1>3 DEF PushCas, CasMatches, Goto, TypeOK, Threads
<1>4. ASSUME NEW t \in Producers, PushCopy(t) \/ PushPublish(t)
      PROVE  /\ head' = head
             /\ pc[t] \in {"copy", "publish"}
             /\ \A p \in Producers \ {t} : pc'[p] = pc[p] /\ pos'[p] = pos[p]
             /\ pc'[t] = "publish" => pos'[t] = pos[t]
             /\ pc'[t] \in {"publish", "idle"}
  BY <1>4 DEF PushCopy, PushPublish, Goto, TypeOK, Threads, locals
<1>5. head \in Nat
  BY DEF TypeOK
<1> QED
  BY <1>1, <1>2, <1>3, <1>4, <1>5, StepKinds DEF ScannerStep, Claimed

\* A bound that is safe stays safe.
LEMMA SafeBoundKept ==
  ASSUME TypeOK, Next
  PROVE  \A b \in Nat : SafeBound(b) => SafeBound(b)'
<1>1. head \in Nat /\ \A p \in Producers : pos[p] \in Nat
  BY DEF TypeOK
<1>2. head' \in Nat
  BY TypeStep DEF TypeOK
<1> QED
  BY <1>1, <1>2, ClaimsGrow DEF SafeBound

\* A registered consumer only moves its tail forward, and only deactivates.
LEMMA TailsGrow ==
  ASSUME TypeOK, NEW c \in Consumers, PopStep(c) \/ Unregister(c)
  PROVE  \A i \in Ids : /\ active'[i] => active[i]
                        /\ tail[i] <= tail'[i]
                        /\ tail[i] \in Nat /\ tail'[i] \in Nat
<1>1. CASE PopCheck(c) \/ PopCopy(c)
  BY <1>1 DEF PopCheck, PopCopy, TypeOK, shared
<1>2. CASE PopAdvance(c)
  BY <1>2 DEF PopAdvance, TypeOK
<1>3. CASE Unregister(c)
  BY <1>3 DEF Unregister, TypeOK
<1> QED
  BY <1>1, <1>2, <1>3 DEF PopStep

\* Tails of active consumers only grow, and nobody becomes active late.
LEMMA BelowActiveKept ==
  ASSUME LateJoiners = {}, TypeOK, StartUp, Next
  PROVE  \A b \in Nat : b <= head /\ BelowActive(b) => BelowActive(b)'
<1>1. ASSUME NEW c \in Consumers, RegisterStep(c)
      PROVE  head = 0 /\ \A i \in Ids : tail'[i] = 0
  <2>1. pc[c] \in Registering
    BY <1>1 DEF RegisterStep, RegisterTakeId, RegisterLoadHead,
                RegisterStoreTail, RegisterActivate, Goto, Registering
  <2> QED
    BY <1>1, <2>1, Quiet
    DEF RegisterStep, RegisterTakeId, RegisterLoadHead, RegisterStoreTail,
        RegisterActivate, Goto, StartUp, TypeOK, shared
<1>2. ASSUME NEW c \in Consumers, PopStep(c) \/ Unregister(c)
      PROVE  \A i \in Ids : /\ active'[i] => active[i]
                            /\ tail[i] <= tail'[i]
                            /\ tail[i] \in Nat /\ tail'[i] \in Nat
  BY <1>2, TailsGrow
<1>3. ASSUME NEW t \in Scanners, ScannerStep(t)
      PROVE  UNCHANGED <<tail, active>>
  BY <1>3, ScannerFrame
<1> QED
  BY <1>1, <1>2, <1>3, StepKinds DEF ConsumerStep, BelowActive

\* A tail that finds its slot ready may move on.
LEMMA ReadyTail ==
  ASSUME TypeOK, ClaimsOwned, SequenceOK, TailsBehind,
         NEW c \in Consumers, SlotReady(c)
  PROVE  SafeBound(tail[cid[c]] + 1)
<1>1. cid[c] \in Ids /\ tail[cid[c]] \in Nat /\ head \in Nat
  BY DEF TypeOK
<1>2. Slot(tail[cid[c]]) \in Slots
  BY <1>1, SlotRange
<1>3. tail[cid[c]] < head
  BY <1>1, <1>2, QueueAssumption DEF SlotReady, SequenceOK
<1>4. ASSUME NEW p \in Producers, Claimed(p) PROVE tail[cid[c]] < pos[p]
  <2>1. tail[cid[c]] <= pos[p] /\ pos[p] \in Nat
    BY <1>1, <1>4 DEF TailsBehind, SafeBound, TypeOK
  <2>2. tail[cid[c]] # pos[p]
    BY <1>4 DEF ClaimsOwned, SlotReady
  <2> QED
    BY <1>1, <2>1, <2>2
<1> QED
  BY <1>1, <1>3, <1>4 DEF SafeBound, TypeOK

\* Tails stay behind.
LEMMA TailsBehindStep ==
  ASSUME LateJoiners = {}, TypeOK, StartUp, ClaimsOwned, SequenceOK,
         TailsBehind, Reading, Next
  PROVE  TailsBehind'
<1> USE DEF TailsBehind
<1>1. ASSUME NEW c \in Consumers, RegisterStep(c)
      PROVE  TailsBehind'
  <2>1. pc[c] \in Registering
    BY <1>1 DEF RegisterStep, RegisterTakeId, RegisterLoadHead,
                RegisterStoreTail, RegisterActivate, Goto, Registering
  <2>2. \A i \in Ids : tail'[i] = 0
    BY <1>1, <2>1, Quiet
    DEF RegisterStep, RegisterTakeId, RegisterLoadHead, RegisterStoreTail,
        RegisterActivate, Goto, StartUp, TypeOK, shared
  <2>3. head' = 0 /\ \A p \in Producers : ~ Claimed(p)'
    BY <1>1, <2>1, Quiet, ConsumerFrame DEF ConsumerStep, Claimed, Scanners
  <2> QED
    BY <2>2, <2>3 DEF SafeBound
<1>2. ASSUME NEW c \in Consumers, PopAdvance(c) PROVE TailsBehind'
  <2>1. SlotReady(c)
    BY <1>2 DEF PopAdvance, Goto, Reading
  <2>2. SafeBound(tail[cid[c]] + 1)
    BY <2>1, ReadyTail
  <2>3. \A i \in Ids : tail'[i] \in {tail[i], tail[cid[c]] + 1}
                       /\ tail'[i] \in Nat
                       /\ (tail'[i] # tail[i] => tail'[i] = tail[cid[c]] + 1)
    BY <1>2 DEF PopAdvance, TypeOK
  <2>4. \A i \in Ids : SafeBound(tail'[i])
    BY <2>2, <2>3
  <2>5. head' = head /\ pos' = pos /\ \A p \in Producers : Claimed(p)' <=> Claimed(p)
    BY <1>2, Roles DEF PopAdvance, Goto, Claimed, TypeOK, Threads, locals
  <2> QED
    BY <2>4, <2>5 DEF SafeBound
<1>3. CASE tail' = tail
  BY <1>3, SafeBoundKept DEF TypeOK, SafeBound
<1> QED
  BY <1>1, <1>2, <1>3, StepKinds, ScannerFrame
  DEF ConsumerStep, PopStep, PopCheck, PopCopy, Unregister, shared

\* What a scan returns is a safe bound.
LEMMA ScanResultSafe ==
  ASSUME TypeOK, TailsBehind, ScanSafe, NEW t \in Scanners, EndScan(t)
  PROVE  /\ ScanResult(t) \in Nat
         /\ SafeBound(ScanResult(t))
         /\ BelowActive(ScanResult(t))
<1>1. pc[t] = "scan" /\ scan_i[t] = MAX_CONSUMERS
  BY DEF EndScan
<1>2. CASE scan_min[t] = INVALID_POS
  BY <1>2, <1>1 DEF ScanResult, SafeBound, BelowActive, TypeOK
<1>3. CASE scan_min[t] # INVALID_POS
  <2>1. scan_min[t] \in Nat /\ ScanResult(t) = scan_min[t]
    BY <1>3 DEF ScanResult, TypeOK
  <2>2. SafeBound(scan_min[t])
    BY <1>1, <1>3 DEF ScanSafe, Scanning
  <2>3. \A i \in Ids : i < scan_i[t]
    BY <1>1, QueueAssumption DEF Ids
  <2>4. BelowActive(scan_min[t])
    BY <1>1, <2>3 DEF ScanSafe, Scanning, BelowActive
  <2> QED
    BY <2>1, <2>2, <2>4
<1> QED
  BY <1>2, <1>3

\* A bound that is safe for claims and tails stays so.
LEMMA BoundKept ==
  ASSUME LateJoiners = {}, TypeOK, StartUp, Next
  PROVE  \A b \in Nat : SafeBound(b) /\ BelowActive(b)
           => SafeBound(b)' /\ BelowActive(b)'
BY SafeBoundKept, BelowActiveKept DEF SafeBound

\* The cached minimum stays safe.
LEMMA CacheSafeStep ==
  ASSUME LateJoiners = {}, TypeOK, StartUp, TailsBehind, ScanSafe, CacheSafe,
         Next
  PROVE  CacheSafe'
<1>1. \/ min_tail' = min_tail
      \/ \E t \in Scanners : EndScan(t) /\ min_tail' = ScanResult(t)
  BY StepKinds, ConsumerFrame
  DEF ScannerStep, ClaimlessStep, ScanStep, PushCall, PushLoadHead,
      PushLoadMinTail, PushUseScan, PushReturnFull, PushCasFail, PushCas,
      PushCopy, PushPublish, RefreshCall, RefreshStore, ScanActive, ScanTail,
      shared
<1>2. min_tail' \in Nat /\ SafeBound(min_tail') /\ BelowActive(min_tail')
  <2>1. CASE min_tail' = min_tail
    BY <2>1 DEF CacheSafe, TypeOK, SafeBound, BelowActive
  <2>2. ASSUME NEW t \in Scanners, EndScan(t), min_tail' = ScanResult(t)
        PROVE  min_tail' \in Nat /\ SafeBound(min_tail') /\ BelowActive(min_tail')
    BY <2>2, ScanResultSafe DEF SafeBound, BelowActive
  <2> QED
    BY <1>1, <2>1, <2>2
<1> QED
  BY <1>2, BoundKept DEF CacheSafe, SafeBound, BelowActive

\* A producer reaches the compare-exchange by one of the two tests for room.
LEMMA CasEntry ==
  ASSUME TypeOK, Next, NEW p \in Producers, pc'[p] = "cas"
  PROVE  \/ pc[p] = "cas" /\ lmin'[p] = lmin[p] /\ pos'[p] = pos[p]
         \/ lmin'[p] = min_tail /\ pos'[p] = pos[p] /\ ~ Full(pos[p], min_tail)
         \/ /\ EndScan(p)
            /\ lmin'[p] = ScanResult(p) /\ pos'[p] = pos[p]
            /\ ~ Full(pos[p], ScanResult(p))
<1>1. ASSUME NEW c \in Consumers, ConsumerStep(c)
      PROVE  pc[p] = "cas" /\ lmin'[p] = lmin[p] /\ pos'[p] = pos[p]
  BY <1>1, ConsumerFrame DEF Scanners
<1>2. ASSUME NEW t \in Scanners \ {p}, ScannerStep(t)
      PROVE  pc[p] = "cas" /\ lmin'[p] = lmin[p] /\ pos'[p] = pos[p]
  BY <1>2, ScannerFrame DEF Scanners
<1>3. CASE PushLoadMinTail(p)
  BY <1>3 DEF PushLoadMinTail, TypeOK, Threads
<1>4. CASE PushUseScan(p)
  BY <1>4 DEF PushUseScan, TypeOK, Threads
<1>5. CASE ScanStep(p)
  BY <1>5 DEF ScanStep, ScanActive, ScanTail, Goto, TypeOK, Threads
<1>6. CASE \/ PushCall(p) \/ PushLoadHead(p) \/ PushReturnFull(p) \/ PushCasFail(p)
           \/ PushCas(p) \/ PushCopy(p) \/ PushPublish(p)
  BY <1>6 DEF PushCall, PushLoadHead, PushReturnFull, PushCasFail, PushCas,
              PushCopy, PushPublish, Goto, TypeOK, Threads
<1> QED
  BY <1>1, <1>2, <1>3, <1>4, <1>5, <1>6, StepKinds, Roles
  DEF ScannerStep, ClaimlessStep

\* The bound of a compare-exchange stays safe.
LEMMA CasSafeStep ==
  ASSUME LateJoiners = {}, TypeOK, StartUp, TailsBehind, ScanSafe, CacheSafe,
         CasSafe, Next
  PROVE  CasSafe'
<1> SUFFICES ASSUME NEW p \in Producers, pc'[p] = "cas"
             PROVE  /\ SafeBound(lmin[p])' /\ BelowActive(lmin[p])'
                    /\ pos'[p] < lmin'[p] + SIZE
  BY DEF CasSafe
<1>1. /\ lmin'[p] \in Nat /\ SafeBound(lmin'[p]) /\ BelowActive(lmin'[p])
      /\ pos'[p] < lmin'[p] + SIZE
  <2>1. CASE pc[p] = "cas" /\ lmin'[p] = lmin[p] /\ pos'[p] = pos[p]
    BY <2>1 DEF CasSafe, TypeOK, SafeBound, BelowActive
  <2>2. CASE lmin'[p] = min_tail /\ pos'[p] = pos[p] /\ ~ Full(pos[p], min_tail)
    BY <2>2, QueueAssumption
    DEF CacheSafe, Full, TypeOK, SafeBound, BelowActive
  <2>3. CASE /\ EndScan(p)
             /\ lmin'[p] = ScanResult(p) /\ pos'[p] = pos[p]
             /\ ~ Full(pos[p], ScanResult(p))
    <3>1. /\ ScanResult(p) \in Nat
          /\ SafeBound(ScanResult(p)) /\ BelowActive(ScanResult(p))
      BY <2>3, ScanResultSafe DEF Scanners
    <3>2. pos[p] < ScanResult(p) + SIZE
      BY <2>3, <3>1, QueueAssumption DEF Full, TypeOK
    <3> QED
      BY <2>3, <3>1, <3>2 DEF SafeBound, BelowActive
  <2> QED
    BY <2>1, <2>2, <2>3, CasEntry
<1> QED
  BY <1>1, BoundKept DEF SafeBound, BelowActive

\* How a scan proceeds: it does not move, starts, skips an entry, takes its
\* tail into the minimum, or ends.
LEMMA ScanMoves ==
  ASSUME TypeOK, Next, NEW t \in Scanners
  PROVE  \/ /\ Scanning(t)' <=> Scanning(t)
            /\ scan_i'[t] = scan_i[t] /\ scan_min'[t] = scan_min[t]
         \/ /\ ~ Scanning(t)
            /\ scan_i'[t] = scan_i[t] /\ scan_min'[t] = scan_min[t]
         \/ /\ Scanning(t) /\ Scanning(t)'
            /\ ~ active[scan_i[t]] /\ scan_i[t] \in Ids
            /\ scan_i'[t] = scan_i[t] + 1 /\ scan_min'[t] = scan_min[t]
            /\ UNCHANGED <<active, tail>>
         \/ /\ Scanning(t) /\ Scanning(t)'
            /\ scan_i[t] \in Ids
            /\ scan_i'[t] = scan_i[t] + 1
            /\ scan_min'[t] = MinPos(scan_min[t], tail[scan_i[t]])
            /\ UNCHANGED <<active, tail>>
         \/ ~ Scanning(t)' /\ scan_i'[t] = 0 /\ scan_min'[t] = INVALID_POS
<1> USE DEF Scanning
<1>1. ASSUME NEW c \in Consumers, ConsumerStep(c)
      PROVE  /\ pc'[t] = pc[t]
             /\ scan_i'[t] = scan_i[t] /\ scan_min'[t] = scan_min[t]
  BY <1>1, ConsumerFrame
<1>2. ASSUME NEW u \in Scanners \ {t}, ScannerStep(u)
      PROVE  /\ pc'[t] = pc[t]
             /\ scan_i'[t] = scan_i[t] /\ scan_min'[t] = scan_min[t]
  BY <1>2, ScannerFrame
<1>10. scan_i[t] < MAX_CONSUMERS => scan_i[t] \in Ids
  BY QueueAssumption DEF TypeOK, Ids
<1>3. CASE ScanActive(t)
  <2>1. /\ pc[t] = "scan" /\ scan_i[t] < MAX_CONSUMERS
        /\ UNCHANGED <<active, tail, scan_min>>
    BY <1>3 DEF ScanActive, shared
  <2>4. scan_i[t] \in Ids
    BY <1>10, <2>1
  <2>2. CASE active[scan_i[t]]
    BY <1>3, <2>1, <2>2 DEF ScanActive, TypeOK, Threads, Scanners
  <2>3. CASE ~ active[scan_i[t]]
    BY <1>3, <2>1, <2>3, <2>4 DEF ScanActive, TypeOK
  <2> QED
    BY <2>2, <2>3
<1>4. CASE ScanTail(t)
  <2>1. /\ pc[t] = "scan_tail" /\ pc'[t] = "scan"
        /\ UNCHANGED <<active, tail>>
    BY <1>4 DEF ScanTail, Goto, TypeOK, Threads, Scanners, shared
  <2>3. scan_i[t] \in Ids
    BY <1>10, <2>1 DEF TypeOK
  <2>2. /\ scan_i'[t] = scan_i[t] + 1
        /\ scan_min'[t] = MinPos(scan_min[t], tail[scan_i[t]])
    BY <1>4 DEF ScanTail, TypeOK
  <2> QED
    BY <2>1, <2>2, <2>3
<1>5. CASE EndScan(t) /\ pc'[t] \in {"idle", "full", "cas"}
  BY <1>5 DEF EndScan, TypeOK
<1>6. ASSUME t \in Producers, PushUseScan(t)
      PROVE  EndScan(t) /\ pc'[t] \in {"full", "cas"}
  BY <1>6 DEF PushUseScan, TypeOK, Threads
<1>7. ASSUME t \in Refreshers, RefreshStore(t)
      PROVE  EndScan(t) /\ pc'[t] = "idle"
  BY <1>7 DEF RefreshStore, TypeOK, Threads
<1>8. ASSUME t \in Refreshers, RefreshCall(t)
      PROVE  pc[t] = "idle" /\ UNCHANGED <<scan_i, scan_min>>
  BY <1>8 DEF RefreshCall, Goto, locals
<1>9. ASSUME t \in Producers,
             \/ PushCall(t) \/ PushLoadHead(t) \/ PushLoadMinTail(t)
             \/ PushReturnFull(t) \/ PushCasFail(t) \/ PushCas(t)
             \/ PushCopy(t) \/ PushPublish(t)
      PROVE  /\ pc[t] \notin {"scan", "scan_tail"}
             /\ UNCHANGED <<scan_i, scan_min>>
  BY <1>9 DEF PushCall, PushLoadHead, PushLoadMinTail, PushReturnFull,
              PushCasFail, PushCas, PushCopy, PushPublish, Goto, locals
<1> QED
  BY <1>1, <1>2, <1>3, <1>4, <1>5, <1>6, <1>7, <1>8, <1>9, StepKinds
  DEF ScannerStep, ClaimlessStep, ScanStep

\* A scan's minimum stays safe.
LEMMA ScanSafeStep ==
  ASSUME LateJoiners = {}, TypeOK, StartUp, TailsBehind, ScanSafe, Next
  PROVE  ScanSafe'
<1> SUFFICES ASSUME NEW t \in Scanners
             PROVE  /\ Scanning(t)' =>
                         /\ scan_min'[t] # INVALID_POS => SafeBound(scan_min[t])'
                         /\ \A i \in Ids : i < scan_i'[t] /\ active'[i] =>
                              /\ scan_min'[t] # INVALID_POS
                              /\ scan_min'[t] <= tail'[i]
                    /\ ~ Scanning(t)' =>
                         scan_i'[t] = 0 /\ scan_min'[t] = INVALID_POS
  BY DEF ScanSafe
<1>1. /\ scan_min[t] # INVALID_POS => scan_min[t] \in Nat
      /\ scan_i[t] \in 0 .. MAX_CONSUMERS
      /\ \A i \in Ids : tail[i] \in Nat /\ i \in Int
      /\ head \in Nat
  BY DEF TypeOK, Ids
<1>2. \A b \in Nat : SafeBound(b) => b <= head' /\
        \A p \in Producers : Claimed(p)' => b <= pos'[p]
  BY SafeBoundKept DEF SafeBound
<1>3. CASE /\ Scanning(t)' <=> Scanning(t)
           /\ scan_i'[t] = scan_i[t] /\ scan_min'[t] = scan_min[t]
  <2>1. CASE ~ Scanning(t)
    BY <1>3, <2>1 DEF ScanSafe
  <2>2. CASE Scanning(t)
    <3>1. scan_min'[t] # INVALID_POS => SafeBound(scan_min[t])'
      BY <1>1, <1>2, <1>3, <2>2 DEF ScanSafe, SafeBound
    <3>2. \A i \in Ids : active'[i] => active[i] /\ tail[i] <= tail'[i]
      <4>1. Ready
        BY <2>2, BusyMeansReady DEF Scanning
      <4>2. ASSUME NEW c \in Consumers, PopStep(c) \/ Unregister(c)
            PROVE  \A i \in Ids : active'[i] => active[i] /\ tail[i] <= tail'[i]
        BY <4>2, TailsGrow
      <4>3. ASSUME NEW c \in Consumers, RegisterStep(c) PROVE FALSE
        BY <4>1, <4>3, ReadyTypes
        DEF RegisterStep, RegisterTakeId, RegisterLoadHead, RegisterStoreTail,
            RegisterActivate, Goto, Registering
      <4>4. ASSUME NEW u \in Scanners, ScannerStep(u)
            PROVE  \A i \in Ids : active'[i] => active[i] /\ tail[i] <= tail'[i]
        BY <4>4, <1>1, ScannerFrame
      <4> QED
        BY <4>2, <4>3, <4>4, StepKinds DEF ConsumerStep
    <3>3. \A i \in Ids : i < scan_i'[t] /\ active'[i] =>
            scan_min'[t] # INVALID_POS /\ scan_min'[t] <= tail[i]
      BY <1>3, <2>2, <3>2 DEF ScanSafe
    <3>4. \A i \in Ids : tail'[i] \in Nat
      BY TypeStep DEF TypeOK
    <3> QED
      BY <1>1, <1>3, <2>2, <3>1, <3>2, <3>3, <3>4
  <2> QED
    BY <2>1, <2>2
<1>4. CASE /\ ~ Scanning(t)
           /\ scan_i'[t] = scan_i[t] /\ scan_min'[t] = scan_min[t]
  BY <1>1, <1>4 DEF ScanSafe, Ids
<1>5. CASE /\ Scanning(t) /\ Scanning(t)'
           /\ ~ active[scan_i[t]] /\ scan_i[t] \in Ids
           /\ scan_i'[t] = scan_i[t] + 1 /\ scan_min'[t] = scan_min[t]
           /\ UNCHANGED <<active, tail>>
  <2>1. \A i \in Ids : i < scan_i'[t] /\ active[i] => i < scan_i[t]
    BY <1>1, <1>5
  <2>2. scan_min'[t] # INVALID_POS => SafeBound(scan_min[t])'
    BY <1>1, <1>2, <1>5 DEF ScanSafe, SafeBound
  <2> QED
    BY <1>5, <2>1, <2>2 DEF ScanSafe
<1>6. CASE /\ Scanning(t) /\ Scanning(t)'
           /\ scan_i[t] \in Ids
           /\ scan_i'[t] = scan_i[t] + 1
           /\ scan_min'[t] = MinPos(scan_min[t], tail[scan_i[t]])
           /\ UNCHANGED <<active, tail>>
  <2>1. /\ scan_min'[t] \in Nat
        /\ scan_min'[t] <= tail[scan_i[t]]
        /\ scan_min[t] # INVALID_POS => scan_min'[t] <= scan_min[t]
        /\ scan_min'[t] \in {scan_min[t], tail[scan_i[t]]}
    BY <1>1, <1>6, QueueAssumption DEF MinPos
  <2>2. scan_min'[t] # INVALID_POS
    BY <2>1, QueueAssumption
  <2>3. SafeBound(scan_min'[t])
    BY <1>6, <2>1, <2>2 DEF ScanSafe, TailsBehind
  <2>4. SafeBound(scan_min[t])'
    BY <1>2, <2>1, <2>3 DEF SafeBound
  <2>5. \A i \in Ids : i < scan_i'[t] => i < scan_i[t] \/ i = scan_i[t]
    BY <1>1, <1>6
  <2>6. \A i \in Ids : i < scan_i[t] /\ active[i] => scan_min'[t] <= tail[i]
    BY <1>1, <1>6, <2>1 DEF ScanSafe
  <2> QED
    BY <1>6, <2>1, <2>2, <2>4, <2>5, <2>6
<1>7. CASE ~ Scanning(t)' /\ scan_i'[t] = 0 /\ scan_min'[t] = INVALID_POS
  BY <1>7
<1> QED
  BY <1>3, <1>4, <1>5, <1>6, <1>7, ScanMoves

\* Unread and unwritten positions stay within the ring.
LEMMA WindowStep ==
  ASSUME LateJoiners = {}, TypeOK, StartUp, CasSafe, Window, Next
  PROVE  Window'
<1>1. /\ head \in Nat /\ SIZE \in Nat \ {0}
      /\ \A i \in Ids : tail[i] \in Nat /\ tail'[i] \in Nat
  BY QueueAssumption, TypeStep DEF TypeOK
<1>2. ASSUME NEW c \in Consumers, RegisterStep(c) PROVE Window'
  <2>1. pc[c] \in Registering
    BY <1>2 DEF RegisterStep, RegisterTakeId, RegisterLoadHead,
                RegisterStoreTail, RegisterActivate, Goto, Registering
  <2>2. head' = 0 /\ \A p \in Producers : ~ Claimed(p)'
    BY <1>2, <2>1, Quiet, ConsumerFrame DEF ConsumerStep, Claimed, Scanners
  <2> QED
    BY <1>1, <2>2 DEF Window
<1>3. ASSUME NEW c \in Consumers, PopStep(c) \/ Unregister(c) PROVE Window'
  <2>1. head' = head /\ \A p \in Producers : (Claimed(p)' <=> Claimed(p)) /\ pos'[p] = pos[p]
    BY <1>3, ConsumerFrame DEF ConsumerStep, Claimed, Scanners
  <2>2. \A i \in Ids : active'[i] => active[i] /\ tail[i] <= tail'[i]
    BY <1>3, TailsGrow
  <2> QED
    BY <1>1, <2>1, <2>2 DEF Window
<1>4. ASSUME NEW t \in Producers, PushCas(t) PROVE Window'
  <2>1. /\ pc[t] = "cas" /\ pos[t] = head /\ head' = head + 1 /\ pos' = pos
        /\ UNCHANGED <<tail, active>>
        /\ \A p \in Producers \ {t} : Claimed(p)' <=> Claimed(p)
    BY <1>4 DEF PushCas, CasMatches, Goto, TypeOK, Threads, Claimed
  <2>2. head < lmin[t] + SIZE /\ SafeBound(lmin[t]) /\ BelowActive(lmin[t])
        /\ lmin[t] \in Nat
    BY <2>1 DEF CasSafe, TypeOK
  <2>3. \A p \in Producers : pos[p] \in Nat
    BY DEF TypeOK
  <2> QED
    BY <1>1, <2>1, <2>2, <2>3 DEF Window, SafeBound, BelowActive
<1>5. ASSUME NEW t \in Scanners, ScannerStep(t), ~ (t \in Producers /\ PushCas(t))
      PROVE  Window'
  <2>1. head' = head /\ \A p \in Producers :
          Claimed(p)' => Claimed(p) /\ pos'[p] = pos[p]
    BY <1>5, ClaimlessFrame
    DEF ScannerStep, PushCopy, PushPublish, Goto, TypeOK, Threads, Claimed, locals
  <2> QED
    BY <1>5, <2>1, ScannerFrame DEF Window
<1> QED
  BY <1>2, <1>3, <1>4, <1>5, StepKinds DEF ConsumerStep

-----------------------------------------------------------------------------
(***************************************************************************)
(* Slots.  Positions being written or unread never share one.              *)
(***************************************************************************)
LEMMA NearbySlots ==
  ASSUME NEW a \in Nat, NEW b \in Nat, a < b + SIZE, b < a + SIZE,
         Slot(a) = Slot(b)
  PROVE  a = b
<1>1. CASE a <= b
  BY <1>1, SlotInjective
<1>2. CASE b <= a
  BY <1>2, SlotInjective
<1> QED
  BY <1>1, <1>2

\* Two claimed positions have two slots.
LEMMA ClaimedSlots ==
  ASSUME TypeOK, Window, ClaimsOwned, NEW p \in Producers, NEW q \in Producers,
         p # q, Claimed(p), Claimed(q)
  PROVE  Slot(pos[p]) # Slot(pos[q])
<1>1. pos[p] \in Nat /\ pos[q] \in Nat /\ head \in Nat /\ SIZE \in Nat
  BY QueueAssumption DEF TypeOK
<1>2. pos[p] < head /\ pos[q] < head /\ head <= pos[p] + SIZE /\ head <= pos[q] + SIZE
  BY DEF ClaimsOwned, Window
<1>3. pos[p] # pos[q]
  BY DEF ClaimsOwned
<1>4. pos[p] < pos[q] + SIZE /\ pos[q] < pos[p] + SIZE
  BY <1>1, <1>2
<1> QED
  BY <1>1, <1>3, <1>4, NearbySlots

\* A claimed position has the slot of no other unread one.
LEMMA UnreadSlots ==
  ASSUME TypeOK, Window, ClaimsOwned, TailsBehind, NEW p \in Producers,
         Claimed(p), NEW i \in Ids, active[i], NEW k \in tail[i] .. head - 1,
         Slot(k) = Slot(pos[p])
  PROVE  k = pos[p]
<1>1. pos[p] \in Nat /\ tail[i] \in Nat /\ head \in Nat /\ SIZE \in Nat
  BY QueueAssumption DEF TypeOK
<1>2. pos[p] < head /\ head <= tail[i] + SIZE /\ tail[i] <= pos[p]
  BY DEF ClaimsOwned, Window, TailsBehind, SafeBound
<1>3. k \in Nat /\ k < pos[p] + SIZE /\ pos[p] < k + SIZE
  BY <1>1, <1>2
<1> QED
  BY <1>1, <1>3, NearbySlots

\* What a claim changes.
LEMMA PushCasEffect ==
  ASSUME TypeOK, NEW t \in Producers, PushCas(t)
  PROVE  /\ pos[t] = head /\ pc[t] = "cas" /\ pc'[t] = "copy"
         /\ head' = head + 1
         /\ log' = Append(log, Item(t))
         /\ UNCHANGED <<pos, sequence, data, pushes, tail, active, cid, got>>
         /\ \A u \in Threads \ {t} : pc'[u] = pc[u]
BY DEF PushCas, CasMatches, Goto, TypeOK, Threads

\* What a copy changes.
LEMMA PushCopyEffect ==
  ASSUME TypeOK, NEW t \in Producers, PushCopy(t)
  PROVE  /\ pc[t] = "copy" /\ pc'[t] = "publish"
         /\ UNCHANGED <<head, log, pos, sequence, pushes, tail, active, cid, got>>
         /\ data' = [data EXCEPT ![Slot(pos[t])] = Item(t)]
         /\ \A u \in Threads \ {t} : pc'[u] = pc[u]
BY DEF PushCopy, Goto, TypeOK, Threads, locals, history

\* What a release store changes.
LEMMA PushPublishEffect ==
  ASSUME TypeOK, NEW t \in Producers, PushPublish(t)
  PROVE  /\ pc[t] = "publish" /\ pc'[t] = "idle"
         /\ UNCHANGED <<head, log, data, pushes, tail, active, cid, got>>
         /\ sequence' = [sequence EXCEPT ![Slot(pos[t])] = pos[t]]
         /\ pos[t] \in Nat /\ Slot(pos[t]) \in Slots
         /\ \A u \in Threads \ {t} : pc'[u] = pc[u]
         /\ \A u \in Producers \ {t} : pos'[u] = pos[u]
BY SlotRange DEF PushPublish, Goto, TypeOK, Threads, locals, history

\* Claims keep their owners.
LEMMA ClaimsOwnedStep ==
  ASSUME TypeOK, ClaimsOwned, SequenceOK, Next
  PROVE  ClaimsOwned'
<1>0. /\ head \in Nat
      /\ \A p \in Producers : pos[p] \in Nat /\ Slot(pos[p]) \in Slots
      /\ INVALID_POS \notin Nat
  BY SlotRange, QueueAssumption DEF TypeOK
<1>1. ASSUME NEW c \in Consumers, ConsumerStep(c) PROVE ClaimsOwned'
  BY <1>1, ConsumerFrame DEF ClaimsOwned, Claimed, Scanners
<1>2. ASSUME NEW t \in Scanners, ClaimlessStep(t) PROVE ClaimsOwned'
  BY <1>2, ClaimlessFrame DEF ClaimsOwned
<1>3. ASSUME NEW t \in Producers, PushCas(t) PROVE ClaimsOwned'
  <2>1. \A p \in Producers \ {t} : Claimed(p)' <=> Claimed(p)
    BY <1>3, PushCasEffect DEF Claimed, Threads
  <2>2. sequence[Slot(head)] # head
    BY <1>0, SlotRange DEF SequenceOK
  <2> QED
    BY <1>0, <1>3, <2>1, <2>2, PushCasEffect DEF ClaimsOwned
<1>4. ASSUME NEW t \in Producers, PushCopy(t) PROVE ClaimsOwned'
  BY <1>4, PushCopyEffect DEF ClaimsOwned, Claimed, Threads
<1>5. ASSUME NEW t \in Producers, PushPublish(t) PROVE ClaimsOwned'
  <2>1. \A p \in Producers : Claimed(p)' => p # t /\ Claimed(p) /\ pos'[p] = pos[p]
    BY <1>5, PushPublishEffect DEF Claimed, Threads
  <2>2. Claimed(t)
    BY <1>5, PushPublishEffect DEF Claimed
  <2>3. \A s \in Slots : sequence'[s] = sequence[s] \/ sequence'[s] = pos[t]
    BY <1>5, PushPublishEffect DEF TypeOK
  <2> QED
    BY <1>0, <1>5, <2>1, <2>2, <2>3, PushPublishEffect DEF ClaimsOwned
<1> QED
  BY <1>1, <1>2, <1>3, <1>4, <1>5, StepKinds DEF ScannerStep

\* Sequences stay positions of their slots.
LEMMA SequenceOKStep ==
  ASSUME TypeOK, ClaimsOwned, SequenceOK, Next
  PROVE  SequenceOK'
<1>0. head \in Nat /\ \A s \in Slots : sequence[s] \in Nat \cup {INVALID_POS}
  BY DEF TypeOK
<1>1. ASSUME NEW c \in Consumers, ConsumerStep(c) PROVE SequenceOK'
  BY <1>1, ConsumerFrame DEF SequenceOK
<1>2. ASSUME NEW t \in Scanners, ClaimlessStep(t) PROVE SequenceOK'
  BY <1>2, ClaimlessFrame DEF SequenceOK
<1>3. ASSUME NEW t \in Producers, PushCas(t) PROVE SequenceOK'
  BY <1>0, <1>3, PushCasEffect DEF SequenceOK
<1>4. ASSUME NEW t \in Producers, PushCopy(t) PROVE SequenceOK'
  BY <1>4, PushCopyEffect DEF SequenceOK
<1>5. ASSUME NEW t \in Producers, PushPublish(t) PROVE SequenceOK'
  <2>1. pos[t] < head
    BY <1>5, PushPublishEffect DEF ClaimsOwned, Claimed
  <2>2. \A s \in Slots : \/ sequence'[s] = sequence[s]
                         \/ s = Slot(pos[t]) /\ sequence'[s] = pos[t]
    BY <1>5, PushPublishEffect DEF TypeOK
  <2> QED
    BY <1>5, <2>1, <2>2, PushPublishEffect DEF SequenceOK
<1> QED
  BY <1>1, <1>2, <1>3, <1>4, <1>5, StepKinds DEF ScannerStep

\* What is being written stays what was claimed.
LEMMA WritingStep ==
  ASSUME TypeOK, Window, ClaimsOwned, Writing, Next
  PROVE  Writing'
<1>0. /\ head \in Nat /\ log \in Seq(Items)
      /\ \A p \in Producers : pos[p] \in Nat /\ Slot(pos[p]) \in Slots
  BY SlotRange DEF TypeOK
<1>1. ASSUME NEW c \in Consumers, ConsumerStep(c) PROVE Writing'
  BY <1>1, ConsumerFrame DEF Writing, Claimed, Item, Scanners
<1>2. ASSUME NEW t \in Scanners, ClaimlessStep(t) PROVE Writing'
  <2>1. \A p \in Producers : pc'[p] = "publish" => pc[p] = "publish" /\ Claimed(p)
    BY <1>2, ClaimlessFrame DEF Claimed
  <2> QED
    BY <1>2, <2>1, ClaimlessFrame DEF Writing, Item
<1>3. ASSUME NEW t \in Producers, PushCas(t) PROVE Writing'
  <2>1. \A p \in Producers \ {t} : (Claimed(p)' <=> Claimed(p)) /\ pc'[p] = pc[p]
    BY <1>3, PushCasEffect DEF Claimed, Threads
  <2>2. Len(log') = head' /\ log'[head + 1] = Item(t)
    BY <1>0, <1>3, PushCasEffect DEF Writing
  <2>3. \A n \in 1 .. head : log'[n] = log[n]
    BY <1>0, <1>3, PushCasEffect DEF Writing
  <2>4. \A p \in Producers : Claimed(p) => pos[p] + 1 \in 1 .. head
    BY <1>0 DEF ClaimsOwned
  <2>5. \A p \in Producers : Item(p)' = Item(p)
    BY <1>3, PushCasEffect DEF Item
  <2> QED
    BY <1>3, <2>1, <2>2, <2>3, <2>4, <2>5, PushCasEffect DEF Writing
<1>4. ASSUME NEW t \in Producers, PushCopy(t) PROVE Writing'
  <2>1. \A p \in Producers : (Claimed(p)' <=> Claimed(p)) /\ Item(p)' = Item(p)
                             /\ (p # t => pc'[p] = pc[p])
    BY <1>4, PushCopyEffect DEF Claimed, Threads, Item
  <2>2. Claimed(t)
    BY <1>4, PushCopyEffect DEF Claimed
  <2>3. data'[Slot(pos[t])] = Item(t)
    BY <1>0, <1>4, PushCopyEffect DEF TypeOK
  <2>4. ASSUME NEW p \in Producers \ {t}, pc[p] = "publish"
        PROVE  data'[Slot(pos[p])] = data[Slot(pos[p])]
    <3>1. Slot(pos[p]) # Slot(pos[t])
      BY <2>2, <2>4, ClaimedSlots DEF Claimed
    <3> QED
      BY <1>0, <1>4, <3>1, PushCopyEffect DEF TypeOK
  <2> QED
    BY <1>4, <2>1, <2>3, <2>4, PushCopyEffect DEF Writing
<1>5. ASSUME NEW t \in Producers, PushPublish(t) PROVE Writing'
  BY <1>5, PushPublishEffect DEF Writing, Claimed, Threads, Item
<1> QED
  BY <1>1, <1>2, <1>3, <1>4, <1>5, StepKinds DEF ScannerStep

-----------------------------------------------------------------------------
(***************************************************************************)
(* What the ring holds and what consumers have been given.                 *)
(***************************************************************************)

\* Position k is being written, or is in its slot.
Held(k) == \/ \E p \in Producers : Claimed(p) /\ pos[p] = k
           \/ sequence[Slot(k)] = k /\ data[Slot(k)] = log[k + 1]

\* The positions some active consumer has yet to read.
Unread(k) == \E i \in Ids : active[i] /\ k \in tail[i] .. head - 1

\* A readable unread position stays in its slot.
LEMMA HeldKept ==
  ASSUME TypeOK, Window, ClaimsOwned, TailsBehind, Writing,
         NEW t \in Scanners, ScannerStep(t),
         NEW k \in Nat, Unread(k), Held(k)
  PROVE  Held(k)'
<1> PICK i \in Ids : active[i] /\ k \in tail[i] .. head - 1
  BY DEF Unread
<1>0. /\ head \in Nat /\ k < head /\ Slot(k) \in Slots
      /\ log \in Seq(Items) /\ Len(log) = head
      /\ \A p \in Producers : pos[p] \in Nat /\ Slot(pos[p]) \in Slots
  BY SlotRange DEF TypeOK, Writing
<1>1. CASE ClaimlessStep(t)
  BY <1>1, ClaimlessFrame DEF Held
<1>2. ASSUME t \in Producers, PushCas(t) PROVE Held(k)'
  <2>1. \A p \in Producers : Claimed(p) => Claimed(p)' /\ pos'[p] = pos[p]
    BY <1>2, PushCasEffect DEF Claimed, Threads
  <2>2. log'[k + 1] = log[k + 1]
    <3>1. k + 1 \in 1 .. Len(log)
      BY <1>0
    <3> QED
      BY <1>0, <1>2, <3>1, PushCasEffect
  <2> QED
    BY <1>2, <2>1, <2>2, PushCasEffect DEF Held
<1>3. ASSUME t \in Producers, PushCopy(t) PROVE Held(k)'
  <2>1. \A p \in Producers : Claimed(p) => Claimed(p)' /\ pos'[p] = pos[p]
    BY <1>3, PushCopyEffect DEF Claimed, Threads
  <2>2. Claimed(t)
    BY <1>3, PushCopyEffect DEF Claimed
  <2>3. CASE Slot(k) = Slot(pos[t])
    <3>1. k = pos[t]
      BY <1>3, <2>2, <2>3, UnreadSlots
    <3> QED
      BY <1>3, <2>1, <2>2, <3>1 DEF Held
  <2>4. CASE Slot(k) # Slot(pos[t])
    <3>1. data'[Slot(k)] = data[Slot(k)]
      BY <1>0, <1>3, <2>4, PushCopyEffect DEF TypeOK
    <3> QED
      BY <1>3, <2>1, <3>1, PushCopyEffect DEF Held
  <2> QED
    BY <2>3, <2>4
<1>4. ASSUME t \in Producers, PushPublish(t) PROVE Held(k)'
  <2>1. \A p \in Producers \ {t} : Claimed(p) => Claimed(p)' /\ pos'[p] = pos[p]
    BY <1>4, PushPublishEffect DEF Claimed, Threads
  <2>2. Claimed(t) /\ pc[t] = "publish"
    BY <1>4, PushPublishEffect DEF Claimed
  <2>3. CASE Slot(k) = Slot(pos[t])
    <3>1. k = pos[t]
      BY <1>4, <2>2, <2>3, UnreadSlots
    <3>2. data[Slot(k)] = log[k + 1]
      BY <1>4, <2>2, <3>1 DEF Writing
    <3>3. sequence'[Slot(k)] = k
      BY <1>0, <1>4, <3>1, PushPublishEffect DEF TypeOK
    <3> QED
      BY <1>4, <3>2, <3>3, PushPublishEffect DEF Held
  <2>4. CASE Slot(k) # Slot(pos[t])
    <3>1. sequence'[Slot(k)] = sequence[Slot(k)]
      BY <1>0, <1>4, <2>4, PushPublishEffect DEF TypeOK
    <3>2. k # pos[t]
      BY <2>4
    <3> QED
      BY <1>4, <2>1, <3>1, <3>2, PushPublishEffect DEF Held
  <2> QED
    BY <2>3, <2>4
<1> QED
  BY <1>1, <1>2, <1>3, <1>4 DEF ScannerStep

\* The ring keeps what is unread.
LEMMA RingStep ==
  ASSUME LateJoiners = {}, TypeOK, EntriesOwned, StartUp, Window, ClaimsOwned,
         TailsBehind, Writing, RingHoldsUnread, Next
  PROVE  RingHoldsUnread'
<1>0. /\ head \in Nat /\ head' \in Nat
      /\ \A i \in Ids : tail[i] \in Nat /\ tail'[i] \in Nat
      /\ \A c \in Consumers : cid[c] \in Ids /\ cid'[c] \in Ids
  BY TypeStep DEF TypeOK
<1>1. \A k \in Nat : Unread(k) => Held(k)
  <2> SUFFICES ASSUME NEW k \in Nat, NEW i \in Ids, active[i],
                      k \in tail[i] .. head - 1
               PROVE  Held(k)
    BY DEF Unread
  <2>1. PICK c \in Consumers : Attached(c) /\ cid[c] = i
    BY DEF EntriesOwned
  <2> QED
    BY <2>1 DEF RingHoldsUnread, Held
<1>2. SUFFICES \A k \in Nat : Unread(k)' => Held(k)'
  <2> SUFFICES ASSUME NEW c \in Consumers, Attached(c)', active'[cid'[c]],
                      NEW k \in tail'[cid'[c]] .. head' - 1
               PROVE  Held(k)'
    BY DEF RingHoldsUnread, Held
  <2>1. cid'[c] \in Ids /\ k \in Nat
    BY <1>0
  <2>2. Unread(k)'
    BY <2>1 DEF Unread
  <2> QED
    BY <1>2, <2>1, <2>2
<1>3. ASSUME NEW c \in Consumers, RegisterStep(c)
      PROVE  \A k \in Nat : ~ Unread(k)'
  <2>1. pc[c] \in Registering
    BY <1>3 DEF RegisterStep, RegisterTakeId, RegisterLoadHead,
                RegisterStoreTail, RegisterActivate, Goto, Registering
  <2>2. head' = 0
    BY <1>3, <2>1, Quiet, ConsumerFrame DEF ConsumerStep
  <2> QED
    BY <1>0, <2>2 DEF Unread
<1>4. ASSUME NEW c \in Consumers, PopStep(c) \/ Unregister(c),
             NEW k \in Nat, Unread(k)'
      PROVE  Held(k)'
  <2>1. Unread(k)
    <3>1. PICK i \in Ids : active'[i] /\ k \in tail'[i] .. head' - 1
      BY <1>4 DEF Unread
    <3>2. active[i] /\ tail[i] <= tail'[i]
      BY <1>4, <3>1, TailsGrow
    <3>3. head' = head
      BY <1>4, ConsumerFrame DEF ConsumerStep
    <3>4. k \in tail[i] .. head - 1
      BY <1>0, <3>1, <3>2, <3>3
    <3> QED
      BY <3>2, <3>4 DEF Unread
  <2> QED
    BY <1>1, <1>4, <2>1, ConsumerFrame
    DEF Held, Claimed, ConsumerStep, Scanners
<1>5. ASSUME NEW t \in Scanners, ScannerStep(t), NEW k \in Nat, Unread(k)'
      PROVE  Held(k)'
  <2>1. CASE Unread(k)
    BY <1>1, <1>5, <2>1, HeldKept
  <2>2. CASE ~ Unread(k)
    <3>1. UNCHANGED <<tail, active>>
      BY <1>5, ScannerFrame
    <3>2. PICK h \in Nat : h = head'
      BY <1>0
    <3>3. head <= k /\ k < h
      <4>1. PICK i \in Ids : active'[i] /\ k \in tail'[i] .. head' - 1
        BY <1>5 DEF Unread
      <4>2. ~ (k \in tail[i] .. head - 1)
        BY <2>2, <3>1, <4>1 DEF Unread
      <4>3. k \in tail[i] .. h - 1
        BY <3>1, <3>2, <4>1
      <4> QED
        BY <1>0, <4>2, <4>3
    <3>5. t \in Producers /\ PushCas(t)
      <4>1. head' # head
        BY <1>0, <3>2, <3>3
      <4> QED
        BY <1>5, <4>1, ClaimlessFrame, PushCopyEffect, PushPublishEffect
        DEF ScannerStep
    <3>4. Claimed(t)' /\ pos'[t] = k
      <4>1. h = head + 1 /\ pos'[t] = head /\ pc'[t] = "copy"
        BY <3>2, <3>5, PushCasEffect
      <4> QED
        BY <1>0, <3>3, <4>1 DEF Claimed
    <3> QED
      BY <3>4, <3>5 DEF Held
  <2> QED
    BY <2>1, <2>2
<1> QED
  BY <1>3, <1>4, <1>5, StepKinds DEF ConsumerStep

\* Consumers keep a prefix of the log.
LEMMA ReadingStep ==
  ASSUME LateJoiners = {}, TypeOK, EntriesOwned, StartUp, Window, ClaimsOwned,
         TailsBehind, SequenceOK, Writing, RingHoldsUnread, Reading, Next
  PROVE  Reading'
<1>0. /\ head \in Nat /\ log \in Seq(Items) /\ INVALID_POS \notin Nat
      /\ \A i \in Ids : tail[i] \in Nat
      /\ \A c \in Consumers : /\ cid[c] \in Ids
                              /\ tail[cid[c]] \in Nat
                              /\ Slot(tail[cid[c]]) \in Slots
                              /\ got[c] \in Seq(Items \cup {NoItem})
  BY SlotRange, QueueAssumption DEF TypeOK
<1>1. ASSUME NEW c \in Consumers, pc[c] \in {"pop_copy", "pop_adv"}
      PROVE  /\ active[cid[c]] /\ SlotReady(c) /\ tail[cid[c]] < head
             /\ \A p \in Producers : Claimed(p) => Slot(pos[p]) # Slot(tail[cid[c]])
  <2>1. active[cid[c]] /\ SlotReady(c)
    BY <1>1 DEF EntriesOwned, Reading
  <2>2. tail[cid[c]] < head
    BY <1>0, <2>1 DEF SlotReady, SequenceOK
  <2>3. \A p \in Producers : Claimed(p) => tail[cid[c]] # pos[p]
    BY <2>1 DEF SlotReady, ClaimsOwned
  <2> QED
    BY <1>0, <2>1, <2>2, <2>3, UnreadSlots
<1>2. \A c \in Consumers : Len(got[c]) <= head
  BY <1>0, <1>1 DEF Reading, TailsBehind, SafeBound
<1>3. ASSUME NEW c \in Consumers, RegisterStep(c) PROVE Reading'
  <2>1. pc[c] \in Registering
    BY <1>3 DEF RegisterStep, RegisterTakeId, RegisterLoadHead,
                RegisterStoreTail, RegisterActivate, Goto, Registering
  <2>2. /\ head = 0 /\ \A i \in Ids : tail[i] = 0 /\ tail'[i] = 0
    BY <1>3, <2>1, Quiet
    DEF RegisterStep, RegisterTakeId, RegisterLoadHead, RegisterStoreTail,
        RegisterActivate, Goto, StartUp, TypeOK, shared
  <2>3. \A d \in Consumers : got[d] = <<>>
    BY <1>0, <1>2, <2>2
  <2>4. /\ got' = got
        /\ pc'[c] \notin {"pop_copy", "pop_adv"}
        /\ \A d \in Consumers \ {c} : pc'[d] = pc[d]
    BY <1>3
    DEF RegisterStep, RegisterTakeId, RegisterLoadHead, RegisterStoreTail,
        RegisterActivate, Goto, TypeOK, Threads, history
  <2>5. \A d \in Consumers : pc[d] \notin {"pop_copy", "pop_adv"}
    BY <1>0, <1>1, <2>2
  <2>6. \A d \in Consumers : cid'[d] \in Ids
    BY TypeStep DEF TypeOK
  <2> QED
    BY <2>2, <2>3, <2>4, <2>5, <2>6 DEF Reading
<1>4. ASSUME NEW c \in Consumers, PopCheck(c) \/ Unregister(c) PROVE Reading'
  <2>1. /\ UNCHANGED <<tail, cid, got, log, sequence>>
        /\ \A d \in Consumers : /\ Attached(d)' <=> Attached(d)
                                /\ pc'[d] = "pop_adv" <=> pc[d] = "pop_adv"
                                /\ pc'[d] = "pop_copy" =>
                                     pc[d] = "pop_copy" \/ SlotReady(d)
    BY <1>4 DEF PopCheck, Unregister, Goto, Attached, TypeOK, Threads,
                shared, locals, history
  <2> QED
    BY <2>1 DEF Reading, SlotReady
<1>5. ASSUME NEW c \in Consumers, PopCopy(c) PROVE Reading'
  <2>1. /\ UNCHANGED <<tail, cid, log, sequence>>
        /\ pc[c] = "pop_copy" /\ pc'[c] = "pop_adv"
        /\ \A d \in Consumers \ {c} : pc'[d] = pc[d] /\ got'[d] = got[d]
        /\ got'[c] = Append(got[c], data[Slot(tail[cid[c]])])
    BY <1>5 DEF PopCopy, Goto, TypeOK, Threads, shared, locals
  <2>2. data[Slot(tail[cid[c]])] = log[tail[cid[c]] + 1]
    <3>1. tail[cid[c]] \in tail[cid[c]] .. head - 1
      BY <1>0, <1>1, <2>1
    <3>2. ~ \E p \in Producers : Claimed(p) /\ pos[p] = tail[cid[c]]
      BY <1>1, <2>1
    <3> QED
      BY <1>1, <2>1, <3>1, <3>2 DEF RingHoldsUnread, Attached
  <2>3. Len(got[c]) = tail[cid[c]] /\ \A n \in 1 .. Len(got[c]) : got[c][n] = log[n]
    BY <1>0, <2>1 DEF Reading, Attached
  <2>4. /\ Len(got'[c]) = tail[cid[c]] + 1
        /\ got'[c][tail[cid[c]] + 1] = log[tail[cid[c]] + 1]
        /\ \A n \in 1 .. tail[cid[c]] : got'[c][n] = log[n]
    BY <1>0, <2>1, <2>2, <2>3
  <2>5. /\ \A n \in 1 .. Len(got'[c]) : got'[c][n] = log[n]
        /\ Attached(c) /\ Attached(c)' /\ SlotReady(c)
    BY <1>0, <1>1, <2>1, <2>4 DEF Attached
  <2>6. \A d \in Consumers : SlotReady(d)' <=> SlotReady(d)
    BY <2>1 DEF SlotReady
  <2>7. \A d \in Consumers \ {c} : Attached(d)' <=> Attached(d)
    BY <2>1 DEF Attached
  <2> QED
    BY <2>1, <2>4, <2>5, <2>6, <2>7 DEF Reading
<1>6. ASSUME NEW c \in Consumers, PopAdvance(c) PROVE Reading'
  <2>1. /\ UNCHANGED <<cid, log, sequence, got>>
        /\ pc[c] = "pop_adv" /\ pc'[c] = "idle"
        /\ \A d \in Consumers \ {c} : pc'[d] = pc[d]
        /\ tail'[cid[c]] = tail[cid[c]] + 1
        /\ \A i \in Ids \ {cid[c]} : tail'[i] = tail[i]
    BY <1>0, <1>6 DEF PopAdvance, Goto, TypeOK, Threads, locals, history
  <2>2. \A d \in Consumers \ {c} : Attached(d) => tail'[cid[d]] = tail[cid[d]]
    BY <1>0, <2>1 DEF EntriesOwned, Enrolled, Attached
  <2>3. /\ \A d \in Consumers \ {c} : pc'[d] \in {"pop_copy", "pop_adv"} => Attached(d)
        /\ \A d \in Consumers \ {c} : Attached(d)' <=> Attached(d)
        /\ Attached(c) /\ Attached(c)'
    BY <2>1 DEF Attached
  <2>4. \A d \in Consumers \ {c} : Attached(d) => (SlotReady(d)' <=> SlotReady(d))
    BY <2>1, <2>2 DEF SlotReady
  <2>5. \A d \in Consumers \ {c} : Attached(d)' => tail'[cid'[d]] = tail[cid[d]]
    BY <2>1, <2>2, <2>3
  <2>6. \A d \in Consumers : ~ Attached(d)' => got'[d] = <<>>
    BY <1>0, <2>1, <2>3 DEF Reading
  <2>7. \A d \in Consumers : Attached(d)' =>
          /\ Len(got'[d]) = tail'[cid'[d]] + (IF pc'[d] = "pop_adv" THEN 1 ELSE 0)
          /\ \A n \in 1 .. Len(got'[d]) : got'[d][n] = log'[n]
    <3>1. ASSUME NEW d \in Consumers \ {c}, Attached(d)'
          PROVE  /\ Len(got'[d]) = tail'[cid'[d]] + (IF pc'[d] = "pop_adv" THEN 1 ELSE 0)
                 /\ \A n \in 1 .. Len(got'[d]) : got'[d][n] = log'[n]
      BY <1>0, <2>1, <2>3, <2>5, <3>1 DEF Reading
    <3>2. /\ Len(got'[c]) = tail'[cid'[c]]
          /\ \A n \in 1 .. Len(got'[c]) : got'[c][n] = log'[n]
      BY <1>0, <2>1, <2>3 DEF Reading
    <3>3. (IF pc'[c] = "pop_adv" THEN 1 ELSE 0) = 0
      BY <2>1
    <3>4. tail'[cid'[c]] \in Nat
      BY <1>0, <2>1
    <3> QED
      BY <3>1, <3>2, <3>3, <3>4
  <2>8. \A d \in Consumers : pc'[d] \in {"pop_copy", "pop_adv"} => SlotReady(d)'
    BY <1>0, <2>1, <2>3, <2>4 DEF Reading
  <2> QED
    BY <2>6, <2>7, <2>8 DEF Reading
<1>7. ASSUME NEW t \in Scanners, ScannerStep(t) PROVE Reading'
  <2>1. \A c \in Consumers : pc[c] \in {"pop_copy", "pop_adv"} =>
          sequence'[Slot(tail[cid[c]])] = sequence[Slot(tail[cid[c]])]
    <3>1. CASE t \in Producers /\ PushPublish(t)
      <4>1. Claimed(t)
        BY <3>1, PushPublishEffect DEF Claimed
      <4>2. sequence' = [sequence EXCEPT ![Slot(pos[t])] = pos[t]]
        BY <3>1, PushPublishEffect
      <4>3. ASSUME NEW c \in Consumers, pc[c] \in {"pop_copy", "pop_adv"}
            PROVE  Slot(pos[t]) # Slot(tail[cid[c]])
        BY <1>1, <3>1, <4>1, <4>3
      <4> QED
        BY <4>2, <4>3
    <3>2. CASE ~ (t \in Producers /\ PushPublish(t))
      <4>1. ClaimlessStep(t) => sequence' = sequence
        BY <1>0, <1>7, ClaimlessFrame
      <4>2. t \in Producers /\ PushCas(t) => sequence' = sequence
        BY <1>0, PushCasEffect
      <4>3. t \in Producers /\ PushCopy(t) => sequence' = sequence
        BY <1>0, PushCopyEffect
      <4> QED
        BY <1>7, <3>2, <4>1, <4>2, <4>3 DEF ScannerStep
    <3> QED
      BY <3>1, <3>2
  <2>2. \A n \in 1 .. head : log'[n] = log[n]
    <3>1. CASE t \in Producers /\ PushCas(t)
      BY <1>0, <3>1, PushCasEffect DEF Writing
    <3>2. CASE ~ (t \in Producers /\ PushCas(t))
      BY <1>7, <3>2, ClaimlessFrame, PushPublishEffect, PushCopyEffect
      DEF ScannerStep
    <3> QED
      BY <3>1, <3>2
  <2>3. \A c \in Consumers : \A n \in 1 .. Len(got[c]) : n \in 1 .. head
    BY <1>0, <1>2
  <2> QED
    BY <1>7, <2>1, <2>2, <2>3, ScannerFrame DEF Reading, Attached, SlotReady
<1> QED
  BY <1>3, <1>4, <1>5, <1>6, <1>7, StepKinds DEF ConsumerStep, PopStep

-----------------------------------------------------------------------------
(***************************************************************************)
(* The invariant and what follows from it.                                 *)
(***************************************************************************)
LEMMA InvInit == Init => IInv
<1> SUFFICES ASSUME Init PROVE IInv
  OBVIOUS
<1>1. TypeOK
  BY TypeInit
<1>2. /\ \A t \in Scanners : pc[t] = "idle"
      /\ \A p \in Producers : pc[p] = "idle"
      /\ \A c \in Consumers : pc[c] = "unregistered"
  BY Roles DEF Init, Threads, Scanners
<1>3. EntriesOwned /\ StartUp /\ Reading
  BY <1>2 DEF Init, EntriesOwned, Enrolled, Attached, StartUp, Reading
<1>4. TailsBehind /\ CacheSafe /\ CasSafe /\ ScanSafe /\ Window
  BY <1>2, QueueAssumption
  DEF Init, TailsBehind, CacheSafe, CasSafe, ScanSafe, Scanning, Window,
      SafeBound, BelowActive, Claimed
<1>5. ClaimsOwned /\ SequenceOK /\ Writing /\ RingHoldsUnread
  BY <1>2 DEF Init, ClaimsOwned, SequenceOK, Writing, RingHoldsUnread,
              Claimed, Attached
<1> QED
  BY <1>1, <1>3, <1>4, <1>5 DEF IInv

\* A step that changes nothing keeps the invariant.
LEMMA InvStutter == IInv /\ UNCHANGED vars => IInv'
BY DEF IInv, TypeOK, EntriesOwned, Enrolled, Attached, StartUp, Ready,
       TailsBehind, CacheSafe, CasSafe, ScanSafe, Scanning, Window,
       ClaimsOwned, SequenceOK, Writing, RingHoldsUnread, Reading, SafeBound,
       BelowActive, Claimed, Item, SlotReady, vars

\* Every step keeps the invariant.
LEMMA InvStep ==
  ASSUME LateJoiners = {}
  PROVE  IInv /\ [Next]_vars => IInv'
<1>1. IInv /\ Next => IInv'
  BY TypeStep, EntriesOwnedStep, StartUpStep, TailsBehindStep, CacheSafeStep,
     CasSafeStep, ScanSafeStep, WindowStep, ClaimsOwnedStep, SequenceOKStep,
     WritingStep, RingStep, ReadingStep DEF IInv
<1> QED
  BY <1>1, InvStutter

\* The inductive invariant holds of every queue whose consumers all register
\* before the first push (logger.cpp:25-29).
THEOREM Invariance ==
  ASSUME LateJoiners = {}
  PROVE  Spec => []IInv
<1>1. Init => IInv
  BY InvInit
<1>2. IInv /\ [Next]_vars => IInv'
  BY InvStep
<1> QED
  BY <1>1, <1>2, PTL DEF Spec

\* The invariant excludes data races.
LEMMA InvNoDataRace == IInv => NoDataRace
<1> SUFFICES ASSUME IInv PROVE NoDataRace
  OBVIOUS
<1>1. ASSUME NEW p \in Producers, NEW q \in Producers, p # q,
             pc[p] = "copy", pc[q] = "copy"
      PROVE  Slot(pos[p]) # Slot(pos[q])
  BY <1>1, ClaimedSlots DEF IInv, Claimed
<1>2. ASSUME NEW p \in Producers, NEW c \in Consumers,
             pc[p] = "copy", pc[c] = "pop_copy"
      PROVE  Slot(pos[p]) # Slot(tail[cid[c]])
  <2>1. active[cid[c]] /\ SlotReady(c) /\ Claimed(p)
    BY <1>2 DEF IInv, EntriesOwned, Reading, Claimed
  <2>2. cid[c] \in Ids /\ tail[cid[c]] \in Nat /\ head \in Nat
    BY DEF IInv, TypeOK
  <2>3. tail[cid[c]] < head
    <3>1. SafeBound(tail[cid[c]] + 1)
      BY <2>1, ReadyTail DEF IInv
    <3> QED
      BY <2>2, <3>1 DEF SafeBound
  <2>4. tail[cid[c]] # pos[p]
    BY <2>1 DEF IInv, ClaimsOwned, SlotReady
  <2>5. tail[cid[c]] \in tail[cid[c]] .. head - 1
    BY <2>2, <2>3
  <2> QED
    BY <2>1, <2>2, <2>4, <2>5, UnreadSlots DEF IInv
<1> QED
  BY <1>1, <1>2 DEF NoDataRace

\* The invariant gives delivery in order.
LEMMA InvDelivered == IInv => DeliveredInOrder
<1> SUFFICES ASSUME IInv, NEW c \in Consumers, NEW n \in 1 .. Len(got[c])
             PROVE  n <= Len(log) /\ got[c][n] = log[n]
  BY DEF DeliveredInOrder
<1>1. got[c] \in Seq(Items \cup {NoItem}) /\ cid[c] \in Ids /\ head \in Nat
      /\ tail[cid[c]] \in Nat /\ Len(log) = head
  BY DEF IInv, TypeOK, Writing
<1>2. Attached(c)
  BY <1>1 DEF IInv, Reading
<1>3. got[c][n] = log[n]
  BY <1>2 DEF IInv, Reading
<1>4. tail[cid[c]] <= head
  BY <1>1 DEF IInv, TailsBehind, SafeBound
<1>5. pc[c] = "pop_adv" => tail[cid[c]] + 1 <= head
  BY ReadyTail DEF IInv, Reading, SafeBound
<1>6. Len(got[c]) <= head
  BY <1>1, <1>2, <1>4, <1>5 DEF IInv, Reading
<1> QED
  BY <1>1, <1>3, <1>6

\* No slot is ever written while another thread writes or reads it, when
\* consumers register before the pushes (mpmc_queue.hpp:216, :242).
THEOREM NoRace ==
  ASSUME LateJoiners = {}
  PROVE  Spec => []NoDataRace
BY Invariance, InvNoDataRace, PTL

\* Each consumer is handed the claimed items in claim order, without loss,
\* repetition or tearing (mpmc_queue.hpp:226-247).
THEOREM Delivery ==
  ASSUME LateJoiners = {}
  PROVE  Spec => []DeliveredInOrder
BY Invariance, InvDelivered, PTL

\* What an active consumer has yet to read is being written or in its slot.
THEOREM RingHolds ==
  ASSUME LateJoiners = {}
  PROVE  Spec => []RingHoldsUnread
<1>1. IInv => RingHoldsUnread
  BY DEF IInv
<1> QED
  BY <1>1, Invariance, PTL

\* min_tail never exceeds an active tail, whatever threads store into it.
THEOREM CacheBound ==
  ASSUME LateJoiners = {}
  PROVE  Spec => []CacheIsLowerBound
<1>1. IInv => CacheIsLowerBound
  BY DEF IInv, CacheSafe, BelowActive, CacheIsLowerBound
<1> QED
  BY <1>1, Invariance, PTL
=============================================================================
