-------------------------- MODULE MpmcQueueFullProofs --------------------------
(***************************************************************************)
(* Refusals are genuine.  A push that returns false has met a full ring,   *)
(* as long as some consumer is reading.  (With none, compute_min_tail      *)
(* returns 0, and a push is refused once SIZE entries are in.)  A          *)
(* registration that throws has met MAX_CONSUMERS consumers, as long as    *)
(* nobody gives an entry back.                                             *)
(***************************************************************************)
EXTENDS MpmcQueueProofs, FiniteSetTheorems

\* Once the pushes have begun somebody is registered and active.
SomeoneReads == Ready => \E c \in Consumers : Attached(c) /\ active[cid[c]]

\* Either the push has seen the ring full, or the bound b leaves it room.
SeenOrRoom(p, b) == lag_seen[p] = 1 \/ pos[p] < b + SIZE

\* What a push knows of the tails it has read so far.
Seen(p) ==
  /\ pc[p] \in {"load_min", "scan", "scan_tail"} => pos[p] <= head
  /\ pc[p] = "scan_tail" => SeenOrRoom(p, tail[scan_i[p]])
  /\ Scanning(p) /\ scan_min[p] # INVALID_POS => SeenOrRoom(p, scan_min[p])
  /\ pc[p] = "full" => lag_seen[p] = 1

SeenInv == \A p \in Producers : Seen(p)

\* Seeing the lag never takes back what was seen.
LEMMA SeeLagEffect ==
  ASSUME TypeOK, NEW p \in Producers, SeeLag(p)
  PROVE  /\ lag_seen[p] = 1 => lag_seen'[p] = 1
         /\ (\E c \in Consumers : Lags(c)) => lag_seen'[p] = 1
<1>1. lag_seen \in [Producers -> 0 .. 1]
  BY DEF TypeOK
<1>2. lag_seen' = IF LagLevel > lag_seen[p] THEN [lag_seen EXCEPT ![p] = LagLevel] ELSE lag_seen
  BY DEF SeeLag
<1>3. LagLevel \in 0 .. 1 /\ ((\E c \in Consumers : Lags(c)) => LagLevel = 1)
  BY DEF LagLevel
<1>4. CASE LagLevel > lag_seen[p]
  BY <1>1, <1>2, <1>3, <1>4
<1>5. CASE ~(LagLevel > lag_seen[p])
  BY <1>1, <1>2, <1>3, <1>5
<1> QED
  BY <1>4, <1>5

\* Consumers only move tails up while anyone scans.
LEMMA SeenConsumer ==
  ASSUME LateJoiners = {}, IInv, SeenInv, NEW c \in Consumers, ConsumerStep(c)
  PROVE  SeenInv'
<1>1. /\ UNCHANGED <<head, scan_i, scan_min>>
      /\ \A p \in Producers : pc'[p] = pc[p] /\ pos'[p] = pos[p]
  BY ConsumerFrame DEF IInv, Scanners
<1>2. lag_seen' = lag_seen
  BY DEF ConsumerStep, RegisterStep, PopStep, RegisterTakeId, RegisterLoadHead, RegisterStoreTail,
         RegisterActivate, PopCheck, PopCopy, PopAdvance, Unregister, history
<1>3. CASE RegisterStep(c)
  <2>1. pc[c] \in Registering
    BY <1>3 DEF RegisterStep, RegisterTakeId, RegisterLoadHead, RegisterStoreTail, RegisterActivate,
                Goto, Registering
  <2>2. \A p \in Producers : pc[p] = "idle"
    BY <2>1, Quiet DEF IInv, Scanners
  <2> QED
    BY <1>1, <2>2 DEF SeenInv, Seen, Scanning
<1>4. CASE PopStep(c) \/ Unregister(c)
  <2>1. \A i \in Ids : tail[i] <= tail'[i] /\ tail[i] \in Nat /\ tail'[i] \in Nat
    BY <1>4, TailsGrow DEF IInv
  <2>2. SIZE \in Nat /\ \A p \in Producers : pos[p] \in Nat
    BY QueueAssumption DEF IInv, TypeOK
  <2>3. ASSUME NEW p \in Producers PROVE Seen(p)'
    <3>1. Seen(p)
      BY DEF SeenInv
    <3>2. pc[p] = "scan_tail" => scan_i[p] \in Ids
      BY QueueAssumption DEF IInv, TypeOK, Scanners, Ids
    <3>3. ASSUME pc[p] = "scan_tail" PROVE SeenOrRoom(p, tail[scan_i[p]])'
      <4>1. lag_seen[p] = 1 \/ pos[p] < tail[scan_i[p]] + SIZE
        BY <3>1, <3>3 DEF Seen, SeenOrRoom
      <4>2. tail[scan_i[p]] \in Nat /\ tail'[scan_i[p]] \in Nat /\ tail[scan_i[p]] <= tail'[scan_i[p]]
        BY <2>1, <3>2, <3>3
      <4>3. lag_seen[p] = 1 \/ pos[p] < tail'[scan_i[p]] + SIZE
        BY <2>2, <4>1, <4>2
      <4> QED
        BY <1>1, <1>2, <4>3 DEF SeenOrRoom
    <3> QED
      BY <1>1, <1>2, <3>1, <3>3 DEF Seen, SeenOrRoom, Scanning
  <2> QED
    BY <2>3 DEF SeenInv
<1> QED
  BY <1>3, <1>4 DEF ConsumerStep

\* The steps of other pushes and refreshes change nothing p knows.
LEMMA SeenOther ==
  ASSUME IInv, Next, NEW p \in Producers, Seen(p), NEW t \in Scanners \ {p}, ScannerStep(t)
  PROVE  Seen(p)'
<1>0. TypeOK /\ p \in Scanners
  BY DEF IInv, Scanners
<1>1. /\ tail' = tail /\ pc'[p] = pc[p] /\ pos'[p] = pos[p]
      /\ scan_i'[p] = scan_i[p] /\ scan_min'[p] = scan_min[p]
  BY <1>0, ScannerFrame
<1>2. head <= head' /\ head \in Nat /\ head' \in Nat /\ pos[p] \in Nat
  BY <1>0, ClaimsGrow, TypeStep DEF TypeOK
<1>3. lag_seen'[p] = lag_seen[p]
  BY <1>0 DEF ScannerStep, ClaimlessStep, ScanStep, PushCall, PushLoadHead, PushLoadMinTail,
    PushUseScan, PushReturnFull, PushCasFail, PushCas, PushCopy, PushPublish, RefreshCall,
    RefreshStore, ScanActive, ScanTail, SeeLag, history, TypeOK
<1> QED
  BY <1>1, <1>2, <1>3 DEF Seen, SeenOrRoom, Scanning

\* A push learns from the tails it reads, and what a scan returns is the tail
\* of somebody.
LEMMA SeenOwn ==
  ASSUME IInv, SomeoneReads, NEW p \in Producers, Seen(p), ScannerStep(p)
  PROVE  Seen(p)'
<1>0. /\ p \in Scanners /\ p \in Threads /\ pc \in [Threads -> Pcs]
      /\ head \in Nat /\ pos \in [Producers \cup Consumers -> Nat] /\ SIZE \in Nat
      /\ tail \in [Ids -> Nat] /\ scan_min \in [Scanners -> Nat \cup {INVALID_POS}]
      /\ scan_i \in [Scanners -> 0 .. MAX_CONSUMERS] /\ MAX_CONSUMERS \in Nat
      /\ INVALID_POS \notin Nat
      /\ p \notin Refreshers
  BY QueueAssumption, Roles DEF IInv, TypeOK, Scanners, Threads
<1> USE DEF Scanning
<1>1. CASE PushCall(p) \/ PushLoadHead(p)
  BY <1>0, <1>1 DEF PushCall, PushLoadHead, Goto, Seen, shared
<1>2. CASE PushLoadMinTail(p)
  <2>1. /\ pc[p] = "load_min" /\ pc'[p] \in {"scan", "cas"}
        /\ UNCHANGED <<head, pos, scan_min>>
    BY <1>0, <1>2 DEF PushLoadMinTail, shared
  <2>2. scan_min[p] = INVALID_POS
    BY <1>0, <2>1 DEF IInv, ScanSafe
  <2> QED
    BY <2>1, <2>2 DEF Seen
<1>3. CASE ScanActive(p)
  <2>1. /\ pc[p] = "scan" /\ SeeLag(p) /\ UNCHANGED <<head, tail, pos, scan_min>>
        /\ pos[p] <= head
    BY <1>3 DEF ScanActive, shared, Seen
  <2>2. lag_seen[p] = 1 => lag_seen'[p] = 1
    BY <2>1, SeeLagEffect DEF IInv
  <2>3. \/ pc'[p] = "scan"
        \/ pc'[p] = "scan_tail" /\ scan_i' = scan_i /\ active[scan_i[p]] /\ scan_i[p] \in Ids
    BY <1>0, <1>3 DEF ScanActive, Ids
  <2>4. scan_min[p] # INVALID_POS => SeenOrRoom(p, scan_min[p])'
    BY <2>1, <2>2 DEF Seen, SeenOrRoom
  <2>5. CASE pc'[p] = "scan"
    BY <2>1, <2>4, <2>5 DEF Seen
  <2>6. CASE pc'[p] = "scan_tail" /\ scan_i' = scan_i /\ active[scan_i[p]] /\ scan_i[p] \in Ids
    <3>1. PICK c \in Consumers : Attached(c) /\ cid[c] = scan_i[p]
      BY <2>6 DEF IInv, EntriesOwned
    <3>2. CASE pos[p] < tail[scan_i[p]] + SIZE
      BY <2>1, <2>4, <2>6, <3>2 DEF Seen, SeenOrRoom
    <3>3. CASE ~(pos[p] < tail[scan_i[p]] + SIZE)
      <4>1. tail[scan_i[p]] + SIZE <= head
        <5>1. tail[scan_i[p]] \in Nat /\ pos[p] \in Nat
          BY <1>0, <2>6
        <5> QED
          BY <1>0, <2>1, <3>3, <5>1
      <4>2. Lags(c)
        BY <2>6, <3>1, <4>1 DEF Lags
      <4>3. lag_seen'[p] = 1
        BY <2>1, <4>2, SeeLagEffect DEF IInv
      <4> QED
        BY <2>1, <2>4, <2>6, <4>3 DEF Seen, SeenOrRoom
    <3> QED
      BY <3>2, <3>3
  <2> QED
    BY <2>3, <2>5, <2>6
<1>4. CASE ScanTail(p)
  <2>1. /\ pc[p] = "scan_tail" /\ pc'[p] = "scan" /\ SeeLag(p) /\ UNCHANGED <<head, pos>>
        /\ scan_min'[p] = MinPos(scan_min[p], tail[scan_i[p]])
        /\ pos[p] <= head
    BY <1>0, <1>4 DEF ScanTail, Goto, shared, Seen
  <2>2. lag_seen[p] = 1 => lag_seen'[p] = 1
    BY <2>1, SeeLagEffect DEF IInv
  <2>3. \/ scan_min'[p] = tail[scan_i[p]]
        \/ scan_min'[p] = scan_min[p] /\ scan_min[p] # INVALID_POS
    BY <2>1 DEF MinPos
  <2>4. SeenOrRoom(p, tail[scan_i[p]]) /\ (scan_min[p] # INVALID_POS => SeenOrRoom(p, scan_min[p]))
    BY <2>1 DEF Seen
  <2>5. SeenOrRoom(p, scan_min[p])'
    BY <2>1, <2>2, <2>3, <2>4 DEF SeenOrRoom
  <2> QED
    BY <2>1, <2>5 DEF Seen
<1>5. CASE PushUseScan(p)
  <2>1. /\ pc[p] = "scan" /\ scan_i[p] = MAX_CONSUMERS
        /\ pc'[p] \in {"full", "cas"} /\ UNCHANGED lag_seen
        /\ pc'[p] = "full" => Full(pos[p], ScanResult(p))
    BY <1>0, <1>5 DEF PushUseScan, EndScan, history
  <2>2. Ready
    BY <1>0, <2>1, BusyMeansReady DEF IInv
  <2>3. PICK c \in Consumers : Attached(c) /\ active[cid[c]]
    BY <2>2 DEF SomeoneReads
  <2>4. cid[c] \in Ids /\ cid[c] < MAX_CONSUMERS
    BY <1>0 DEF IInv, TypeOK, Ids
  <2>5. scan_min[p] # INVALID_POS
    BY <1>0, <2>1, <2>3, <2>4 DEF IInv, ScanSafe
  <2>6. ScanResult(p) = scan_min[p] /\ scan_min[p] \in Nat /\ pos[p] \in Nat
    BY <1>0, <2>5 DEF ScanResult
  <2>7. pc'[p] = "full" => ~(pos[p] < scan_min[p] + SIZE)
    BY <1>0, <2>1, <2>6 DEF Full
  <2>8. SeenOrRoom(p, scan_min[p])
    BY <2>1, <2>5 DEF Seen
  <2> QED
    BY <2>1, <2>7, <2>8 DEF Seen, SeenOrRoom
<1>6. CASE PushReturnFull(p) \/ PushCasFail(p) \/ PushCas(p) \/ PushCopy(p) \/ PushPublish(p)
  BY <1>0, <1>6 DEF PushReturnFull, PushCasFail, PushCas, PushCopy, PushPublish, Goto, Seen
<1> QED
  BY <1>0, <1>1, <1>2, <1>3, <1>4, <1>5, <1>6 DEF ScannerStep, ClaimlessStep, ScanStep

\* So every step keeps it.
LEMMA SeenStep ==
  ASSUME LateJoiners = {}, IInv, SomeoneReads, SeenInv, [Next]_vars
  PROVE  SeenInv'
<1>1. CASE UNCHANGED vars
  BY <1>1 DEF vars, SeenInv, Seen, SeenOrRoom, Scanning
<1>2. ASSUME NEW c \in Consumers, ConsumerStep(c) PROVE SeenInv'
  BY <1>2, SeenConsumer
<1>3. ASSUME Next, NEW t \in Scanners, ScannerStep(t) PROVE SeenInv'
  BY <1>3, SeenOther, SeenOwn DEF SeenInv
<1> QED
  BY <1>1, <1>2, <1>3, StepKinds

\* While somebody reads, push returns false only if some active consumer really
\* was SIZE positions behind during the call (mpmc_queue.hpp:197-199).
THEOREM FullGenuine ==
  ASSUME LateJoiners = {}
  PROVE  Spec /\ []SomeoneReads => []FullIsGenuine
<1>1. Init => SeenInv
  BY Roles DEF Init, SeenInv, Seen, Scanning, Threads
<1>2. IInv /\ SomeoneReads /\ SeenInv /\ [Next]_vars => SeenInv'
  BY SeenStep
<1>3. SeenInv => FullIsGenuine
  BY DEF SeenInv, Seen, FullIsGenuine
<1>4. Spec => []IInv
  BY Invariance
<1> QED
  BY <1>1, <1>2, <1>3, <1>4, PTL DEF Spec

-----------------------------------------------------------------------------
(***************************************************************************)
(* A registration that is refused has met MAX_CONSUMERS consumers, as long *)
(* as nobody gives an entry back.  (An id is never handed out again, so    *)
(* with Leavers the refusals count registrations.)                         *)
(***************************************************************************)

\* Every id handed out is some consumer's, and who attached stays active.
IdsHeld ==
  /\ \A i \in Ids : i < num_consumers => \E c \in Consumers : Enrolled(c) /\ cid[c] = i
  /\ \A c \in Consumers : Attached(c) => active[cid[c]]

\* A consumer's own step keeps the ids accounted for.
LEMMA IdsHeldConsumer ==
  ASSUME Leavers = {}, TypeOK, EntriesOwned, IdsHeld, NEW c \in Consumers, ConsumerStep(c)
  PROVE  IdsHeld'
<1> USE DEF IdsHeld, Enrolled, Attached
<1>0. \A d \in Consumers \ {c} : pc'[d] = pc[d] /\ cid'[d] = cid[d]
  BY ConsumerFrame
<1>1. CASE RegisterTakeId(c)
  <2>1. /\ num_consumers' = num_consumers + 1 /\ active' = active
        /\ pc[c] = "unregistered"
        /\ \/ num_consumers >= MAX_CONSUMERS /\ pc'[c] = "rejected"
           \/ pc'[c] = "reg_head" /\ cid'[c] = num_consumers
    BY <1>1 DEF RegisterTakeId, IdsExhausted, TypeOK, Threads
  <2>2. \A i \in Ids : i < num_consumers' =>
          i < num_consumers \/ (i = num_consumers /\ num_consumers < MAX_CONSUMERS)
    BY <2>1, QueueAssumption DEF QueueAssumption, TypeOK, Ids
  <2>3. ASSUME NEW i \in Ids, i < num_consumers
        PROVE  \E d \in Consumers : Enrolled(d)' /\ cid'[d] = i
    BY <1>0, <2>1, <2>3
  <2>4. ASSUME num_consumers < MAX_CONSUMERS
        PROVE  Enrolled(c)' /\ cid'[c] = num_consumers
    BY <2>1, <2>4, QueueAssumption DEF QueueAssumption, TypeOK
  <2>5. \A i \in Ids : i < num_consumers' => \E d \in Consumers : Enrolled(d)' /\ cid'[d] = i
    <3> HIDE DEF IdsHeld, Enrolled, Attached
    <3> QED
      BY <2>2, <2>3, <2>4
  <2>6. \A d \in Consumers : Attached(d)' => active'[cid'[d]]
    BY <1>0, <2>1
  <2> QED
    BY <2>5, <2>6
<1>2. CASE RegisterActivate(c)
  <2>1. /\ num_consumers' = num_consumers /\ cid' = cid
        /\ pc[c] = "reg_active" /\ pc'[c] = "idle"
        /\ active' = [active EXCEPT ![cid[c]] = TRUE]
    BY <1>2 DEF RegisterActivate, Goto, TypeOK, Threads, locals
  <2>2. active'[cid[c]] /\ \A i \in Ids : active[i] => active'[i]
    BY <2>1 DEF TypeOK
  <2>3. \A d \in Consumers : (Enrolled(d) => Enrolled(d)') /\ cid'[d] = cid[d] /\ cid[d] \in Ids
    BY <1>0, <2>1 DEF TypeOK
  <2>4. \A d \in Consumers : Attached(d)' => active'[cid'[d]]
    BY <1>0, <2>1, <2>2, <2>3
  <2>5. \A i \in Ids : i < num_consumers' => \E d \in Consumers : Enrolled(d)' /\ cid'[d] = i
    <3> HIDE DEF Enrolled, Attached
    <3> QED
      BY <2>1, <2>3
  <2> QED
    BY <2>4, <2>5
<1>3. CASE \/ RegisterLoadHead(c) \/ RegisterStoreTail(c)
           \/ PopCheck(c) \/ PopCopy(c) \/ PopAdvance(c)
  <2>1. /\ num_consumers' = num_consumers /\ cid' = cid /\ active' = active
        /\ Enrolled(c) /\ Enrolled(c)' /\ (Attached(c)' <=> Attached(c))
    BY <1>3 DEF RegisterLoadHead, RegisterStoreTail, PopCheck, PopCopy, PopAdvance, Goto,
                TypeOK, Threads, shared, locals
  <2> QED
    BY <1>0, <2>1
<1> QED
  BY <1>1, <1>2, <1>3 DEF ConsumerStep, RegisterStep, PopStep, Unregister

\* Every step keeps the ids accounted for.
LEMMA IdsHeldStep ==
  ASSUME Leavers = {}, TypeOK, EntriesOwned, IdsHeld, [Next]_vars
  PROVE  IdsHeld'
<1>1. CASE Next
  <2>1. ASSUME NEW t \in Scanners, ScannerStep(t) PROVE IdsHeld'
    <3>1. /\ UNCHANGED <<num_consumers, active, cid>>
          /\ \A c \in Consumers : pc'[c] = pc[c]
      BY <2>1, ScannerFrame
    <3> QED
      BY <3>1 DEF IdsHeld, Enrolled, Attached
  <2> QED
    BY <1>1, <2>1, StepKinds, IdsHeldConsumer
<1>2. CASE UNCHANGED vars
  BY <1>2 DEF vars, IdsHeld, Enrolled, Attached
<1> QED
  BY <1>1, <1>2

\* When the ids have run out, as many consumers hold an entry as there are ids.
LEMMA EntriesCounted ==
  ASSUME TypeOK, EntriesOwned, IdsHeld, num_consumers >= MAX_CONSUMERS
  PROVE  Cardinality({c \in Consumers : HoldsEntry(c)}) >= MAX_CONSUMERS
<1> DEFINE H == {c \in Consumers : HoldsEntry(c)}
           f == [c \in H |-> cid[c]]
<1>1. \A c \in Consumers : HoldsEntry(c) <=> Enrolled(c)
  BY DEF HoldsEntry, Enrolled, Attached, IdsHeld
<1>2. f \in [H -> Ids] /\ \A c \in H : f[c] = cid[c]
  BY DEF TypeOK
<1>3. \A c, d \in H : f[c] = f[d] => c = d
  BY <1>1, <1>2 DEF EntriesOwned
<1>4. \A i \in Ids : \E c \in H : f[c] = i
  <2> SUFFICES ASSUME NEW i \in Ids PROVE \E c \in H : f[c] = i
    OBVIOUS
  <2>1. i < num_consumers
    BY QueueAssumption DEF QueueAssumption, TypeOK, Ids
  <2> QED
    BY <1>1, <1>2, <2>1 DEF IdsHeld
<1> HIDE DEF H, f
<1>5. f \in Bijection(H, Ids)
  BY <1>2, <1>3, <1>4 DEF Bijection, Injection, Surjection, IsInjective
<1>6. IsFiniteSet(Ids) /\ Cardinality(Ids) = MAX_CONSUMERS
  BY FS_Interval, QueueAssumption DEF QueueAssumption, Ids
<1>7. Cardinality(H) = Cardinality(Ids)
  <2>1. IsFiniteSet(H)
    BY <1>5, <1>6, FS_Injection DEF Bijection
  <2> QED
    BY <1>5, <1>6, <2>1, FS_Bijection DEF ExistsBijection
<1> QED
  BY <1>6, <1>7, QueueAssumption DEF QueueAssumption, H

\* register_consumer throws "too many consumers (max 32)" only while
\* MAX_CONSUMERS other consumers hold an entry (mpmc_queue.hpp:163-166),
\* if nobody unregisters.
THEOREM RejectsWhenFull ==
  ASSUME Leavers = {}
  PROVE  Spec => RejectedOnlyWhenFull
<1> DEFINE I == TypeOK /\ EntriesOwned /\ IdsHeld
           R == \A c \in Consumers : pc[c] # "rejected" /\ pc'[c] = "rejected" =>
                  Cardinality({d \in Consumers : HoldsEntry(d)}) >= MAX_CONSUMERS
<1>1. Init => I
  <2> SUFFICES ASSUME Init PROVE I
    OBVIOUS
  <2>1. TypeOK
    BY TypeInit
  <2>2. \A c \in Consumers : pc[c] = "unregistered"
    BY DEF Init, Threads
  <2> QED
    BY <2>1, <2>2 DEF Init, EntriesOwned, IdsHeld, Enrolled, Attached, Ids
<1>2. I /\ [Next]_vars => I'
  <2> SUFFICES ASSUME I, [Next]_vars PROVE I'
    OBVIOUS
  <2>1. EntriesOwned'
    BY EntriesOwnedStep DEF vars, EntriesOwned, Enrolled, Attached
  <2> QED
    BY <2>1, TypeStep, IdsHeldStep
<1>3. I /\ [Next]_vars => [R]_vars
  <2> SUFFICES ASSUME I, Next, NEW c \in Consumers, pc[c] # "rejected", pc'[c] = "rejected"
               PROVE  Cardinality({d \in Consumers : HoldsEntry(d)}) >= MAX_CONSUMERS
    OBVIOUS
  <2>1. num_consumers >= MAX_CONSUMERS
    <3>1. ASSUME NEW t \in Scanners, ScannerStep(t) PROVE FALSE
      BY <3>1, ScannerFrame
    <3>2. PICK d \in Consumers : ConsumerStep(d)
      BY <3>1, StepKinds
    <3>3. d = c
      BY <3>2, ConsumerFrame
    <3> QED
      BY <3>2, <3>3
      DEF ConsumerStep, RegisterStep, PopStep, RegisterTakeId, RegisterLoadHead,
          RegisterStoreTail, RegisterActivate, PopCheck, PopCopy, PopAdvance,
          Unregister, Goto, IdsExhausted, TypeOK, Threads
  <2> QED
    BY <2>1, EntriesCounted
<1> QED
  BY <1>1, <1>2, <1>3, PTL DEF Spec, RejectedOnlyWhenFull
================================================================================
