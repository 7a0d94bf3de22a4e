-------------------------- MODULE MpmcQueueRefinement --------------------------
(***************************************************************************)
(* The ring buffer implements the bounded log of BroadcastQueue, which is  *)
(* what Logger and Bench take the queue to be: every step of a thread is   *)
(* one step of the log or none, for any number of threads and any sizes,   *)
(* when consumers register before the pushes.                              *)
(***************************************************************************)
EXTENDS MpmcQueueProofs

\* No step of the log.
Stutter == UNCHANGED <<log, readable, got, attached>>

\* The mapping depends on head and on what claimed producers hold.
LEMMA ReadableSame ==
  ASSUME head' = head,
         \A p \in Producers : (Claimed(p)' <=> Claimed(p)) /\ (Claimed(p) => pos'[p] = pos[p])
  PROVE  readable' = readable
BY DEF readable

\* Nobody attaches or leaves unless `active` changes or a registration ends.
LEMMA AttachedSame ==
  ASSUME \A c \in Consumers : /\ Attached(c)' <=> Attached(c)
                              /\ Attached(c) => cid'[c] = cid[c] /\ active'[cid[c]] = active[cid[c]]
  PROVE  attached' = attached
BY DEF attached

\* Steps of a consumer change no producer's claim.
LEMMA ConsumerReadable ==
  ASSUME TypeOK, NEW c \in Consumers, ConsumerStep(c)
  PROVE  readable' = readable /\ log' = log
<1>1. /\ head' = head /\ log' = log
      /\ \A p \in Producers : pc'[p] = pc[p] /\ pos'[p] = pos[p]
  BY ConsumerFrame DEF Scanners
<1> QED
  BY <1>1, ReadableSame DEF Claimed

\* Steps of a push or a refresh change nobody's membership.
LEMMA ScannerAttached ==
  ASSUME TypeOK, NEW t \in Scanners, ScannerStep(t)
  PROVE  attached' = attached /\ got' = got
BY ScannerFrame, AttachedSame DEF Attached

\* The end of a registration is a Join, before anything is logged.
LEMMA ActivateJoins ==
  ASSUME LateJoiners = {}, IInv, NEW c \in Consumers, RegisterActivate(c)
  PROVE  Broadcast!Join(c)
<1>1. TypeOK /\ ConsumerStep(c)
  BY DEF IInv, ConsumerStep, RegisterStep
<1>2. /\ pc[c] = "reg_active" /\ pc' = [pc EXCEPT ![c] = "idle"] /\ UNCHANGED <<cid, got>>
      /\ active' = [active EXCEPT ![cid[c]] = TRUE]
  BY DEF RegisterActivate, Goto, locals, history
<1>3. log = <<>>
  <2>1. head = 0
    BY <1>2, Quiet DEF IInv, Registering
  <2> QED
    BY <2>1 DEF IInv, Writing, TypeOK
<1>4. cid \in [Consumers -> Ids] /\ active \in [Ids -> BOOLEAN] /\ pc \in [Threads -> Pcs]
      /\ c \in Threads /\ Consumers \subseteq Threads
  BY DEF IInv, TypeOK, Threads
<1>5. Attached(c)' /\ active'[cid'[c]]
  BY <1>2, <1>4 DEF Attached
<1>6. ASSUME NEW d \in Consumers \ {c}
      PROVE  (Attached(d) /\ active[cid[d]])' <=> (Attached(d) /\ active[cid[d]])
  <2>1. Attached(d)' <=> Attached(d)
    BY <1>2, <1>4 DEF Attached
  <2>2. Attached(d) => cid[d] # cid[c]
    BY <1>2 DEF IInv, EntriesOwned, Enrolled
  <2> QED
    BY <1>2, <1>4, <2>1, <2>2
<1>7. attached' = attached \cup {c}
  BY <1>5, <1>6 DEF attached
<1> QED
  BY <1>1, <1>2, <1>3, <1>7, ConsumerReadable DEF Broadcast!Join

\* unregister_consumer is a Leave.
LEMMA UnregisterLeaves ==
  ASSUME IInv, NEW c \in Consumers, Unregister(c)
  PROVE  Broadcast!Leave(c)
<1>1. TypeOK /\ ConsumerStep(c)
  BY DEF IInv, ConsumerStep
<1>2. /\ pc[c] = "idle" /\ UNCHANGED <<pc, cid, got>>
      /\ active' = [active EXCEPT ![cid[c]] = FALSE]
  BY DEF Unregister, locals, history
<1>3. cid \in [Consumers -> Ids] /\ active \in [Ids -> BOOLEAN]
  BY DEF IInv, TypeOK
<1>4. ~ active'[cid'[c]]
  BY <1>2, <1>3
<1>5. ASSUME NEW d \in Consumers \ {c}
      PROVE  (Attached(d) /\ active[cid[d]])' <=> (Attached(d) /\ active[cid[d]])
  <2>1. Attached(d)' <=> Attached(d)
    BY <1>2 DEF Attached
  <2>2. Attached(d) => cid[d] # cid[c]
    BY <1>2 DEF IInv, EntriesOwned, Enrolled, Attached
  <2> QED
    BY <1>2, <1>3, <2>1, <2>2
<1>6. attached' = attached \ {c}
  BY <1>4, <1>5 DEF attached
<1> QED
  BY <1>1, <1>2, <1>6, ConsumerReadable DEF Broadcast!Leave

\* The copy of a pop is a Deliver: the position is readable and the slot holds
\* the entry of that position.
LEMMA CopyDelivers ==
  ASSUME IInv, NEW c \in Consumers, PopCopy(c)
  PROVE  Broadcast!Deliver(c)
<1> DEFINE k == tail[cid[c]]
<1>1. TypeOK /\ ConsumerStep(c)
  BY DEF IInv, ConsumerStep, PopStep
<1>2. /\ pc[c] = "pop_copy" /\ pc' = [pc EXCEPT ![c] = "pop_adv"]
      /\ UNCHANGED <<cid, active>>
      /\ got' = [got EXCEPT ![c] = Append(got[c], data[Slot(k)])]
  BY DEF PopCopy, Goto, locals, shared
<1>3. pc \in [Threads -> Pcs] /\ c \in Threads /\ Consumers \subseteq Threads
      /\ cid[c] \in Ids /\ k \in Nat /\ head \in Nat
  BY DEF IInv, TypeOK, Threads
<1>4. Attached(c) /\ active[cid[c]] /\ SlotReady(c)
  BY <1>2 DEF IInv, EntriesOwned, Reading, Attached
<1>5. Len(got[c]) = k
  BY <1>2, <1>3, <1>4 DEF IInv, Reading
<1>6. k < head
  <2>1. SafeBound(k + 1)
    BY <1>4, ReadyTail DEF IInv
  <2> QED
    BY <1>3, <2>1 DEF SafeBound
<1>7. ~ \E p \in Producers : Claimed(p) /\ pos[p] = k
  BY <1>4 DEF IInv, ClaimsOwned, SlotReady
<1>8. k + 1 \in readable
  BY <1>3, <1>6, <1>7 DEF readable, IInv, TypeOK
<1>9. data[Slot(k)] = log[k + 1]
  <2>1. k \in k .. head - 1
    BY <1>3, <1>6
  <2> QED
    BY <1>4, <1>7, <2>1 DEF IInv, RingHoldsUnread
<1>10. c \in attached
  BY <1>4 DEF attached
<1>11. attached' = attached
  <2>1. \A d \in Consumers : Attached(d)' <=> Attached(d)
    BY <1>2, <1>3 DEF Attached
  <2> QED
    BY <1>2, <2>1, AttachedSame
<1> QED
  BY <1>1, <1>2, <1>5, <1>8, <1>9, <1>10, <1>11, ConsumerReadable DEF Broadcast!Deliver

\* The other steps of a consumer are invisible.
LEMMA ConsumerStutters ==
  ASSUME IInv, NEW c \in Consumers,
         \/ RegisterTakeId(c) \/ RegisterLoadHead(c) \/ RegisterStoreTail(c)
         \/ PopCheck(c) \/ PopAdvance(c)
  PROVE  Stutter
<1>1. TypeOK /\ ConsumerStep(c)
  BY DEF IInv, ConsumerStep, RegisterStep, PopStep
<1>2. pc \in [Threads -> Pcs] /\ c \in Threads /\ Consumers \subseteq Threads
      /\ cid \in [Consumers -> Ids]
  BY DEF IInv, TypeOK, Threads
<1>3. got' = got /\ active' = active
  BY DEF RegisterTakeId, RegisterLoadHead, RegisterStoreTail, PopCheck, PopAdvance, shared, history
<1>4. Attached(c)' <=> Attached(c)
  BY <1>2 DEF RegisterTakeId, RegisterLoadHead, RegisterStoreTail, PopCheck, PopAdvance, Goto, Attached
<1>5. Attached(c) => cid'[c] = cid[c]
  BY <1>2 DEF RegisterTakeId, RegisterLoadHead, RegisterStoreTail, PopCheck, PopAdvance, Goto, Attached,
              shared, locals
<1>6. \A d \in Consumers \ {c} : (Attached(d)' <=> Attached(d)) /\ cid'[d] = cid[d]
  BY <1>1, ConsumerFrame DEF Attached
<1>7. attached' = attached
  BY <1>3, <1>4, <1>5, <1>6, AttachedSame
<1> QED
  BY <1>1, <1>3, <1>7, ConsumerReadable DEF Stutter

-----------------------------------------------------------------------------
\* The compare-exchange is a Claim: every member leaves room for it.
LEMMA CasClaims ==
  ASSUME IInv, NEW p \in Producers, PushCas(p)
  PROVE  Item(p) \in Items /\ Broadcast!Claim(Item(p))
<1>1. TypeOK /\ p \in Scanners /\ ScannerStep(p)
  BY DEF IInv, ScannerStep, Scanners
<1>2. /\ pos[p] = head /\ pc[p] = "cas" /\ pc'[p] = "copy"
      /\ head' = head + 1 /\ log' = Append(log, Item(p)) /\ pos' = pos
      /\ \A u \in Threads \ {p} : pc'[u] = pc[u]
  BY <1>1, PushCasEffect
<1>3. Item(p) \in Items
  BY <1>1, <1>2, ItemType
<1>4. ASSUME NEW c \in attached
      PROVE  Len(log) < Len(got[c]) + SIZE
  <2>1. c \in Consumers /\ Attached(c) /\ active[cid[c]]
    BY DEF attached
  <2>2. cid[c] \in Ids /\ tail[cid[c]] \in Nat /\ head \in Nat /\ lmin[p] \in Nat /\ SIZE \in Nat
        /\ Len(log) = head
    BY <2>1, QueueAssumption DEF IInv, TypeOK, Writing
  <2>3. head < lmin[p] + SIZE /\ lmin[p] <= tail[cid[c]]
    BY <1>2, <2>1, <2>2 DEF IInv, CasSafe, BelowActive
  <2>4. Len(got[c]) = tail[cid[c]] \/ Len(got[c]) = tail[cid[c]] + 1
    BY <2>1, <2>2 DEF IInv, Reading
  <2> QED
    BY <2>2, <2>3, <2>4
<1>5. readable' = readable
  <2>1. /\ head \in Nat /\ Producers \subseteq Threads
    BY DEF IInv, TypeOK, Threads
  <2>2. Claimed(p)' /\ ~Claimed(p)
    BY <1>2 DEF Claimed
  <2>3. \A q \in Producers \ {p} : Claimed(q)' <=> Claimed(q)
    BY <1>2, <2>1 DEF Claimed
  <2>4. ASSUME NEW n \in 1 .. head
        PROVE  (\E q \in Producers : Claimed(q)' /\ pos'[q] = n - 1) <=>
               (\E q \in Producers : Claimed(q) /\ pos[q] = n - 1)
    BY <1>2, <2>1, <2>2, <2>3
  <2>5. \A n \in 1 .. head + 1 : n \in 1 .. head \/ n = head + 1
    BY <2>1
  <2>6. 1 .. head \subseteq 1 .. head + 1
    BY <2>1
  <2>7. \E q \in Producers : Claimed(q)' /\ pos'[q] = (head + 1) - 1
    BY <1>2, <2>1, <2>2
  <2> QED
    BY <1>2, <2>4, <2>5, <2>6, <2>7 DEF readable
<1> QED
  BY <1>1, <1>2, <1>3, <1>4, <1>5, ScannerAttached DEF Broadcast!Claim

\* The release store of a slot's sequence is a Publish.
LEMMA StorePublishes ==
  ASSUME IInv, NEW p \in Producers, PushPublish(p)
  PROVE  \E n \in 1 .. Len(log) : Broadcast!Publish(n)
<1>1. TypeOK /\ p \in Scanners /\ ScannerStep(p)
  BY DEF IInv, ScannerStep, Scanners
<1>2. /\ pc[p] = "publish" /\ pc'[p] = "idle" /\ UNCHANGED <<head, log>>
      /\ \A u \in Threads \ {p} : pc'[u] = pc[u]
      /\ \A u \in Producers \ {p} : pos'[u] = pos[u]
  BY <1>1, PushPublishEffect
<1>3. Claimed(p) /\ ~Claimed(p)' /\ pos[p] \in Nat /\ head \in Nat /\ Len(log) = head
      /\ pos[p] < head /\ Producers \subseteq Threads
      /\ \A q \in Producers : pos[q] \in Nat
  BY <1>2 DEF Claimed, IInv, TypeOK, Writing, ClaimsOwned, Threads
<1>4. \A q \in Producers \ {p} : /\ Claimed(q)' <=> Claimed(q)
                                 /\ Claimed(q) => pos[q] # pos[p]
  BY <1>2, <1>3 DEF Claimed, IInv, ClaimsOwned
<1> DEFINE n == pos[p] + 1
<1>5. n \in 1 .. Len(log) /\ n \notin readable /\ n - 1 = pos[p]
  BY <1>3 DEF readable
<1>6. ASSUME NEW m \in 1 .. head
      PROVE  m \in readable' <=> m \in readable \/ m = n
  <2>4. m \in readable' <=> ~ \E q \in Producers : Claimed(q)' /\ pos'[q] = m - 1
    BY <1>2 DEF readable
  <2>1. m \in readable' <=> ~ \E q \in Producers \ {p} : Claimed(q) /\ pos[q] = m - 1
    BY <1>2, <1>3, <1>4, <2>4 DEF Claimed
  <2>2. m \in readable <=> ~ \E q \in Producers : Claimed(q) /\ pos[q] = m - 1
    BY DEF readable
  <2>3. m - 1 = pos[p] <=> m = n
    BY <1>3
  <2>5. CASE m = n
    <3>0. m - 1 = pos[p]
      BY <2>3, <2>5
    <3>1. \A q \in Producers \ {p} : Claimed(q) => pos[q] # m - 1
      BY <1>4, <3>0, Zenon
    <3> QED
      BY <2>1, <2>5, <3>1
  <2>6. CASE m # n
    <3>1. pos[p] # m - 1
      BY <2>3, <2>6
    <3> QED
      BY <2>1, <2>2, <2>6, <3>1
  <2> QED
    BY <2>5, <2>6
<1>7. readable' \subseteq 1 .. head /\ readable \subseteq 1 .. head /\ n \in 1 .. head
  BY <1>2, <1>3, <1>5 DEF readable
<1>8. readable' = readable \cup {n}
  BY <1>6, <1>7
<1> QED
  BY <1>1, <1>2, <1>5, <1>8, ScannerAttached DEF Broadcast!Publish

\* The copy into a slot, and all steps that claim nothing, are invisible.
LEMMA ScannerStutters ==
  ASSUME IInv, NEW t \in Scanners, ClaimlessStep(t) \/ (t \in Producers /\ PushCopy(t))
  PROVE  Stutter
<1>1. TypeOK /\ ScannerStep(t)
  BY DEF IInv, ScannerStep
<1>2. CASE ClaimlessStep(t)
  <2>1. log' = log /\ readable' = readable
    BY <1>1, <1>2, ClaimlessFrame, ReadableSame
  <2> QED
    BY <1>1, <2>1, ScannerAttached DEF Stutter
<1>3. CASE t \in Producers /\ PushCopy(t)
  <2>1. /\ UNCHANGED <<head, log, pos>>
        /\ \A p \in Producers : Claimed(p)' <=> Claimed(p)
    BY <1>1, <1>3, PushCopyEffect DEF Claimed, Threads
  <2> QED
    BY <1>1, <2>1, ReadableSame, ScannerAttached DEF Stutter
<1> QED
  BY <1>2, <1>3

-----------------------------------------------------------------------------
\* An empty ring is an empty log.
LEMMA RefinementInit == Init => Broadcast!BInit
<1> SUFFICES ASSUME Init PROVE Broadcast!BInit
  OBVIOUS
<1>1. readable = {}
  BY DEF Init, readable
<1>2. attached = {}
  BY Roles DEF Init, attached, Attached, Threads
<1> QED
  BY <1>1, <1>2 DEF Init, Broadcast!BInit

\* Every step is a step of the log, or none.
LEMMA RefinementStep ==
  ASSUME LateJoiners = {}, IInv, [Next]_vars
  PROVE  [Broadcast!BNext]_<<log, readable, got, attached>>
<1>1. CASE UNCHANGED vars
  <2>1. readable' = readable /\ attached' = attached
    BY <1>1, ReadableSame, AttachedSame DEF vars, Claimed, Attached
  <2> QED
    BY <1>1, <2>1 DEF vars
<1>2. ASSUME NEW c \in Consumers, ConsumerStep(c)
      PROVE  Broadcast!BNext \/ Stutter
  BY <1>2, ActivateJoins, UnregisterLeaves, CopyDelivers, ConsumerStutters
  DEF ConsumerStep, RegisterStep, PopStep, Broadcast!BNext
<1>3. ASSUME NEW t \in Scanners, ScannerStep(t)
      PROVE  Broadcast!BNext \/ Stutter
  BY <1>3, CasClaims, StorePublishes, ScannerStutters DEF ScannerStep, Broadcast!BNext
<1> QED
  BY <1>1, <1>2, <1>3, StepKinds DEF Stutter

\* MPMCQueue is the bounded broadcast log (mpmc_queue.hpp:181-247): claims wait
\* for room, every member is handed the log in order from its start, and
\* nothing is handed out before it is published.
THEOREM Refinement ==
  ASSUME LateJoiners = {}
  PROVE  Spec => ImplementsBroadcast
<1>1. IInv /\ [Next]_vars => [Broadcast!BNext]_<<log, readable, got, attached>>
  BY RefinementStep
<1>2. Spec => []IInv
  BY Invariance
<1> QED
  BY RefinementInit, <1>1, <1>2, PTL DEF Spec, ImplementsBroadcast, Broadcast!BSpec, Broadcast!bvars

-----------------------------------------------------------------------------
(***************************************************************************)
(* What the log is good for: its promises to readers, from it alone.       *)
(***************************************************************************)
\* Every reader has a part of the log from its start, and members are at most
\* SIZE entries behind.
ReadersInOrder ==
  /\ log \in Seq(Items) /\ readable \subseteq 1 .. Len(log)
  /\ got \in [Consumers -> Seq(Items)]
  /\ \A c \in Consumers :
       /\ Len(got[c]) <= Len(log)
       /\ \A n \in 1 .. Len(got[c]) : got[c][n] = log[n]
  /\ \A c \in attached \cap Consumers : Len(log) <= Len(got[c]) + SIZE

\* The steps of the log keep it so.
LEMMA LogKeepsOrder ==
  ASSUME ReadersInOrder, [Broadcast!BNext]_<<log, readable, got, attached>>
  PROVE  ReadersInOrder'
<1> USE QueueAssumption
<1>1. ASSUME NEW c \in Consumers, Broadcast!Join(c) \/ Broadcast!Leave(c)
      PROVE  ReadersInOrder'
  <2>1. /\ UNCHANGED <<log, readable, got>>
        /\ attached' \subseteq attached \/ log = <<>>
    BY <1>1 DEF Broadcast!Join, Broadcast!Leave
  <2>2. \A d \in Consumers : Len(got[d]) \in Nat
    BY DEF ReadersInOrder
  <2>3. \A d \in attached' \cap Consumers : Len(log) <= Len(got[d]) + SIZE
    BY <2>1, <2>2 DEF ReadersInOrder
  <2> QED
    BY <2>1, <2>3 DEF ReadersInOrder
<1>2. ASSUME NEW e \in Items, Broadcast!Claim(e)
      PROVE  ReadersInOrder'
  <2>1. /\ log' = Append(log, e) /\ UNCHANGED <<readable, got, attached>>
        /\ \A c \in attached : Len(log) < Len(got[c]) + SIZE
    BY <1>2 DEF Broadcast!Claim
  <2>2. /\ log' \in Seq(Items) /\ Len(log') = Len(log) + 1 /\ Len(log) \in Nat
        /\ \A n \in 1 .. Len(log) : log'[n] = log[n]
    BY <2>1 DEF ReadersInOrder
  <2>3. ASSUME NEW c \in Consumers
        PROVE  /\ Len(got[c]) <= Len(log')
               /\ \A n \in 1 .. Len(got[c]) : got[c][n] = log'[n]
               /\ c \in attached => Len(log') <= Len(got[c]) + SIZE
    <3>1. Len(got[c]) \in Nat /\ Len(got[c]) <= Len(log)
      BY DEF ReadersInOrder
    <3>2. \A n \in 1 .. Len(got[c]) : n \in 1 .. Len(log) /\ got[c][n] = log[n]
      BY <2>2, <3>1 DEF ReadersInOrder
    <3> QED
      BY <2>1, <2>2, <3>1, <3>2
  <2>4. readable' \subseteq 1 .. Len(log')
    BY <2>1, <2>2 DEF ReadersInOrder
  <2> QED
    BY <2>1, <2>2, <2>3, <2>4 DEF ReadersInOrder
<1>3. ASSUME NEW n \in 1 .. Len(log), Broadcast!Publish(n)
      PROVE  ReadersInOrder'
  BY <1>3 DEF Broadcast!Publish, ReadersInOrder
<1>4. ASSUME NEW c \in Consumers, Broadcast!Deliver(c)
      PROVE  ReadersInOrder'
  <2> DEFINE m == Len(got[c]) + 1
  <2>1. /\ UNCHANGED <<log, readable, attached>> /\ m \in readable
        /\ got' = [got EXCEPT ![c] = Append(got[c], log[m])]
    BY <1>4 DEF Broadcast!Deliver
  <2>2. /\ got[c] \in Seq(Items) /\ Len(got[c]) \in Nat /\ Len(log) \in Nat
        /\ m \in 1 .. Len(log) /\ log[m] \in Items
    BY <2>1 DEF ReadersInOrder
  <2>3. /\ got' \in [Consumers -> Seq(Items)] /\ Len(got'[c]) = m /\ got'[c][m] = log[m]
        /\ \A n \in 1 .. Len(got[c]) : got'[c][n] = got[c][n]
        /\ \A d \in Consumers \ {c} : got'[d] = got[d]
    BY <2>1, <2>2 DEF ReadersInOrder
  <2>4. ASSUME NEW n \in 1 .. m
        PROVE  got'[c][n] = log[n]
    <3>1. n = m \/ n \in 1 .. Len(got[c])
      BY <2>2
    <3> QED
      BY <2>3, <3>1 DEF ReadersInOrder
  <2>5. ASSUME NEW d \in Consumers
        PROVE  /\ Len(got'[d]) <= Len(log)
               /\ \A n \in 1 .. Len(got'[d]) : got'[d][n] = log[n]
               /\ d \in attached => Len(log) <= Len(got'[d]) + SIZE
    <3>1. CASE d = c
      <4>1. Len(got[c]) < m
        BY <2>2
      <4>2. c \in attached => Len(log) <= Len(got[c]) + SIZE
        BY DEF ReadersInOrder
      <4> HIDE DEF m
      <4>3. m \in Nat /\ m <= Len(log)
        BY <2>2
      <4> QED
        BY <2>2, <2>3, <2>4, <3>1, <4>1, <4>2, <4>3
    <3>2. CASE d # c
      BY <2>3, <3>2 DEF ReadersInOrder
    <3> QED
      BY <3>1, <3>2
  <2> HIDE DEF m
  <2> QED
    BY <2>1, <2>3, <2>5 DEF ReadersInOrder
<1>5. CASE UNCHANGED <<log, readable, got, attached>>
  BY <1>5 DEF ReadersInOrder
<1> QED
  BY <1>1, <1>2, <1>3, <1>4, <1>5 DEF Broadcast!BNext

\* BroadcastQueue promises enough: that every consumer is handed the claimed
\* positions in order follows from it alone, without slots or tails (pop,
\* mpmc_queue.hpp:226-247), and so for all that is built on it.
THEOREM BroadcastDelivers == ImplementsBroadcast => []DeliveredInOrder
<1>1. Broadcast!BInit => ReadersInOrder
  <2> SUFFICES ASSUME Broadcast!BInit PROVE ReadersInOrder
    OBVIOUS
  <2> QED
    BY DEF Broadcast!BInit, ReadersInOrder
<1>2. ReadersInOrder /\ [Broadcast!BNext]_<<log, readable, got, attached>> => ReadersInOrder'
  BY LogKeepsOrder
<1>3. ReadersInOrder => DeliveredInOrder
  BY DEF ReadersInOrder, DeliveredInOrder
<1> QED
  BY <1>1, <1>2, <1>3, PTL DEF ImplementsBroadcast, Broadcast!BSpec, Broadcast!bvars
================================================================================
