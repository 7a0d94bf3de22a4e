---------------------------- MODULE ShmQueueProofs ----------------------------
(***************************************************************************)
(* Proofs about ShmQueue: type correctness for every use of the segments,  *)
(* and, for one creator, that the name denotes its segment, that the entry *)
(* of a registered consumer is its own, and what the queue promises on a   *)
(* segment used and joined in time: no race, delivery, a safe minimum.     *)
(*                                                                         *)
(* The invariant has four layers, each on top of the one before: Typed     *)
(* (types, and which process may be at which step with what), Held (the    *)
(* creator's hold on the name, and that it constructs a fresh segment),    *)
(* Entries (ids and what is stored under them) and Ring (positions).       *)
(***************************************************************************)
EXTENDS ShmQueue, TLAPS

\* Which steps belong to whom, and what a process at them has.
OwnsStep(p) ==
  /\ pc[p] \in {"open", "truncate", "new_members", "new_body", "new_slots", "unlink"}
       => p \in Creators
  /\ pc[p] = "attach" => p \notin Creators
  /\ pc[p] \notin {"idle", "open", "attach", "unlink"} => seg(p) \in 1 .. made
  /\ pc[p] \in {"reg_tail", "pop_copy", "pop_advance", "push_min", "push_recheck",
                "push_cas", "push_copy", "push_publish"} => loc[p].pos \in Nat
  /\ pc[p] \in {"push_recheck", "refresh_store"} => loc[p].mini \in Nat
  /\ pc[p] = "scan_tail" => loc[p].i \in Ids
  /\ pc[p] \in {"reg_head", "reg_tail", "reg_active", "pop_copy", "pop_advance"}
       => p \in Poppers /\ loc[p].id \in Ids

StepsOwned == \A p \in Procs : OwnsStep(p)

\* A step of p changes the variables of no other process.
OthersStay(p) ==
  \A q \in Procs \ {p} : pc'[q] = pc[q] /\ loc'[q] = loc[q] /\ got'[q] = got[q]

Typed == ShmTypeOK /\ StepsOwned

\* A process without a segment has locals of their types.
LEMMA NoLocalsType == NoLocals \in Locals
BY ShmAssumption DEF NoLocals, Locals

\* So is a zero-filled segment.
LEMMA ZeroedType == Zeroed \in Memory
BY ShmAssumption DEF Zeroed, Memory, Ids, Slots

\* What Forget resets and what it keeps.
LEMMA ForgetType ==
  ASSUME loc \in [Procs -> Locals], NEW p \in Procs, NEW n \in Nat \cup {NONE}
  PROVE  /\ Forget(p, n) \in [Procs -> Locals]
         /\ Forget(p, n)[p].seg = loc[p].seg
         /\ Forget(p, n)[p].pos = n
         /\ Forget(p, n)[p].id = loc[p].id
         /\ Forget(p, n)[p].start = loc[p].start
         /\ Forget(p, n)[p].mini = NONE
         /\ Forget(p, n)[p].i = 0
         /\ \A q \in Procs \ {p} : Forget(p, n)[q] = loc[q]
BY DEF Locals, Forget

\* Detaching, throwing and dying.
LEMMA LeaveType ==
  ASSUME ShmTypeOK, NEW p \in Procs, Leave(p)
  PROVE  /\ pc' \in [Procs -> Pcs] /\ loc' \in [Procs -> Locals]
         /\ got' \in [Procs -> Seq(Nat)]
         /\ pc'[p] = "idle" /\ loc'[p] = NoLocals /\ got'[p] = <<>>
         /\ OthersStay(p)
         /\ OwnsStep(p)'
<1>1. <<>> \in Seq(Nat) /\ "idle" \in Pcs
  BY DEF Pcs
<1>2. /\ pc' \in [Procs -> Pcs] /\ loc' \in [Procs -> Locals]
      /\ got' \in [Procs -> Seq(Nat)]
  BY <1>1, NoLocalsType DEF Leave, ShmTypeOK
<1>3. pc'[p] = "idle" /\ loc'[p] = NoLocals /\ got'[p] = <<>> /\ OthersStay(p)
  BY DEF Leave, ShmTypeOK, OthersStay
<1> QED BY <1>2, <1>3 DEF OwnsStep

\* Storing a counter of the segment.
LEMMA CounterStored ==
  ASSUME ShmTypeOK, NEW s \in Segments, NEW v \in Nat
  PROVE  /\ [mem EXCEPT ![s].head = v] \in [Segments -> Memory]
         /\ [mem EXCEPT ![s].min_tail = v] \in [Segments -> Memory]
         /\ [mem EXCEPT ![s].num_consumers = v] \in [Segments -> Memory]
<1>1. [mem EXCEPT ![s].head = v] \in [Segments -> Memory]
  BY DEF ShmTypeOK, Memory
<1>2. [mem EXCEPT ![s].min_tail = v] \in [Segments -> Memory]
  BY DEF ShmTypeOK, Memory
<1>3. [mem EXCEPT ![s].num_consumers = v] \in [Segments -> Memory]
  BY DEF ShmTypeOK, Memory
<1> QED
  BY <1>1, <1>2, <1>3

\* Storing a consumer's tail.
LEMMA TailTyped ==
  ASSUME ShmTypeOK, NEW s \in Segments, NEW i \in Ids, NEW v \in Nat
  PROVE  /\ [mem EXCEPT ![s].tail[i] = v] \in [Segments -> Memory]
BY DEF ShmTypeOK, Memory

\* Storing a consumer's active flag.
LEMMA ActiveTyped ==
  ASSUME ShmTypeOK, NEW s \in Segments, NEW i \in Ids, NEW v \in BOOLEAN
  PROVE  /\ [mem EXCEPT ![s].active[i] = v] \in [Segments -> Memory]
BY DEF ShmTypeOK, Memory

\* Storing a slot's sequence or entry.
LEMMA SlotStored ==
  ASSUME ShmTypeOK, NEW s \in Segments, NEW i \in Slots, NEW v \in Nat
  PROVE  /\ [mem EXCEPT ![s].sequence[i] = v] \in [Segments -> Memory]
         /\ [mem EXCEPT ![s].data[i] = v] \in [Segments -> Memory]
<1>1. [mem EXCEPT ![s].sequence[i] = v] \in [Segments -> Memory]
  BY DEF ShmTypeOK, Memory
<1>2. [mem EXCEPT ![s].data[i] = v] \in [Segments -> Memory]
  BY DEF ShmTypeOK, Memory
<1> QED
  BY <1>1, <1>2

\* ftruncate, and the loop over the slots.
LEMMA SizeOrSlotsSet ==
  ASSUME ShmTypeOK, NEW s \in Segments
  PROVE  /\ [mem EXCEPT ![s].sequence = [k \in Slots |-> NONE]] \in [Segments -> Memory]
         /\ [mem EXCEPT ![s].sized = TRUE] \in [Segments -> Memory]
<1>1. [mem EXCEPT ![s].sequence = [k \in Slots |-> NONE]] \in [Segments -> Memory]
  BY DEF ShmTypeOK, Memory
<1>2. [mem EXCEPT ![s].sized = TRUE] \in [Segments -> Memory]
  BY DEF ShmTypeOK, Memory
<1> QED
  BY <1>1, <1>2

\* The constructor's body.
LEMMA BodyStored ==
  ASSUME ShmTypeOK, NEW s \in Segments
  PROVE  [mem EXCEPT ![s].num_consumers = 0, ![s].min_tail = 0,
                     ![s].tail = Zeroed.tail,
                       ![s].active = Zeroed.active] \in [Segments -> Memory]
<1> DEFINE T == Zeroed.tail
           A == Zeroed.active
           r == [mem[s] EXCEPT !.num_consumers = 0, !.min_tail = 0, !.tail = T, !.active = A]
<1>1. T \in [Ids -> Nat] /\ A \in [Ids -> BOOLEAN]
  BY DEF Zeroed
<1> HIDE DEF T, A
<1>2. mem[s] \in Memory /\ mem \in [Segments -> Memory]
  BY DEF ShmTypeOK
<1>3. r \in Memory
  BY <1>1, <1>2 DEF Memory
<1>4. [mem EXCEPT ![s].num_consumers = 0, ![s].min_tail = 0, ![s].tail = T, ![s].active = A]
        = [mem EXCEPT ![s] = r]
  BY <1>2
<1>5. [mem EXCEPT ![s] = r] \in [Segments -> Memory]
  <2> HIDE DEF r
  <2> QED BY <1>2, <1>3
<1> QED
  BY <1>4, <1>5 DEF T, A

\* A step from one pc to the next.
LEMMA GotoType ==
  ASSUME ShmTypeOK, NEW p \in Procs, NEW from \in Pcs, NEW to \in Pcs, Goto(p, from, to)
  PROVE  /\ pc' \in [Procs -> Pcs] /\ pc[p] = from /\ pc'[p] = to
         /\ \A q \in Procs \ {p} : pc'[q] = pc[q]
BY DEF Goto, ShmTypeOK

\* The values of pc, one by one.
LEMMA PcNames ==
  {"idle", "open", "truncate", "attach", "map", "new_members", "new_body",
   "new_slots", "run", "unlink", "reg_head", "reg_tail", "reg_active", "pop_copy",
   "pop_advance", "push_head", "push_min", "scan", "scan_tail", "push_recheck",
   "refresh_store", "push_cas", "push_copy", "push_publish"} \subseteq Pcs
BY DEF Pcs

\* What a process with a segment reads there.
LEMMA Own ==
  ASSUME ShmTypeOK, NEW p \in Procs, OwnsStep(p),
         pc[p] \notin {"idle", "open", "attach", "unlink"}
  PROVE  /\ seg(p) \in 1 .. made /\ seg(p) \in Segments /\ seg(p) # 0
         /\ mem[seg(p)] \in Memory
         /\ mem[seg(p)].head \in Nat /\ mem[seg(p)].min_tail \in Nat
         /\ mem[seg(p)].num_consumers \in Nat
         /\ mem[seg(p)].tail \in [Ids -> Nat] /\ mem[seg(p)].active \in [Ids -> BOOLEAN]
         /\ mem[seg(p)].data \in [Slots -> Nat]
<1>1. seg(p) \in 1 .. made /\ seg(p) \in Segments /\ seg(p) # 0
  BY ShmAssumption DEF ShmTypeOK, OwnsStep, Segments
<1>2. mem[seg(p)] \in Memory
  BY <1>1 DEF ShmTypeOK
<1> QED
  BY <1>1, <1>2 DEF Memory

\* The types of the locals.
LEMMA LocFields ==
  ASSUME ShmTypeOK, NEW p \in Procs
  PROVE  /\ loc \in [Procs -> Locals]
         /\ loc[p].seg \in 0 .. MaxSegments /\ loc[p].pos \in Nat \cup {NONE}
         /\ loc[p].min \in Nat /\ loc[p].i \in Nat /\ loc[p].mini \in Nat \cup {NONE}
         /\ loc[p].id \in Ids \cup {NONE} /\ loc[p].start \in Nat
BY DEF ShmTypeOK, Locals

\* A position has a slot.
LEMMA SlotOf ==
  ASSUME NEW n \in Nat
  PROVE  n % SIZE \in Slots
BY ShmAssumption DEF Slots

\* Assigning one local, or two.
LEMMA SetSeg ==
  ASSUME loc \in [Procs -> Locals], NEW p \in Procs, NEW s \in 0 .. MaxSegments,
         loc' = [loc EXCEPT ![p].seg = s]
  PROVE  /\ loc' \in [Procs -> Locals]
         /\ loc'[p] = [loc[p] EXCEPT !.seg = s]
         /\ \A q \in Procs \ {p} : loc'[q] = loc[q]
         /\ loc'[p].seg = s /\ loc'[p].pos = loc[p].pos /\ loc'[p].min = loc[p].min
         /\ loc'[p].i = loc[p].i /\ loc'[p].mini = loc[p].mini
         /\ loc'[p].id = loc[p].id /\ loc'[p].start = loc[p].start
BY DEF Locals

\* Setting one local of a process leaves its others.
LEMMA SetPos ==
  ASSUME loc \in [Procs -> Locals], NEW p \in Procs, NEW n \in Nat,
         loc' = [loc EXCEPT ![p].pos = n]
  PROVE  /\ loc' \in [Procs -> Locals]
         /\ loc'[p] = [loc[p] EXCEPT !.pos = n]
         /\ \A q \in Procs \ {p} : loc'[q] = loc[q]
         /\ loc'[p].pos = n /\ loc'[p].seg = loc[p].seg /\ loc'[p].min = loc[p].min
         /\ loc'[p].i = loc[p].i /\ loc'[p].mini = loc[p].mini
         /\ loc'[p].id = loc[p].id /\ loc'[p].start = loc[p].start
BY DEF Locals

\* The same for start.
LEMMA SetStart ==
  ASSUME loc \in [Procs -> Locals], NEW p \in Procs, NEW n \in Nat,
         loc' = [loc EXCEPT ![p].pos = n, ![p].start = n]
  PROVE  /\ loc' \in [Procs -> Locals]
         /\ loc'[p] = [loc[p] EXCEPT !.pos = n, !.start = n]
         /\ \A q \in Procs \ {p} : loc'[q] = loc[q]
         /\ loc'[p].pos = n /\ loc'[p].start = n /\ loc'[p].seg = loc[p].seg
         /\ loc'[p].min = loc[p].min /\ loc'[p].i = loc[p].i
         /\ loc'[p].mini = loc[p].mini /\ loc'[p].id = loc[p].id
BY DEF Locals

\* The same for id.
LEMMA SetId ==
  ASSUME loc \in [Procs -> Locals], NEW p \in Procs, NEW k \in Ids,
         loc' = [loc EXCEPT ![p].id = k]
  PROVE  /\ loc' \in [Procs -> Locals]
         /\ loc'[p] = [loc[p] EXCEPT !.id = k]
         /\ \A q \in Procs \ {p} : loc'[q] = loc[q]
         /\ loc'[p].id = k /\ loc'[p].seg = loc[p].seg /\ loc'[p].pos = loc[p].pos
         /\ loc'[p].min = loc[p].min /\ loc'[p].i = loc[p].i
         /\ loc'[p].mini = loc[p].mini /\ loc'[p].start = loc[p].start
BY DEF Locals

\* The same for min.
LEMMA SetMin ==
  ASSUME loc \in [Procs -> Locals], NEW p \in Procs, NEW n \in Nat,
         loc' = [loc EXCEPT ![p].min = n]
  PROVE  /\ loc' \in [Procs -> Locals]
         /\ loc'[p] = [loc[p] EXCEPT !.min = n]
         /\ \A q \in Procs \ {p} : loc'[q] = loc[q]
         /\ loc'[p].min = n /\ loc'[p].seg = loc[p].seg /\ loc'[p].pos = loc[p].pos
         /\ loc'[p].i = loc[p].i /\ loc'[p].mini = loc[p].mini
         /\ loc'[p].id = loc[p].id /\ loc'[p].start = loc[p].start
BY DEF Locals

\* The same for i.
LEMMA SetI ==
  ASSUME loc \in [Procs -> Locals], NEW p \in Procs, NEW n \in Nat,
         loc' = [loc EXCEPT ![p].i = n]
  PROVE  /\ loc' \in [Procs -> Locals]
         /\ loc'[p] = [loc[p] EXCEPT !.i = n]
         /\ \A q \in Procs \ {p} : loc'[q] = loc[q]
         /\ loc'[p].i = n /\ loc'[p].seg = loc[p].seg /\ loc'[p].pos = loc[p].pos
         /\ loc'[p].min = loc[p].min /\ loc'[p].mini = loc[p].mini
         /\ loc'[p].id = loc[p].id /\ loc'[p].start = loc[p].start
BY DEF Locals

\* The same for mini.
LEMMA SetMini ==
  ASSUME loc \in [Procs -> Locals], NEW p \in Procs, NEW n \in Nat,
         loc' = [loc EXCEPT ![p].mini = n]
  PROVE  /\ loc' \in [Procs -> Locals]
         /\ loc'[p] = [loc[p] EXCEPT !.mini = n]
         /\ \A q \in Procs \ {p} : loc'[q] = loc[q]
         /\ loc'[p].mini = n /\ loc'[p].seg = loc[p].seg /\ loc'[p].pos = loc[p].pos
         /\ loc'[p].min = loc[p].min /\ loc'[p].i = loc[p].i
         /\ loc'[p].id = loc[p].id /\ loc'[p].start = loc[p].start
BY DEF Locals

\* The same for the locals of a scan.
LEMMA SetScan ==
  ASSUME loc \in [Procs -> Locals], NEW p \in Procs, NEW n \in Nat, NEW m \in Nat,
         loc' = [loc EXCEPT ![p].mini = m, ![p].i = n]
  PROVE  /\ loc' \in [Procs -> Locals]
         /\ loc'[p] = [loc[p] EXCEPT !.mini = m, !.i = n]
         /\ \A q \in Procs \ {p} : loc'[q] = loc[q]
         /\ loc'[p].mini = m /\ loc'[p].i = n /\ loc'[p].seg = loc[p].seg
         /\ loc'[p].pos = loc[p].pos /\ loc'[p].min = loc[p].min
         /\ loc'[p].id = loc[p].id /\ loc'[p].start = loc[p].start
BY DEF Locals

\* The steps of Construct keep the types and who owns which step.
LEMMA ConstructTyped ==
  ASSUME Typed, NEW p \in Procs, Construct(p)
  PROVE  ShmTypeOK' /\ made <= made' /\ OthersStay(p) /\ OwnsStep(p)'
<1>0. ShmTypeOK /\ OwnsStep(p)
  BY DEF Typed, StepsOwned
<1>1. CASE Create(p)
  <2>1. /\ pc' \in [Procs -> Pcs] /\ pc'[p] = "open"
        /\ \A q \in Procs \ {p} : pc'[q] = pc[q]
    BY <1>0, <1>1, PcNames DEF Create, Goto, ShmTypeOK
  <2>2. loc' = loc
    BY <1>1 DEF Create
  <2>3. mem' = mem
    BY <1>1 DEF Create
  <2>4. got' = got
    BY <1>1 DEF Create
  <2>5. /\ name' \in 0 .. made' /\ made' \in 0 .. MaxSegments /\ made <= made'
        /\ lives' \in 0 .. MaxLives
        /\ built' \subseteq Segments /\ misused' \subseteq Segments
    BY <1>0, <1>1, ShmAssumption DEF Create, ShmTypeOK, UnlinkOld
  <2>6. OwnsStep(p)'
    BY <1>0, <1>1, <2>1, <2>2, <2>5, LocFields DEF Create, OwnsStep, seg
  <2> QED
    BY <1>0, <2>1, <2>2, <2>3, <2>4, <2>5, <2>6 DEF ShmTypeOK, OthersStay
<1>2. CASE OpenNew(p)
  <2>1. name' \in 1 .. made' /\ made' \in made .. MaxSegments
        /\ name' \in 0 .. MaxSegments /\ p \in Creators
    BY <1>0, <1>2, ShmAssumption DEF OpenNew, OwnsStep, Goto, ShmTypeOK
  <2>2. /\ pc' \in [Procs -> Pcs] /\ pc'[p] = "truncate"
        /\ \A q \in Procs \ {p} : pc'[q] = pc[q]
    BY <1>0, <1>2, PcNames DEF OpenNew, Goto, ShmTypeOK
  <2>3. loc' = [loc EXCEPT ![p].seg = name']
    BY <1>2 DEF OpenNew
  <2>4. /\ loc' \in [Procs -> Locals] /\ loc'[p].seg = name'
        /\ \A q \in Procs \ {p} : loc'[q] = loc[q]
    BY <1>0, <2>3, <2>1, LocFields, SetSeg
  <2>5. mem' = mem
    BY <1>2 DEF OpenNew
  <2>6. got' = got
    BY <1>2 DEF OpenNew
  <2>7. /\ name' \in 0 .. made' /\ made' \in 0 .. MaxSegments /\ made <= made'
        /\ lives' \in 0 .. MaxLives
        /\ built' \subseteq Segments /\ misused' \subseteq Segments
    BY <1>0, <1>2, <2>1, ShmAssumption DEF OpenNew, ShmTypeOK
  <2>8. OwnsStep(p)'
    BY <2>1, <2>2, <2>4 DEF OwnsStep, seg
  <2> QED
    BY <1>0, <2>2, <2>4, <2>5, <2>6, <2>7, <2>8 DEF ShmTypeOK, OthersStay
<1>3. CASE Truncate(p)
  <2>1. pc[p] = "truncate"
    BY <1>3 DEF Truncate, Goto
  <2>2. /\ seg(p) \in 1 .. made /\ seg(p) \in Segments /\ mem[seg(p)] \in Memory
        /\ mem[seg(p)].head \in Nat /\ mem[seg(p)].tail \in [Ids -> Nat]
        /\ mem[seg(p)].data \in [Slots -> Nat]
    BY <1>0, <2>1, Own
  <2>3. /\ pc' \in [Procs -> Pcs] /\ pc'[p] = "map"
        /\ \A q \in Procs \ {p} : pc'[q] = pc[q]
    BY <1>0, <1>3, PcNames DEF Truncate, Goto, ShmTypeOK
  <2>4. loc' = loc
    BY <1>3 DEF Truncate
  <2>5. mem' \in [Segments -> Memory]
    BY <1>0, <1>3, <2>1, <2>2, SizeOrSlotsSet DEF Truncate
  <2>6. got' = got
    BY <1>3 DEF Truncate
  <2>7. /\ name' \in 0 .. made' /\ made' \in 0 .. MaxSegments /\ made <= made'
        /\ lives' \in 0 .. MaxLives
        /\ built' \subseteq Segments /\ misused' \subseteq Segments
    BY <1>0, <1>3, <2>1, <2>2, ShmAssumption DEF Truncate, ShmTypeOK
  <2>8. OwnsStep(p)'
    BY <1>0, <1>3, <2>1, <2>2, <2>3, <2>4, <2>7, LocFields DEF Truncate, OwnsStep, seg
  <2> QED
    BY <1>0, <2>3, <2>4, <2>5, <2>6, <2>7, <2>8 DEF ShmTypeOK, OthersStay
<1>4. CASE Attach(p)
  <2>1. /\ pc' \in [Procs -> Pcs] /\ pc'[p] = "attach"
        /\ \A q \in Procs \ {p} : pc'[q] = pc[q]
    BY <1>0, <1>4, PcNames DEF Attach, Goto, ShmTypeOK
  <2>2. loc' = loc
    BY <1>4 DEF Attach
  <2>3. mem' = mem
    BY <1>4 DEF Attach
  <2>4. got' = got
    BY <1>4 DEF Attach
  <2>5. /\ name' \in 0 .. made' /\ made' \in 0 .. MaxSegments /\ made <= made'
        /\ lives' \in 0 .. MaxLives
        /\ built' \subseteq Segments /\ misused' \subseteq Segments
    BY <1>0, <1>4, ShmAssumption DEF Attach, ShmTypeOK
  <2>6. OwnsStep(p)'
    BY <1>0, <1>4, <2>1, <2>2, <2>5, LocFields DEF Attach, OwnsStep, seg
  <2> QED
    BY <1>0, <2>1, <2>2, <2>3, <2>4, <2>5, <2>6 DEF ShmTypeOK, OthersStay
<1>5. CASE OpenOld(p)
  <2>1. name \in 1 .. made /\ name \in 0 .. MaxSegments
    BY <1>0, <1>5, ShmAssumption DEF OpenOld, OwnsStep, Goto, ShmTypeOK
  <2>2. /\ pc' \in [Procs -> Pcs] /\ pc'[p] = "map"
        /\ \A q \in Procs \ {p} : pc'[q] = pc[q]
    BY <1>0, <1>5, PcNames DEF OpenOld, Goto, ShmTypeOK
  <2>3. loc' = [loc EXCEPT ![p].seg = name]
    BY <1>5 DEF OpenOld
  <2>4. /\ loc' \in [Procs -> Locals] /\ loc'[p].seg = name
        /\ \A q \in Procs \ {p} : loc'[q] = loc[q]
    BY <1>0, <2>3, <2>1, LocFields, SetSeg
  <2>5. mem' = mem
    BY <1>5 DEF OpenOld
  <2>6. got' = got
    BY <1>5 DEF OpenOld
  <2>7. /\ name' \in 0 .. made' /\ made' \in 0 .. MaxSegments /\ made <= made'
        /\ lives' \in 0 .. MaxLives
        /\ built' \subseteq Segments /\ misused' \subseteq Segments
    BY <1>0, <1>5, <2>1, ShmAssumption DEF OpenOld, ShmTypeOK
  <2>8. OwnsStep(p)'
    BY <1>0, <1>5, <2>1, <2>2, <2>4, <2>7, LocFields DEF OpenOld, OwnsStep, seg
  <2> QED
    BY <1>0, <2>2, <2>4, <2>5, <2>6, <2>7, <2>8 DEF ShmTypeOK, OthersStay
<1>6. CASE AttachFails(p)
  <2>1. Leave(p)
    BY <1>6 DEF AttachFails
  <2>2. mem' = mem
    BY <1>6 DEF AttachFails
  <2>3. /\ name' \in 0 .. made' /\ made' \in 0 .. MaxSegments /\ made <= made'
        /\ lives' \in 0 .. MaxLives
        /\ built' \subseteq Segments /\ misused' \subseteq Segments
    BY <1>0, <1>6, ShmAssumption DEF AttachFails, ShmTypeOK
  <2> QED
    BY <1>0, <2>1, <2>2, <2>3, LeaveType DEF ShmTypeOK
<1>7. CASE MapSegment(p)
  <2>1. pc[p] = "map"
    BY <1>7 DEF MapSegment, Goto
  <2>2. /\ seg(p) \in 1 .. made /\ seg(p) \in Segments /\ mem[seg(p)] \in Memory
        /\ mem[seg(p)].head \in Nat /\ mem[seg(p)].tail \in [Ids -> Nat]
        /\ mem[seg(p)].data \in [Slots -> Nat]
    BY <1>0, <2>1, Own
  <2>3. /\ pc' \in [Procs -> Pcs]
        /\ pc'[p] = IF p \in Creators THEN "new_members" ELSE "run"
        /\ \A q \in Procs \ {p} : pc'[q] = pc[q]
    BY <1>0, <1>7, PcNames DEF MapSegment, Goto, ShmTypeOK
  <2>4. loc' = loc
    BY <1>7 DEF MapSegment
  <2>5. mem' = mem
    BY <1>7 DEF MapSegment
  <2>6. got' = got
    BY <1>7 DEF MapSegment
  <2>7. /\ name' \in 0 .. made' /\ made' \in 0 .. MaxSegments /\ made <= made'
        /\ lives' \in 0 .. MaxLives
        /\ built' \subseteq Segments /\ misused' \subseteq Segments
    BY <1>0, <1>7, <2>1, <2>2, ShmAssumption DEF MapSegment, ShmTypeOK
  <2>8. OwnsStep(p)'
    BY <1>0, <1>7, <2>1, <2>2, <2>3, <2>4, <2>7, LocFields DEF MapSegment, OwnsStep, seg
  <2> QED
    BY <1>0, <2>3, <2>4, <2>5, <2>6, <2>7, <2>8 DEF ShmTypeOK, OthersStay
<1>8. CASE SystemCallFails(p)
  <2>1. Leave(p)
    BY <1>8 DEF SystemCallFails
  <2>2. mem' = mem
    BY <1>8 DEF SystemCallFails
  <2>3. /\ name' \in 0 .. made' /\ made' \in 0 .. MaxSegments /\ made <= made'
        /\ lives' \in 0 .. MaxLives
        /\ built' \subseteq Segments /\ misused' \subseteq Segments
    BY <1>0, <1>8, ShmAssumption DEF SystemCallFails, ShmTypeOK
  <2> QED
    BY <1>0, <2>1, <2>2, <2>3, LeaveType DEF ShmTypeOK
<1>9. CASE NewMembers(p)
  <2>1. pc[p] = "new_members"
    BY <1>9 DEF NewMembers, Goto
  <2>2. /\ seg(p) \in 1 .. made /\ seg(p) \in Segments /\ mem[seg(p)] \in Memory
        /\ mem[seg(p)].head \in Nat /\ mem[seg(p)].tail \in [Ids -> Nat]
        /\ mem[seg(p)].data \in [Slots -> Nat]
    BY <1>0, <2>1, Own
  <2>3. /\ pc' \in [Procs -> Pcs] /\ pc'[p] = "new_body"
        /\ \A q \in Procs \ {p} : pc'[q] = pc[q]
    BY <1>0, <1>9, PcNames DEF NewMembers, Goto, ShmTypeOK
  <2>4. loc' = loc
    BY <1>9 DEF NewMembers
  <2>5. mem' \in [Segments -> Memory]
    BY <1>0, <1>9, <2>1, <2>2, ZeroedType DEF NewMembers, M, Memory, ShmTypeOK
  <2>6. got' = got
    BY <1>9 DEF NewMembers
  <2>7. /\ name' \in 0 .. made' /\ made' \in 0 .. MaxSegments /\ made <= made'
        /\ lives' \in 0 .. MaxLives
        /\ built' \subseteq Segments /\ misused' \subseteq Segments
    BY <1>0, <1>9, <2>1, <2>2, ShmAssumption DEF NewMembers, ShmTypeOK
  <2>8. OwnsStep(p)'
    BY <1>0, <1>9, <2>1, <2>2, <2>3, <2>4, <2>7, LocFields DEF NewMembers, OwnsStep, seg
  <2> QED
    BY <1>0, <2>3, <2>4, <2>5, <2>6, <2>7, <2>8 DEF ShmTypeOK, OthersStay
<1>10. CASE NewBody(p)
  <2>1. pc[p] = "new_body"
    BY <1>10 DEF NewBody, Goto
  <2>2. /\ seg(p) \in 1 .. made /\ seg(p) \in Segments /\ mem[seg(p)] \in Memory
        /\ mem[seg(p)].head \in Nat /\ mem[seg(p)].tail \in [Ids -> Nat]
        /\ mem[seg(p)].data \in [Slots -> Nat]
    BY <1>0, <2>1, Own
  <2>3. /\ pc' \in [Procs -> Pcs] /\ pc'[p] = "new_slots"
        /\ \A q \in Procs \ {p} : pc'[q] = pc[q]
    BY <1>0, <1>10, PcNames DEF NewBody, Goto, ShmTypeOK
  <2>4. loc' = loc
    BY <1>10 DEF NewBody
  <2>5. mem' \in [Segments -> Memory]
    BY <1>0, <1>10, <2>1, <2>2, BodyStored DEF NewBody
  <2>6. got' = got
    BY <1>10 DEF NewBody
  <2>7. /\ name' \in 0 .. made' /\ made' \in 0 .. MaxSegments /\ made <= made'
        /\ lives' \in 0 .. MaxLives
        /\ built' \subseteq Segments /\ misused' \subseteq Segments
    BY <1>0, <1>10, <2>1, <2>2, ShmAssumption DEF NewBody, ShmTypeOK
  <2>8. OwnsStep(p)'
    BY <1>0, <1>10, <2>1, <2>2, <2>3, <2>4, <2>7, LocFields DEF NewBody, OwnsStep, seg
  <2> QED
    BY <1>0, <2>3, <2>4, <2>5, <2>6, <2>7, <2>8 DEF ShmTypeOK, OthersStay
<1>11. CASE NewSlots(p)
  <2>1. pc[p] = "new_slots"
    BY <1>11 DEF NewSlots, Goto
  <2>2. /\ seg(p) \in 1 .. made /\ seg(p) \in Segments /\ mem[seg(p)] \in Memory
        /\ mem[seg(p)].head \in Nat /\ mem[seg(p)].tail \in [Ids -> Nat]
        /\ mem[seg(p)].data \in [Slots -> Nat]
    BY <1>0, <2>1, Own
  <2>3. /\ pc' \in [Procs -> Pcs] /\ pc'[p] = "run"
        /\ \A q \in Procs \ {p} : pc'[q] = pc[q]
    BY <1>0, <1>11, PcNames DEF NewSlots, Goto, ShmTypeOK
  <2>4. loc' = loc
    BY <1>11 DEF NewSlots
  <2>5. mem' \in [Segments -> Memory]
    BY <1>0, <1>11, <2>1, <2>2, SizeOrSlotsSet DEF NewSlots, Fresh
  <2>6. got' = got
    BY <1>11 DEF NewSlots
  <2>7. /\ name' \in 0 .. made' /\ made' \in 0 .. MaxSegments /\ made <= made'
        /\ lives' \in 0 .. MaxLives
        /\ built' \subseteq Segments /\ misused' \subseteq Segments
    BY <1>0, <1>11, <2>1, <2>2, ShmAssumption DEF NewSlots, ShmTypeOK
  <2>8. OwnsStep(p)'
    BY <1>0, <1>11, <2>1, <2>2, <2>3, <2>4, <2>7, LocFields DEF NewSlots, OwnsStep, seg
  <2> QED
    BY <1>0, <2>3, <2>4, <2>5, <2>6, <2>7, <2>8 DEF ShmTypeOK, OthersStay
<1> QED
  BY <1>1, <1>2, <1>3, <1>4, <1>5, <1>6, <1>7, <1>8, <1>9, <1>10, <1>11 DEF Construct

\* The steps of Destruct keep the types and who owns which step.
LEMMA DestructTyped ==
  ASSUME Typed, NEW p \in Procs, Destruct(p)
  PROVE  ShmTypeOK' /\ made <= made' /\ OthersStay(p) /\ OwnsStep(p)'
<1>0. ShmTypeOK /\ OwnsStep(p)
  BY DEF Typed, StepsOwned
<1>1. CASE Unmap(p)
  <2>1. CASE Unlinks(p)
    <3>1. /\ pc' = [pc EXCEPT ![p] = "unlink"] /\ loc' = [loc EXCEPT ![p] = NoLocals]
          /\ got' = [got EXCEPT ![p] = <<>>] /\ p \in Creators
      BY <1>1, <2>1 DEF Unmap, Unlinks
    <3>2. UNCHANGED <<name, made, mem, lives, built, misused>>
      BY <1>1 DEF Unmap
    <3>3. <<>> \in Seq(Nat)
      OBVIOUS
    <3>4. /\ pc' \in [Procs -> Pcs] /\ loc' \in [Procs -> Locals]
          /\ got' \in [Procs -> Seq(Nat)]
      BY <1>0, <3>1, <3>3, PcNames, NoLocalsType DEF ShmTypeOK
    <3>5. pc'[p] = "unlink" /\ OthersStay(p)
      BY <1>0, <3>1 DEF ShmTypeOK, OthersStay
    <3> QED
      BY <1>0, <3>1, <3>2, <3>4, <3>5 DEF ShmTypeOK, OwnsStep
  <2>2. CASE ~Unlinks(p)
    <3>1. Leave(p) /\ UNCHANGED <<name, made, mem, lives, built, misused>>
      BY <1>1, <2>2 DEF Unmap
    <3> QED
      BY <1>0, <3>1, LeaveType DEF ShmTypeOK
  <2> QED
    BY <2>1, <2>2
<1>2. CASE UnlinkName(p)
  <2>1. /\ pc' \in [Procs -> Pcs] /\ pc'[p] = "idle"
        /\ \A q \in Procs \ {p} : pc'[q] = pc[q]
    BY <1>0, <1>2, PcNames DEF UnlinkName, Goto, ShmTypeOK
  <2>2. loc' = loc
    BY <1>2 DEF UnlinkName
  <2>3. mem' = mem
    BY <1>2 DEF UnlinkName
  <2>4. got' = got
    BY <1>2 DEF UnlinkName
  <2>5. /\ name' \in 0 .. made' /\ made' \in 0 .. MaxSegments /\ made <= made'
        /\ lives' \in 0 .. MaxLives
        /\ built' \subseteq Segments /\ misused' \subseteq Segments
    BY <1>0, <1>2, ShmAssumption DEF UnlinkName, ShmTypeOK
  <2>6. OwnsStep(p)'
    BY <1>0, <1>2, <2>1, <2>2, <2>5, LocFields DEF UnlinkName, OwnsStep, seg
  <2> QED
    BY <1>0, <2>1, <2>2, <2>3, <2>4, <2>5, <2>6 DEF ShmTypeOK, OthersStay
<1>3. CASE Crash(p)
  <2>1. Leave(p)
    BY <1>3 DEF Crash
  <2>2. mem' = mem
    BY <1>3 DEF Crash
  <2>3. /\ name' \in 0 .. made' /\ made' \in 0 .. MaxSegments /\ made <= made'
        /\ lives' \in 0 .. MaxLives
        /\ built' \subseteq Segments /\ misused' \subseteq Segments
    BY <1>0, <1>3, ShmAssumption DEF Crash, ShmTypeOK
  <2> QED
    BY <1>0, <2>1, <2>2, <2>3, LeaveType DEF ShmTypeOK
<1>4. CASE Sigbus(p)
  <2>1. Leave(p)
    BY <1>4 DEF Sigbus
  <2>2. mem' = mem
    BY <1>4 DEF Sigbus
  <2>3. /\ name' \in 0 .. made' /\ made' \in 0 .. MaxSegments /\ made <= made'
        /\ lives' \in 0 .. MaxLives
        /\ built' \subseteq Segments /\ misused' \subseteq Segments
    BY <1>0, <1>4, ShmAssumption DEF Sigbus, ShmTypeOK
  <2> QED
    BY <1>0, <2>1, <2>2, <2>3, LeaveType DEF ShmTypeOK
<1> QED
  BY <1>1, <1>2, <1>3, <1>4 DEF Destruct

\* The steps of Consume keep the types and who owns which step.
LEMMA ConsumeTyped ==
  ASSUME Typed, NEW p \in Procs, Consume(p)
  PROVE  ShmTypeOK' /\ made <= made' /\ OthersStay(p) /\ OwnsStep(p)'
<1>0. ShmTypeOK /\ OwnsStep(p)
  BY DEF Typed, StepsOwned
<1>1. CASE RegTakeId(p)
  <2>0. pc[p] = "run" /\ p \in Poppers
    BY <1>1 DEF RegTakeId
  <2>1. seg(p) \in 1 .. made /\ seg(p) \in Segments /\ mem[seg(p)].num_consumers \in Nat
    BY <1>0, <2>0, Own
  <2>2. mem' \in [Segments -> Memory]
    <3>1. mem' = [mem EXCEPT ![seg(p)].num_consumers = mem[seg(p)].num_consumers + 1]
      BY <1>1 DEF RegTakeId
    <3>2. mem[seg(p)].num_consumers + 1 \in Nat
      BY <2>1
    <3> QED
      BY <1>0, <2>1, <3>1, <3>2, CounterStored
  <2>3. misused' \subseteq Segments /\ UNCHANGED <<name, made, lives, built>>
    BY <1>0, <1>1, <2>1 DEF RegTakeId, Touch, ShmTypeOK
  <2>4. CASE IdsLeft(M(p).num_consumers)
    <3>1. M(p).num_consumers \in Ids
      BY <2>1, <2>4, ShmAssumption DEF M, IdsLeft, Ids
    <3>2. /\ pc' = [pc EXCEPT ![p] = "reg_head"] /\ got' = got
          /\ loc' = [loc EXCEPT ![p].id = M(p).num_consumers]
      BY <1>1, <2>4 DEF RegTakeId
    <3>3. /\ loc' \in [Procs -> Locals] /\ loc'[p].id \in Ids
          /\ loc'[p].seg = loc[p].seg
          /\ \A q \in Procs \ {p} : loc'[q] = loc[q]
      BY <1>0, <3>1, <3>2, LocFields, SetId
    <3>4. /\ pc' \in [Procs -> Pcs] /\ pc'[p] = "reg_head"
          /\ \A q \in Procs \ {p} : pc'[q] = pc[q]
      BY <1>0, <3>2, PcNames DEF ShmTypeOK
    <3>5. OwnsStep(p)'
      BY <2>0, <2>1, <2>3, <3>3, <3>4 DEF OwnsStep, seg
    <3> QED
      BY <1>0, <2>2, <2>3, <3>2, <3>3, <3>4, <3>5 DEF ShmTypeOK, OthersStay
  <2>5. CASE ~IdsLeft(M(p).num_consumers)
    <3>1. Leave(p)
      BY <1>1, <2>5 DEF RegTakeId
    <3> QED
      BY <1>0, <2>2, <2>3, <3>1, LeaveType DEF ShmTypeOK
  <2> QED
    BY <2>4, <2>5
<1>2. CASE RegHead(p)
  <2>1. pc[p] = "reg_head"
    BY <1>2 DEF RegHead, Goto
  <2>2. /\ seg(p) \in 1 .. made /\ seg(p) \in Segments /\ mem[seg(p)] \in Memory
        /\ mem[seg(p)].head \in Nat /\ mem[seg(p)].tail \in [Ids -> Nat]
        /\ mem[seg(p)].data \in [Slots -> Nat]
    BY <1>0, <2>1, Own
  <2>3. M(p).head \in Nat
    BY <1>0, <1>2, <2>1, <2>2, ShmAssumption DEF RegHead, OwnsStep, Goto, M
  <2>4. /\ pc' \in [Procs -> Pcs] /\ pc'[p] = "reg_tail"
        /\ \A q \in Procs \ {p} : pc'[q] = pc[q]
    BY <1>0, <1>2, PcNames DEF RegHead, Goto, ShmTypeOK
  <2>5. loc' = [loc EXCEPT ![p].pos = M(p).head, ![p].start = M(p).head]
    BY <1>2 DEF RegHead
  <2>6. /\ loc' \in [Procs -> Locals] /\ loc'[p].pos = M(p).head
        /\ loc'[p].seg = loc[p].seg /\ loc'[p].id = loc[p].id
        /\ \A q \in Procs \ {p} : loc'[q] = loc[q]
    BY <1>0, <2>5, <2>3, LocFields, SetStart
  <2>7. mem' = mem
    BY <1>2 DEF RegHead
  <2>8. got' = got
    BY <1>2 DEF RegHead
  <2>9. /\ name' \in 0 .. made' /\ made' \in 0 .. MaxSegments /\ made <= made'
        /\ lives' \in 0 .. MaxLives
        /\ built' \subseteq Segments /\ misused' \subseteq Segments
    BY <1>0, <1>2, <2>1, <2>2, <2>3, ShmAssumption DEF RegHead, ShmTypeOK
  <2>10. OwnsStep(p)'
    BY <1>0, <1>2, <2>1, <2>2, <2>3, <2>4, <2>6, <2>9, LocFields
    DEF RegHead, OwnsStep, seg
  <2> QED
    BY <1>0, <2>4, <2>6, <2>7, <2>8, <2>9, <2>10 DEF ShmTypeOK, OthersStay
<1>3. CASE RegTail(p)
  <2>1. pc[p] = "reg_tail"
    BY <1>3 DEF RegTail, Goto
  <2>2. /\ seg(p) \in 1 .. made /\ seg(p) \in Segments /\ mem[seg(p)] \in Memory
        /\ mem[seg(p)].head \in Nat /\ mem[seg(p)].tail \in [Ids -> Nat]
        /\ mem[seg(p)].data \in [Slots -> Nat]
    BY <1>0, <2>1, Own
  <2>3. /\ pc' \in [Procs -> Pcs] /\ pc'[p] = "reg_active"
        /\ \A q \in Procs \ {p} : pc'[q] = pc[q]
    BY <1>0, <1>3, PcNames DEF RegTail, Goto, ShmTypeOK
  <2>4. loc' = Forget(p, 0) /\ 0 \in Nat \cup {NONE}
    BY <1>3 DEF RegTail
  <2>5. /\ loc' \in [Procs -> Locals] /\ loc'[p].seg = loc[p].seg
        /\ loc'[p].id = loc[p].id
        /\ \A q \in Procs \ {p} : loc'[q] = loc[q]
    BY <1>0, <2>4, LocFields, ForgetType
  <2>6. loc[p].id \in Ids /\ loc[p].pos \in Nat
    BY <1>0, <1>3, <2>1, <2>2, LocFields, SlotOf DEF RegTail, OwnsStep
  <2>7. mem' = [mem EXCEPT ![seg(p)].tail[loc[p].id] = loc[p].pos]
    BY <1>3 DEF RegTail
  <2>8. mem' \in [Segments -> Memory]
    BY <1>0, <2>1, <2>2, <2>6, <2>7, TailTyped
  <2>9. got' = got
    BY <1>3 DEF RegTail
  <2>10. /\ name' \in 0 .. made' /\ made' \in 0 .. MaxSegments /\ made <= made'
        /\ lives' \in 0 .. MaxLives
        /\ built' \subseteq Segments /\ misused' \subseteq Segments
    BY <1>0, <1>3, <2>1, <2>2, ShmAssumption DEF RegTail, ShmTypeOK
  <2>11. OwnsStep(p)'
    BY <1>0, <1>3, <2>1, <2>2, <2>3, <2>5, <2>10, LocFields DEF RegTail, OwnsStep, seg
  <2> QED
    BY <1>0, <2>3, <2>5, <2>8, <2>9, <2>10, <2>11 DEF ShmTypeOK, OthersStay
<1>4. CASE RegActivate(p)
  <2>1. pc[p] = "reg_active"
    BY <1>4 DEF RegActivate, Goto
  <2>2. /\ seg(p) \in 1 .. made /\ seg(p) \in Segments /\ mem[seg(p)] \in Memory
        /\ mem[seg(p)].head \in Nat /\ mem[seg(p)].tail \in [Ids -> Nat]
        /\ mem[seg(p)].data \in [Slots -> Nat]
    BY <1>0, <2>1, Own
  <2>3. /\ pc' \in [Procs -> Pcs] /\ pc'[p] = "run"
        /\ \A q \in Procs \ {p} : pc'[q] = pc[q]
    BY <1>0, <1>4, PcNames DEF RegActivate, Goto, ShmTypeOK
  <2>4. loc' = loc
    BY <1>4 DEF RegActivate
  <2>5. loc[p].id \in Ids
    BY <1>0, <1>4, <2>1, <2>2, LocFields, SlotOf DEF RegActivate, OwnsStep
  <2>6. mem' = [mem EXCEPT ![seg(p)].active[loc[p].id] = TRUE]
    BY <1>4 DEF RegActivate
  <2>7. mem' \in [Segments -> Memory]
    BY <1>0, <2>1, <2>2, <2>5, <2>6, ActiveTyped
  <2>8. got' = got
    BY <1>4 DEF RegActivate
  <2>9. /\ name' \in 0 .. made' /\ made' \in 0 .. MaxSegments /\ made <= made'
        /\ lives' \in 0 .. MaxLives
        /\ built' \subseteq Segments /\ misused' \subseteq Segments
    BY <1>0, <1>4, <2>1, <2>2, ShmAssumption DEF RegActivate, ShmTypeOK
  <2>10. OwnsStep(p)'
    BY <1>0, <1>4, <2>1, <2>2, <2>3, <2>4, <2>9, LocFields
    DEF RegActivate, OwnsStep, seg
  <2> QED
    BY <1>0, <2>3, <2>4, <2>7, <2>8, <2>9, <2>10 DEF ShmTypeOK, OthersStay
<1>5. CASE PopLoad(p)
  <2>1. pc[p] = "run"
    BY <1>5 DEF PopLoad, Goto
  <2>2. /\ seg(p) \in 1 .. made /\ seg(p) \in Segments /\ mem[seg(p)] \in Memory
        /\ mem[seg(p)].head \in Nat /\ mem[seg(p)].tail \in [Ids -> Nat]
        /\ mem[seg(p)].data \in [Slots -> Nat]
    BY <1>0, <2>1, Own
  <2>3. p \in Poppers /\ loc[p].id \in Ids /\ M(p).tail[loc[p].id] \in Nat
    BY <1>0, <1>5, <2>1, <2>2, LocFields, ShmAssumption DEF PopLoad, OwnsStep, Goto, M
  <2>4. /\ pc' \in [Procs -> Pcs] /\ pc'[p] = "pop_copy"
        /\ \A q \in Procs \ {p} : pc'[q] = pc[q]
    BY <1>0, <1>5, PcNames DEF PopLoad, Goto, ShmTypeOK
  <2>5. loc' = [loc EXCEPT ![p].pos = M(p).tail[loc[p].id]]
    BY <1>5 DEF PopLoad
  <2>6. /\ loc' \in [Procs -> Locals] /\ loc'[p].pos = M(p).tail[loc[p].id]
        /\ loc'[p].seg = loc[p].seg /\ loc'[p].id = loc[p].id
        /\ \A q \in Procs \ {p} : loc'[q] = loc[q]
    BY <1>0, <2>5, <2>3, LocFields, SetPos
  <2>7. mem' = mem
    BY <1>5 DEF PopLoad
  <2>8. got' = got
    BY <1>5 DEF PopLoad
  <2>9. /\ name' \in 0 .. made' /\ made' \in 0 .. MaxSegments /\ made <= made'
        /\ lives' \in 0 .. MaxLives
        /\ built' \subseteq Segments /\ misused' \subseteq Segments
    BY <1>0, <1>5, <2>1, <2>2, <2>3, ShmAssumption DEF PopLoad, ShmTypeOK
  <2>10. OwnsStep(p)'
    BY <1>0, <1>5, <2>1, <2>2, <2>3, <2>4, <2>6, <2>9, LocFields
    DEF PopLoad, OwnsStep, seg
  <2> QED
    BY <1>0, <2>4, <2>6, <2>7, <2>8, <2>9, <2>10 DEF ShmTypeOK, OthersStay
<1>6. CASE PopCopy(p)
  <2>1. pc[p] = "pop_copy"
    BY <1>6 DEF PopCopy, Goto
  <2>2. /\ seg(p) \in 1 .. made /\ seg(p) \in Segments /\ mem[seg(p)] \in Memory
        /\ mem[seg(p)].head \in Nat /\ mem[seg(p)].tail \in [Ids -> Nat]
        /\ mem[seg(p)].data \in [Slots -> Nat]
    BY <1>0, <2>1, Own
  <2>3. M(p).data[loc[p].pos % SIZE] \in Nat
    BY <1>0, <1>6, <2>1, <2>2, SlotOf, ShmAssumption DEF PopCopy, OwnsStep, Goto, M
  <2>4. /\ pc' \in [Procs -> Pcs] /\ pc'[p] = "pop_advance"
        /\ \A q \in Procs \ {p} : pc'[q] = pc[q]
    BY <1>0, <1>6, PcNames DEF PopCopy, Goto, ShmTypeOK
  <2>5. loc' = loc
    BY <1>6 DEF PopCopy
  <2>6. mem' = mem
    BY <1>6 DEF PopCopy
  <2>7. got' = [got EXCEPT ![p] = Append(got[p], M(p).data[loc[p].pos % SIZE])]
    BY <1>6 DEF PopCopy
  <2>8. got' \in [Procs -> Seq(Nat)] /\ \A q \in Procs \ {p} : got'[q] = got[q]
    BY <1>0, <2>7, <2>3 DEF ShmTypeOK
  <2>9. /\ name' \in 0 .. made' /\ made' \in 0 .. MaxSegments /\ made <= made'
        /\ lives' \in 0 .. MaxLives
        /\ built' \subseteq Segments /\ misused' \subseteq Segments
    BY <1>0, <1>6, <2>1, <2>2, <2>3, ShmAssumption DEF PopCopy, ShmTypeOK
  <2>10. OwnsStep(p)'
    BY <1>0, <1>6, <2>1, <2>2, <2>3, <2>4, <2>5, <2>9, LocFields
    DEF PopCopy, OwnsStep, seg
  <2> QED
    BY <1>0, <2>4, <2>5, <2>6, <2>8, <2>9, <2>10 DEF ShmTypeOK, OthersStay
<1>7. CASE PopAdvance(p)
  <2>1. pc[p] = "pop_advance"
    BY <1>7 DEF PopAdvance, Goto
  <2>2. /\ seg(p) \in 1 .. made /\ seg(p) \in Segments /\ mem[seg(p)] \in Memory
        /\ mem[seg(p)].head \in Nat /\ mem[seg(p)].tail \in [Ids -> Nat]
        /\ mem[seg(p)].data \in [Slots -> Nat]
    BY <1>0, <2>1, Own
  <2>3. /\ pc' \in [Procs -> Pcs] /\ pc'[p] = "run"
        /\ \A q \in Procs \ {p} : pc'[q] = pc[q]
    BY <1>0, <1>7, PcNames DEF PopAdvance, Goto, ShmTypeOK
  <2>4. loc' = Forget(p, 0) /\ 0 \in Nat \cup {NONE}
    BY <1>7 DEF PopAdvance
  <2>5. /\ loc' \in [Procs -> Locals] /\ loc'[p].seg = loc[p].seg
        /\ loc'[p].id = loc[p].id
        /\ \A q \in Procs \ {p} : loc'[q] = loc[q]
    BY <1>0, <2>4, LocFields, ForgetType
  <2>6. loc[p].id \in Ids /\ loc[p].pos + 1 \in Nat
    BY <1>0, <1>7, <2>1, <2>2, LocFields, SlotOf DEF PopAdvance, OwnsStep
  <2>7. mem' = [mem EXCEPT ![seg(p)].tail[loc[p].id] = loc[p].pos + 1]
    BY <1>7 DEF PopAdvance
  <2>8. mem' \in [Segments -> Memory]
    BY <1>0, <2>1, <2>2, <2>6, <2>7, TailTyped
  <2>9. got' = got
    BY <1>7 DEF PopAdvance
  <2>10. /\ name' \in 0 .. made' /\ made' \in 0 .. MaxSegments /\ made <= made'
        /\ lives' \in 0 .. MaxLives
        /\ built' \subseteq Segments /\ misused' \subseteq Segments
    BY <1>0, <1>7, <2>1, <2>2, ShmAssumption DEF PopAdvance, ShmTypeOK
  <2>11. OwnsStep(p)'
    BY <1>0, <1>7, <2>1, <2>2, <2>3, <2>5, <2>10, LocFields
    DEF PopAdvance, OwnsStep, seg
  <2> QED
    BY <1>0, <2>3, <2>5, <2>8, <2>9, <2>10, <2>11 DEF ShmTypeOK, OthersStay
<1>8. CASE DelConsumer(p)
  <2>1. pc[p] = "run"
    BY <1>8 DEF DelConsumer, Goto
  <2>2. /\ seg(p) \in 1 .. made /\ seg(p) \in Segments /\ mem[seg(p)] \in Memory
        /\ mem[seg(p)].head \in Nat /\ mem[seg(p)].tail \in [Ids -> Nat]
        /\ mem[seg(p)].data \in [Slots -> Nat]
    BY <1>0, <2>1, Own
  <2>3. Leave(p)
    BY <1>8 DEF DelConsumer
  <2>4. loc[p].id \in Ids
    BY <1>0, <1>8, <2>1, <2>2, LocFields, SlotOf DEF DelConsumer, OwnsStep
  <2>5. mem' = [mem EXCEPT ![seg(p)].active[loc[p].id] = FALSE]
    BY <1>8 DEF DelConsumer
  <2>6. mem' \in [Segments -> Memory]
    BY <1>0, <2>1, <2>2, <2>4, <2>5, ActiveTyped
  <2>7. /\ name' \in 0 .. made' /\ made' \in 0 .. MaxSegments /\ made <= made'
        /\ lives' \in 0 .. MaxLives
        /\ built' \subseteq Segments /\ misused' \subseteq Segments
    BY <1>0, <1>8, <2>1, <2>2, ShmAssumption DEF DelConsumer, ShmTypeOK
  <2> QED
    BY <1>0, <2>3, <2>6, <2>7, LeaveType DEF ShmTypeOK
<1> QED
  BY <1>1, <1>2, <1>3, <1>4, <1>5, <1>6, <1>7, <1>8 DEF Consume

\* The steps of Push keep the types and who owns which step.
LEMMA PushTyped ==
  ASSUME Typed, NEW p \in Procs, Push(p)
  PROVE  ShmTypeOK' /\ made <= made' /\ OthersStay(p) /\ OwnsStep(p)'
<1>0. ShmTypeOK /\ OwnsStep(p)
  BY DEF Typed, StepsOwned
<1>1. CASE PushHead(p)
  <2>1. pc[p] \in {"run", "push_head"}
    BY <1>1 DEF PushHead, Goto
  <2>2. /\ seg(p) \in 1 .. made /\ seg(p) \in Segments /\ mem[seg(p)] \in Memory
        /\ mem[seg(p)].head \in Nat /\ mem[seg(p)].tail \in [Ids -> Nat]
        /\ mem[seg(p)].data \in [Slots -> Nat]
    BY <1>0, <2>1, Own
  <2>3. M(p).head \in Nat
    BY <1>0, <1>1, <2>1, <2>2, ShmAssumption DEF PushHead, OwnsStep, Goto, M
  <2>4. /\ pc' \in [Procs -> Pcs] /\ pc'[p] = "push_min"
        /\ \A q \in Procs \ {p} : pc'[q] = pc[q]
    BY <1>0, <1>1, PcNames DEF PushHead, Goto, ShmTypeOK
  <2>5. loc' = [loc EXCEPT ![p].pos = M(p).head]
    BY <1>1 DEF PushHead
  <2>6. /\ loc' \in [Procs -> Locals] /\ loc'[p].pos = M(p).head
        /\ loc'[p].seg = loc[p].seg /\ loc'[p].id = loc[p].id
        /\ \A q \in Procs \ {p} : loc'[q] = loc[q]
    BY <1>0, <2>5, <2>3, LocFields, SetPos
  <2>7. mem' = mem
    BY <1>1 DEF PushHead
  <2>8. got' = got
    BY <1>1 DEF PushHead
  <2>9. /\ name' \in 0 .. made' /\ made' \in 0 .. MaxSegments /\ made <= made'
        /\ lives' \in 0 .. MaxLives
        /\ built' \subseteq Segments /\ misused' \subseteq Segments
    BY <1>0, <1>1, <2>1, <2>2, <2>3, ShmAssumption DEF PushHead, ShmTypeOK, Touch
  <2>10. OwnsStep(p)'
    BY <1>0, <1>1, <2>1, <2>2, <2>3, <2>4, <2>6, <2>9, LocFields
    DEF PushHead, OwnsStep, seg
  <2> QED
    BY <1>0, <2>4, <2>6, <2>7, <2>8, <2>9, <2>10 DEF ShmTypeOK, OthersStay
<1>2. CASE PushMin(p)
  <2>0. pc[p] = "push_min"
    BY <1>2 DEF PushMin
  <2>1. seg(p) \in 1 .. made /\ mem[seg(p)].min_tail \in Nat
    BY <1>0, <2>0, Own
  <2>2. loc[p].pos \in Nat
    BY <1>0, <2>0 DEF OwnsStep
  <2>3. UNCHANGED <<name, made, mem, lives, built, got>>
    BY <1>2 DEF PushMin
  <2>4. misused' \subseteq Segments
    <3>1. misused' \subseteq misused \cup {seg(p)} /\ misused \subseteq Segments
      BY <1>0, <1>2 DEF PushMin, StartScan, ShmTypeOK
    <3>2. seg(p) \in Segments
      BY <1>0, <2>0, Own
    <3> QED
      BY <3>1, <3>2
  <2>5. /\ loc' \in [Procs -> Locals] /\ loc'[p].seg = loc[p].seg
        /\ loc'[p].pos = loc[p].pos
        /\ \A q \in Procs \ {p} : loc'[q] = loc[q]
    <3>1. loc' = loc \/ loc' = [loc EXCEPT ![p].min = M(p).min_tail]
      BY <1>2 DEF PushMin
    <3> QED
      BY <1>0, <2>1, <3>1, LocFields, SetMin DEF M
  <2>6. /\ pc' \in [Procs -> Pcs] /\ pc'[p] \in {"scan", "push_cas"}
        /\ \A q \in Procs \ {p} : pc'[q] = pc[q]
    BY <1>0, <1>2, PcNames DEF PushMin, StartScan, ShmTypeOK
  <2>7. OwnsStep(p)'
    BY <2>1, <2>2, <2>3, <2>5, <2>6 DEF OwnsStep, seg
  <2> QED
    BY <1>0, <2>3, <2>5, <2>6, <2>7, <2>4 DEF ShmTypeOK, OthersStay
<1>3. CASE ScanActive(p)
  <2>0. pc[p] = "scan" /\ loc[p].i < MAX_CONSUMERS
    BY <1>3 DEF ScanActive
  <2>1. seg(p) \in 1 .. made
    BY <1>0, <2>0, Own
  <2>2. loc[p].i \in Ids
    BY <1>0, <2>0, LocFields, ShmAssumption DEF Ids
  <2>3. UNCHANGED <<name, made, mem, lives, built, misused, got>>
    BY <1>3 DEF ScanActive
  <2>4. /\ loc' \in [Procs -> Locals] /\ loc'[p].seg = loc[p].seg
        /\ \A q \in Procs \ {p} : loc'[q] = loc[q]
    <3>1. loc' = loc \/ loc' = [loc EXCEPT ![p].i = loc[p].i + 1]
      BY <1>3 DEF ScanActive
    <3>2. loc[p].i + 1 \in Nat
      BY <1>0, LocFields
    <3> QED
      BY <1>0, <3>1, <3>2, LocFields, SetI
  <2>5. /\ pc' \in [Procs -> Pcs]
        /\ pc'[p] = "scan" \/ (pc'[p] = "scan_tail" /\ loc' = loc)
        /\ \A q \in Procs \ {p} : pc'[q] = pc[q]
    BY <1>0, <1>3, PcNames DEF ScanActive, ShmTypeOK
  <2>6. OwnsStep(p)'
    BY <2>1, <2>2, <2>3, <2>4, <2>5 DEF OwnsStep, seg
  <2> QED
    BY <1>0, <2>3, <2>4, <2>5, <2>6 DEF ShmTypeOK, OthersStay
<1>4. CASE ScanTail(p)
  <2>1. pc[p] = "scan_tail"
    BY <1>4 DEF ScanTail, Goto
  <2>2. /\ seg(p) \in 1 .. made /\ seg(p) \in Segments /\ mem[seg(p)] \in Memory
        /\ mem[seg(p)].head \in Nat /\ mem[seg(p)].tail \in [Ids -> Nat]
        /\ mem[seg(p)].data \in [Slots -> Nat]
    BY <1>0, <2>1, Own
  <2>3. loc[p].i + 1 \in Nat /\ Smaller(M(p).tail[loc[p].i], loc[p].mini) \in Nat
    BY <1>0, <1>4, <2>1, <2>2, LocFields, ShmAssumption
    DEF ScanTail, OwnsStep, Goto, M, Smaller
  <2>4. /\ pc' \in [Procs -> Pcs] /\ pc'[p] = "scan"
        /\ \A q \in Procs \ {p} : pc'[q] = pc[q]
    BY <1>0, <1>4, PcNames DEF ScanTail, Goto, ShmTypeOK
  <2>5. loc' = [loc EXCEPT ![p].mini = Smaller(M(p).tail[loc[p].i], loc[p].mini), ![p].i = loc[p].i + 1]
    BY <1>4 DEF ScanTail
  <2>6. /\ loc' \in [Procs -> Locals] /\ loc'[p].seg = loc[p].seg
        /\ \A q \in Procs \ {p} : loc'[q] = loc[q]
    BY <1>0, <2>5, <2>3, LocFields, SetScan
  <2>7. mem' = mem
    BY <1>4 DEF ScanTail
  <2>8. got' = got
    BY <1>4 DEF ScanTail
  <2>9. /\ name' \in 0 .. made' /\ made' \in 0 .. MaxSegments /\ made <= made'
        /\ lives' \in 0 .. MaxLives
        /\ built' \subseteq Segments /\ misused' \subseteq Segments
    BY <1>0, <1>4, <2>1, <2>2, <2>3, ShmAssumption DEF ScanTail, ShmTypeOK
  <2>10. OwnsStep(p)'
    BY <1>0, <1>4, <2>1, <2>2, <2>3, <2>4, <2>6, <2>9, LocFields
    DEF ScanTail, OwnsStep, seg
  <2> QED
    BY <1>0, <2>4, <2>6, <2>7, <2>8, <2>9, <2>10 DEF ShmTypeOK, OthersStay
<1>5. CASE ScanStore(p)
  <2>1. pc[p] = "scan"
    BY <1>5 DEF ScanStore, Goto
  <2>2. /\ seg(p) \in 1 .. made /\ seg(p) \in Segments /\ mem[seg(p)] \in Memory
        /\ mem[seg(p)].head \in Nat /\ mem[seg(p)].tail \in [Ids -> Nat]
        /\ mem[seg(p)].data \in [Slots -> Nat]
    BY <1>0, <2>1, Own
  <2>3. ScanResult(p) \in Nat
    BY <1>0, <1>5, <2>1, <2>2, LocFields, ShmAssumption
    DEF ScanStore, OwnsStep, Goto, ScanResult, NobodyActive
  <2>4. /\ pc' \in [Procs -> Pcs]
        /\ pc'[p] = IF loc[p].pos = NONE THEN "refresh_store" ELSE "push_recheck"
        /\ \A q \in Procs \ {p} : pc'[q] = pc[q]
    BY <1>0, <1>5, PcNames DEF ScanStore, Goto, ShmTypeOK
  <2>5. loc' = [loc EXCEPT ![p].mini = ScanResult(p)]
    BY <1>5 DEF ScanStore
  <2>6. /\ loc' \in [Procs -> Locals] /\ loc'[p].mini = ScanResult(p)
        /\ loc'[p].seg = loc[p].seg /\ loc'[p].pos = loc[p].pos
        /\ \A q \in Procs \ {p} : loc'[q] = loc[q]
    BY <1>0, <2>5, <2>3, LocFields, SetMini
  <2>7. ScanResult(p) \in Nat
    BY <1>0, <1>5, <2>1, <2>2, <2>3, LocFields, SlotOf DEF ScanStore, OwnsStep
  <2>8. mem' = [mem EXCEPT ![seg(p)].min_tail = ScanResult(p)]
    BY <1>5 DEF ScanStore
  <2>9. mem' \in [Segments -> Memory]
    BY <1>0, <2>1, <2>2, <2>7, <2>8, CounterStored
  <2>10. got' = got
    BY <1>5 DEF ScanStore
  <2>11. /\ name' \in 0 .. made' /\ made' \in 0 .. MaxSegments /\ made <= made'
        /\ lives' \in 0 .. MaxLives
        /\ built' \subseteq Segments /\ misused' \subseteq Segments
    BY <1>0, <1>5, <2>1, <2>2, <2>3, ShmAssumption DEF ScanStore, ShmTypeOK
  <2>12. OwnsStep(p)'
    BY <1>0, <1>5, <2>1, <2>2, <2>3, <2>4, <2>6, <2>11, LocFields
    DEF ScanStore, OwnsStep, seg
  <2> QED
    BY <1>0, <2>4, <2>6, <2>9, <2>10, <2>11, <2>12 DEF ShmTypeOK, OthersStay
<1>6. CASE PushRecheck(p)
  <2>0. pc[p] = "push_recheck"
    BY <1>6 DEF PushRecheck
  <2>1. seg(p) \in 1 .. made /\ seg(p) \in Segments
    BY <1>0, <2>0, Own
  <2>2. loc[p].pos \in Nat /\ loc[p].mini \in Nat
    BY <1>0, <2>0 DEF OwnsStep
  <2>3. UNCHANGED <<name, made, lives, built, misused, got>>
    BY <1>6 DEF PushRecheck
  <2>4. mem' \in [Segments -> Memory]
    <3>1. mem' = mem \/ mem' = [mem EXCEPT ![seg(p)].min_tail = loc[p].mini]
      BY <1>6 DEF PushRecheck
    <3>2. mem \in [Segments -> Memory]
      BY <1>0 DEF ShmTypeOK
    <3>3. [mem EXCEPT ![seg(p)].min_tail = loc[p].mini] \in [Segments -> Memory]
      BY <1>0, <2>1, <2>2, CounterStored
    <3> QED
      BY <3>1, <3>2, <3>3
  <2>5. /\ loc' \in [Procs -> Locals] /\ loc'[p].seg = loc[p].seg /\ loc'[p].pos \in Nat
        /\ \A q \in Procs \ {p} : loc'[q] = loc[q]
    <3>1. loc' = Forget(p, 0) \/ loc' = Forget(p, loc[p].pos)
      BY <1>6 DEF PushRecheck
    <3> QED
      BY <1>0, <2>2, <3>1, LocFields, ForgetType
  <2>6. /\ pc' \in [Procs -> Pcs] /\ pc'[p] \in {"run", "push_cas"}
        /\ \A q \in Procs \ {p} : pc'[q] = pc[q]
    BY <1>0, <1>6, PcNames DEF PushRecheck, ShmTypeOK
  <2>7. OwnsStep(p)'
    BY <2>1, <2>3, <2>5, <2>6 DEF OwnsStep, seg
  <2> QED
    BY <1>0, <2>3, <2>4, <2>5, <2>6, <2>7 DEF ShmTypeOK, OthersStay
<1>7. CASE Refresh(p)
  <2>1. pc[p] = "run"
    BY <1>7 DEF Refresh, Goto
  <2>2. /\ seg(p) \in 1 .. made /\ seg(p) \in Segments /\ mem[seg(p)] \in Memory
        /\ mem[seg(p)].head \in Nat /\ mem[seg(p)].tail \in [Ids -> Nat]
        /\ mem[seg(p)].data \in [Slots -> Nat]
    BY <1>0, <2>1, Own
  <2>3. /\ pc' \in [Procs -> Pcs] /\ pc'[p] = "scan"
        /\ \A q \in Procs \ {p} : pc'[q] = pc[q]
    BY <1>0, <1>7, PcNames DEF Refresh, StartScan, ShmTypeOK
  <2>4. loc' = Forget(p, NONE) /\ NONE \in Nat \cup {NONE}
    BY <1>7 DEF Refresh
  <2>5. /\ loc' \in [Procs -> Locals] /\ loc'[p].seg = loc[p].seg
        /\ loc'[p].id = loc[p].id
        /\ \A q \in Procs \ {p} : loc'[q] = loc[q]
    BY <1>0, <2>4, LocFields, ForgetType
  <2>6. mem' = mem
    BY <1>7 DEF Refresh
  <2>7. got' = got
    BY <1>7 DEF Refresh
  <2>8. /\ name' \in 0 .. made' /\ made' \in 0 .. MaxSegments /\ made <= made'
        /\ lives' \in 0 .. MaxLives
        /\ built' \subseteq Segments /\ misused' \subseteq Segments
    BY <1>0, <1>7, <2>1, <2>2, ShmAssumption DEF Refresh, StartScan, ShmTypeOK
  <2>9. OwnsStep(p)'
    BY <1>0, <1>7, <2>1, <2>2, <2>3, <2>5, <2>8, LocFields DEF Refresh, OwnsStep, seg
  <2> QED
    BY <1>0, <2>3, <2>5, <2>6, <2>7, <2>8, <2>9 DEF ShmTypeOK, OthersStay
<1>8. CASE RefreshStore(p)
  <2>1. pc[p] = "refresh_store"
    BY <1>8 DEF RefreshStore, Goto
  <2>2. /\ seg(p) \in 1 .. made /\ seg(p) \in Segments /\ mem[seg(p)] \in Memory
        /\ mem[seg(p)].head \in Nat /\ mem[seg(p)].tail \in [Ids -> Nat]
        /\ mem[seg(p)].data \in [Slots -> Nat]
    BY <1>0, <2>1, Own
  <2>3. /\ pc' \in [Procs -> Pcs] /\ pc'[p] = "run"
        /\ \A q \in Procs \ {p} : pc'[q] = pc[q]
    BY <1>0, <1>8, PcNames DEF RefreshStore, Goto, ShmTypeOK
  <2>4. loc' = Forget(p, 0) /\ 0 \in Nat \cup {NONE}
    BY <1>8 DEF RefreshStore
  <2>5. /\ loc' \in [Procs -> Locals] /\ loc'[p].seg = loc[p].seg
        /\ loc'[p].id = loc[p].id
        /\ \A q \in Procs \ {p} : loc'[q] = loc[q]
    BY <1>0, <2>4, LocFields, ForgetType
  <2>6. loc[p].mini \in Nat
    BY <1>0, <1>8, <2>1, <2>2, LocFields, SlotOf DEF RefreshStore, OwnsStep
  <2>7. mem' = [mem EXCEPT ![seg(p)].min_tail = loc[p].mini]
    BY <1>8 DEF RefreshStore
  <2>8. mem' \in [Segments -> Memory]
    BY <1>0, <2>1, <2>2, <2>6, <2>7, CounterStored
  <2>9. got' = got
    BY <1>8 DEF RefreshStore
  <2>10. /\ name' \in 0 .. made' /\ made' \in 0 .. MaxSegments /\ made <= made'
        /\ lives' \in 0 .. MaxLives
        /\ built' \subseteq Segments /\ misused' \subseteq Segments
    BY <1>0, <1>8, <2>1, <2>2, ShmAssumption DEF RefreshStore, ShmTypeOK
  <2>11. OwnsStep(p)'
    BY <1>0, <1>8, <2>1, <2>2, <2>3, <2>5, <2>10, LocFields
    DEF RefreshStore, OwnsStep, seg
  <2> QED
    BY <1>0, <2>3, <2>5, <2>8, <2>9, <2>10, <2>11 DEF ShmTypeOK, OthersStay
<1>9. CASE PushCas(p)
  <2>1. pc[p] = "push_cas"
    BY <1>9 DEF PushCas, Goto
  <2>2. /\ seg(p) \in 1 .. made /\ seg(p) \in Segments /\ mem[seg(p)] \in Memory
        /\ mem[seg(p)].head \in Nat /\ mem[seg(p)].tail \in [Ids -> Nat]
        /\ mem[seg(p)].data \in [Slots -> Nat]
    BY <1>0, <2>1, Own
  <2>3. /\ pc' \in [Procs -> Pcs] /\ pc'[p] = "push_copy"
        /\ \A q \in Procs \ {p} : pc'[q] = pc[q]
    BY <1>0, <1>9, PcNames DEF PushCas, Goto, ShmTypeOK
  <2>4. loc' = loc
    BY <1>9 DEF PushCas
  <2>5. mem[seg(p)].head + 1 \in Nat
    BY <1>0, <1>9, <2>1, <2>2, LocFields, SlotOf DEF PushCas, OwnsStep
  <2>6. mem' = [mem EXCEPT ![seg(p)].head = mem[seg(p)].head + 1]
    BY <1>9 DEF PushCas
  <2>7. mem' \in [Segments -> Memory]
    BY <1>0, <2>1, <2>2, <2>5, <2>6, CounterStored
  <2>8. got' = got
    BY <1>9 DEF PushCas
  <2>9. /\ name' \in 0 .. made' /\ made' \in 0 .. MaxSegments /\ made <= made'
        /\ lives' \in 0 .. MaxLives
        /\ built' \subseteq Segments /\ misused' \subseteq Segments
    BY <1>0, <1>9, <2>1, <2>2, ShmAssumption DEF PushCas, ShmTypeOK
  <2>10. OwnsStep(p)'
    BY <1>0, <1>9, <2>1, <2>2, <2>3, <2>4, <2>9, LocFields DEF PushCas, OwnsStep, seg
  <2> QED
    BY <1>0, <2>3, <2>4, <2>7, <2>8, <2>9, <2>10 DEF ShmTypeOK, OthersStay
<1>10. CASE PushCasFails(p)
  <2>1. pc[p] = "push_cas"
    BY <1>10 DEF PushCasFails, Goto
  <2>2. /\ seg(p) \in 1 .. made /\ seg(p) \in Segments /\ mem[seg(p)] \in Memory
        /\ mem[seg(p)].head \in Nat /\ mem[seg(p)].tail \in [Ids -> Nat]
        /\ mem[seg(p)].data \in [Slots -> Nat]
    BY <1>0, <2>1, Own
  <2>3. /\ pc' \in [Procs -> Pcs] /\ pc'[p] = "push_head"
        /\ \A q \in Procs \ {p} : pc'[q] = pc[q]
    BY <1>0, <1>10, PcNames DEF PushCasFails, Goto, ShmTypeOK
  <2>4. loc' = Forget(p, 0) /\ 0 \in Nat \cup {NONE}
    BY <1>10 DEF PushCasFails
  <2>5. /\ loc' \in [Procs -> Locals] /\ loc'[p].seg = loc[p].seg
        /\ loc'[p].id = loc[p].id
        /\ \A q \in Procs \ {p} : loc'[q] = loc[q]
    BY <1>0, <2>4, LocFields, ForgetType
  <2>6. mem' = mem
    BY <1>10 DEF PushCasFails
  <2>7. got' = got
    BY <1>10 DEF PushCasFails
  <2>8. /\ name' \in 0 .. made' /\ made' \in 0 .. MaxSegments /\ made <= made'
        /\ lives' \in 0 .. MaxLives
        /\ built' \subseteq Segments /\ misused' \subseteq Segments
    BY <1>0, <1>10, <2>1, <2>2, ShmAssumption DEF PushCasFails, ShmTypeOK
  <2>9. OwnsStep(p)'
    BY <1>0, <1>10, <2>1, <2>2, <2>3, <2>5, <2>8, LocFields
    DEF PushCasFails, OwnsStep, seg
  <2> QED
    BY <1>0, <2>3, <2>5, <2>6, <2>7, <2>8, <2>9 DEF ShmTypeOK, OthersStay
<1>11. CASE PushCopy(p)
  <2>1. pc[p] = "push_copy"
    BY <1>11 DEF PushCopy, Goto
  <2>2. /\ seg(p) \in 1 .. made /\ seg(p) \in Segments /\ mem[seg(p)] \in Memory
        /\ mem[seg(p)].head \in Nat /\ mem[seg(p)].tail \in [Ids -> Nat]
        /\ mem[seg(p)].data \in [Slots -> Nat]
    BY <1>0, <2>1, Own
  <2>3. /\ pc' \in [Procs -> Pcs] /\ pc'[p] = "push_publish"
        /\ \A q \in Procs \ {p} : pc'[q] = pc[q]
    BY <1>0, <1>11, PcNames DEF PushCopy, Goto, ShmTypeOK
  <2>4. loc' = loc
    BY <1>11 DEF PushCopy
  <2>5. loc[p].pos % SIZE \in Slots /\ loc[p].pos + 1 \in Nat
    BY <1>0, <1>11, <2>1, <2>2, LocFields, SlotOf DEF PushCopy, OwnsStep
  <2>6. mem' = [mem EXCEPT ![seg(p)].data[loc[p].pos % SIZE] = loc[p].pos + 1]
    BY <1>11 DEF PushCopy
  <2>7. mem' \in [Segments -> Memory]
    BY <1>0, <2>1, <2>2, <2>5, <2>6, SlotStored
  <2>8. got' = got
    BY <1>11 DEF PushCopy
  <2>9. /\ name' \in 0 .. made' /\ made' \in 0 .. MaxSegments /\ made <= made'
        /\ lives' \in 0 .. MaxLives
        /\ built' \subseteq Segments /\ misused' \subseteq Segments
    BY <1>0, <1>11, <2>1, <2>2, ShmAssumption DEF PushCopy, ShmTypeOK
  <2>10. OwnsStep(p)'
    BY <1>0, <1>11, <2>1, <2>2, <2>3, <2>4, <2>9, LocFields DEF PushCopy, OwnsStep, seg
  <2> QED
    BY <1>0, <2>3, <2>4, <2>7, <2>8, <2>9, <2>10 DEF ShmTypeOK, OthersStay
<1>12. CASE PushPublish(p)
  <2>1. pc[p] = "push_publish"
    BY <1>12 DEF PushPublish, Goto
  <2>2. /\ seg(p) \in 1 .. made /\ seg(p) \in Segments /\ mem[seg(p)] \in Memory
        /\ mem[seg(p)].head \in Nat /\ mem[seg(p)].tail \in [Ids -> Nat]
        /\ mem[seg(p)].data \in [Slots -> Nat]
    BY <1>0, <2>1, Own
  <2>3. /\ pc' \in [Procs -> Pcs] /\ pc'[p] = "run"
        /\ \A q \in Procs \ {p} : pc'[q] = pc[q]
    BY <1>0, <1>12, PcNames DEF PushPublish, Goto, ShmTypeOK
  <2>4. loc' = Forget(p, 0) /\ 0 \in Nat \cup {NONE}
    BY <1>12 DEF PushPublish
  <2>5. /\ loc' \in [Procs -> Locals] /\ loc'[p].seg = loc[p].seg
        /\ loc'[p].id = loc[p].id
        /\ \A q \in Procs \ {p} : loc'[q] = loc[q]
    BY <1>0, <2>4, LocFields, ForgetType
  <2>6. loc[p].pos % SIZE \in Slots /\ loc[p].pos \in Nat
    BY <1>0, <1>12, <2>1, <2>2, LocFields, SlotOf DEF PushPublish, OwnsStep
  <2>7. mem' = [mem EXCEPT ![seg(p)].sequence[loc[p].pos % SIZE] = loc[p].pos]
    BY <1>12 DEF PushPublish
  <2>8. mem' \in [Segments -> Memory]
    BY <1>0, <2>1, <2>2, <2>6, <2>7, SlotStored
  <2>9. got' = got
    BY <1>12 DEF PushPublish
  <2>10. /\ name' \in 0 .. made' /\ made' \in 0 .. MaxSegments /\ made <= made'
        /\ lives' \in 0 .. MaxLives
        /\ built' \subseteq Segments /\ misused' \subseteq Segments
    BY <1>0, <1>12, <2>1, <2>2, ShmAssumption DEF PushPublish, ShmTypeOK
  <2>11. OwnsStep(p)'
    BY <1>0, <1>12, <2>1, <2>2, <2>3, <2>5, <2>10, LocFields
    DEF PushPublish, OwnsStep, seg
  <2> QED
    BY <1>0, <2>3, <2>5, <2>8, <2>9, <2>10, <2>11 DEF ShmTypeOK, OthersStay
<1> QED
  BY <1>1, <1>2, <1>3, <1>4, <1>5, <1>6, <1>7, <1>8, <1>9, <1>10, <1>11, <1>12 DEF Push

\* Every step keeps the types and the ownership of the steps.
LEMMA TypedStep ==
  ASSUME Typed, [Next]_vars
  PROVE  Typed'
<1>1. CASE UNCHANGED vars
  BY <1>1 DEF vars, Typed, ShmTypeOK, StepsOwned, OwnsStep, seg
<1>2. ASSUME NEW p \in Procs, Construct(p) \/ Destruct(p) \/ Consume(p) \/ Push(p)
      PROVE  Typed'
  <2>1. ShmTypeOK' /\ made <= made' /\ OthersStay(p) /\ OwnsStep(p)'
    BY <1>2, ConstructTyped, DestructTyped, ConsumeTyped, PushTyped
  <2>2. ASSUME NEW q \in Procs \ {p}
        PROVE  OwnsStep(q)'
    <3>1. OwnsStep(q) /\ made \in Nat /\ made' \in Nat /\ seg(q) \in Nat
      BY <2>1, LocFields, ShmAssumption DEF Typed, StepsOwned, ShmTypeOK, seg
    <3>2. pc'[q] = pc[q] /\ loc'[q] = loc[q]
      BY <2>1, <2>2 DEF OthersStay
    <3> QED
      BY <2>1, <3>1, <3>2 DEF OwnsStep, seg
  <2> QED
    BY <2>1, <2>2 DEF Typed, StepsOwned
<1> QED
  BY <1>1, <1>2 DEF Next

\* Nobody runs, nothing is made.
LEMMA TypedInit == Init => Typed
<1> SUFFICES ASSUME Init PROVE Typed
  OBVIOUS
<1>1. ShmTypeOK
  BY ZeroedType, NoLocalsType, ShmAssumption DEF Init, ShmTypeOK, Pcs
<1>2. StepsOwned
  BY DEF Init, StepsOwned, OwnsStep
<1> QED
  BY <1>1, <1>2 DEF Typed

\* The memory, the names and the variables of every process have their types,
\* whoever constructs, attaches, leaves or dies, with any number of creators.
THEOREM ShmTypeCorrect == Spec => []ShmTypeOK
<1>1. Init => Typed
  BY TypedInit
<1>2. Typed /\ [Next]_vars => Typed'
  BY TypedStep
<1>3. Typed => ShmTypeOK
  BY DEF Typed
<1> QED
  BY <1>1, <1>2, <1>3, PTL DEF Spec

-----------------------------------------------------------------------------
\* What a step of p leaves alone in the segments.
Spares(p) ==
  /\ \A s \in Segments \ {seg(p)} : mem'[s] = mem[s]
  /\ \A s \in Segments : mem[s].sized => mem'[s].sized
  /\ pc[p] \notin {"new_members", "new_body"} =>
       \A s \in Segments :
         /\ mem[s].num_consumers <= mem'[s].num_consumers
         /\ \A i \in Ids \ {loc[p].id} :
              mem'[s].tail[i] = mem[s].tail[i] /\ mem'[s].active[i] = mem[s].active[i]

\* A step that writes to no segment.
LEMMA SparesSame ==
  ASSUME ShmTypeOK, NEW p \in Procs, mem' = mem
  PROVE  Spares(p)
<1>1. \A s \in Segments : mem[s].num_consumers \in Nat
  BY DEF ShmTypeOK, Memory
<1> QED BY <1>1 DEF Spares

\* What storing an active flag changes.
LEMMA ActiveSpares ==
  ASSUME ShmTypeOK, NEW p \in Procs, seg(p) \in Segments, loc[p].id \in Ids,
         NEW v \in BOOLEAN, mem' = [mem EXCEPT ![seg(p)].active[loc[p].id] = v]
  PROVE  Spares(p) /\ mem'[seg(p)].active[loc[p].id] = v /\ mem'[seg(p)].tail = mem[seg(p)].tail
<1> DEFINE s == seg(p)
           i == loc[p].id
<1>1. mem \in [Segments -> Memory] /\ mem[s] \in Memory /\ mem[s].active \in [Ids -> BOOLEAN]
  BY DEF ShmTypeOK, Memory
<1>2. mem'[s] = [mem[s] EXCEPT !.active = [mem[s].active EXCEPT ![i] = v]]
  BY <1>1
<1>3. \A r \in Segments \ {s} : mem'[r] = mem[r]
  BY <1>1
<1>4. /\ mem'[s].active = [mem[s].active EXCEPT ![i] = v]
      /\ mem'[s].tail = mem[s].tail /\ mem'[s].sized = mem[s].sized
      /\ mem'[s].num_consumers = mem[s].num_consumers
  BY <1>1, <1>2 DEF Memory
<1>5. \A j \in Ids \ {i} : mem'[s].active[j] = mem[s].active[j]
  BY <1>1, <1>4
<1>6. \A r \in Segments : mem[r].num_consumers \in Nat
  BY <1>1 DEF Memory
<1>7. mem'[s].active[i] = v
  BY <1>1, <1>4
<1> HIDE DEF s, i
<1>8. \A r \in Segments : mem[r].sized => mem'[r].sized
  BY <1>3, <1>4
<1>9. \A r \in Segments :
         /\ mem[r].num_consumers <= mem'[r].num_consumers
         /\ \A j \in Ids \ {i} :
              mem'[r].tail[j] = mem[r].tail[j] /\ mem'[r].active[j] = mem[r].active[j]
  <2> TAKE r \in Segments
  <2>1. CASE r = s
    BY <1>4, <1>5, <1>6, <2>1
  <2>2. CASE r # s
    <3>1. mem'[r] = mem[r]
      BY <1>3, <2>2
    <3>2. mem[r].num_consumers <= mem'[r].num_consumers
      BY <1>6, <3>1
    <3>3. \A j \in Ids \ {i} :
            mem'[r].tail[j] = mem[r].tail[j] /\ mem'[r].active[j] = mem[r].active[j]
      BY <3>1, Zenon
    <3> QED
      BY <3>2, <3>3
  <2> QED
    BY <2>1, <2>2
<1> QED
  BY <1>3, <1>4, <1>7, <1>8, <1>9 DEF Spares, s, i

\* A step writes to its own segment and to its own consumer's entry only.
LEMMA StepSpares ==
  ASSUME Typed, NEW p \in Procs, Construct(p) \/ Destruct(p) \/ Consume(p) \/ Push(p)
  PROVE  Spares(p)
<1>0. ShmTypeOK /\ OwnsStep(p) /\ mem \in [Segments -> Memory]
  BY DEF Typed, StepsOwned, ShmTypeOK
<1>1. \A s \in Segments : mem[s] \in Memory /\ mem[s].num_consumers \in Nat
  BY <1>0 DEF Memory
<1>2. CASE Truncate(p)
  <2>1. pc[p] = "truncate"
    BY <1>2 DEF Truncate, Goto
  <2>2. seg(p) \in Segments
    BY <1>0, <2>1, Own
  <2>3. mem' = [mem EXCEPT ![seg(p)].sized = TRUE]
    BY <1>2 DEF Truncate
  <2> QED
    BY <1>0, <1>1, <2>1, <2>2, <2>3 DEF Spares, Memory
<1>3. CASE NewMembers(p)
  <2>1. pc[p] = "new_members"
    BY <1>3 DEF NewMembers, Goto
  <2>2. seg(p) \in Segments
    BY <1>0, <2>1, Own
  <2>3. mem' = [mem EXCEPT ![seg(p)] = [Zeroed EXCEPT !.sized = TRUE]]
    BY <1>3 DEF NewMembers
  <2> QED
    BY <1>0, <1>1, <2>1, <2>2, <2>3 DEF M, Spares, Memory, Zeroed
<1>4. CASE NewBody(p)
  <2>1. pc[p] = "new_body"
    BY <1>4 DEF NewBody, Goto
  <2>2. seg(p) \in Segments
    BY <1>0, <2>1, Own
  <2>3. mem' = [mem EXCEPT ![seg(p)].num_consumers = 0, ![seg(p)].min_tail = 0,
                              ![seg(p)].tail = Zeroed.tail,
                                ![seg(p)].active = Zeroed.active]
    BY <1>4 DEF NewBody
  <2> QED
    BY <1>0, <1>1, <2>1, <2>2, <2>3 DEF Spares, Memory
<1>5. CASE NewSlots(p)
  <2>1. pc[p] = "new_slots"
    BY <1>5 DEF NewSlots, Goto
  <2>2. seg(p) \in Segments
    BY <1>0, <2>1, Own
  <2>3. mem' = [mem EXCEPT ![seg(p)].sequence = [k \in Slots |-> Fresh]]
    BY <1>5 DEF NewSlots
  <2> QED
    BY <1>0, <1>1, <2>1, <2>2, <2>3 DEF Spares, Memory
<1>6. CASE RegTakeId(p)
  <2>1. pc[p] = "run"
    BY <1>6 DEF RegTakeId, Goto
  <2>2. seg(p) \in Segments
    BY <1>0, <2>1, Own
  <2>3. mem' = [mem EXCEPT ![seg(p)].num_consumers = mem[seg(p)].num_consumers + 1]
    BY <1>6 DEF RegTakeId
  <2> QED
    BY <1>0, <1>1, <2>1, <2>2, <2>3 DEF Spares, Memory
<1>7. CASE RegTail(p)
  <2>1. pc[p] = "reg_tail"
    BY <1>7 DEF RegTail, Goto
  <2>2. seg(p) \in Segments
    BY <1>0, <2>1, Own
  <2>3. mem' = [mem EXCEPT ![seg(p)].tail[loc[p].id] = loc[p].pos]
    BY <1>7 DEF RegTail
  <2> QED
    BY <1>0, <1>1, <2>1, <2>2, <2>3 DEF Spares, Memory
<1>8. CASE RegActivate(p)
  <2>1. pc[p] = "reg_active" /\ loc[p].id \in Ids
    BY <1>0, <1>8, LocFields DEF RegActivate, Goto, OwnsStep
  <2>2. seg(p) \in Segments
    BY <1>0, <2>1, Own
  <2>3. mem' = [mem EXCEPT ![seg(p)].active[loc[p].id] = TRUE]
    BY <1>8 DEF RegActivate
  <2> QED
    BY <1>0, <2>1, <2>2, <2>3, ActiveSpares
<1>9. CASE PopAdvance(p)
  <2>1. pc[p] = "pop_advance"
    BY <1>9 DEF PopAdvance, Goto
  <2>2. seg(p) \in Segments
    BY <1>0, <2>1, Own
  <2>3. mem' = [mem EXCEPT ![seg(p)].tail[loc[p].id] = loc[p].pos + 1]
    BY <1>9 DEF PopAdvance
  <2> QED
    BY <1>0, <1>1, <2>1, <2>2, <2>3 DEF Spares, Memory
<1>10. CASE DelConsumer(p)
  <2>1. pc[p] = "run" /\ loc[p].id \in Ids
    BY <1>0, <1>10, LocFields DEF DelConsumer, Goto, OwnsStep
  <2>2. seg(p) \in Segments
    BY <1>0, <2>1, Own
  <2>3. mem' = [mem EXCEPT ![seg(p)].active[loc[p].id] = FALSE]
    BY <1>10 DEF DelConsumer
  <2> QED
    BY <1>0, <2>1, <2>2, <2>3, ActiveSpares
<1>11. CASE ScanStore(p)
  <2>1. pc[p] = "scan"
    BY <1>11 DEF ScanStore, Goto
  <2>2. seg(p) \in Segments
    BY <1>0, <2>1, Own
  <2>3. mem' = [mem EXCEPT ![seg(p)].min_tail = ScanResult(p)]
    BY <1>11 DEF ScanStore
  <2> QED
    BY <1>0, <1>1, <2>1, <2>2, <2>3 DEF Spares, Memory
<1>12. CASE PushRecheck(p)
  <2>1. pc[p] = "push_recheck"
    BY <1>12 DEF PushRecheck, Goto
  <2>2. seg(p) \in Segments
    BY <1>0, <2>1, Own
  <2>3. mem' = mem \/ mem' = [mem EXCEPT ![seg(p)].min_tail = loc[p].mini]
    BY <1>12 DEF PushRecheck
  <2>4. CASE mem' = mem
    BY <1>0, <2>4, SparesSame
  <2>5. CASE mem' = [mem EXCEPT ![seg(p)].min_tail = loc[p].mini]
    BY <1>0, <1>1, <2>2, <2>5 DEF Spares, Memory
  <2> QED
    BY <2>3, <2>4, <2>5
<1>13. CASE RefreshStore(p)
  <2>1. pc[p] = "refresh_store"
    BY <1>13 DEF RefreshStore, Goto
  <2>2. seg(p) \in Segments
    BY <1>0, <2>1, Own
  <2>3. mem' = [mem EXCEPT ![seg(p)].min_tail = loc[p].mini]
    BY <1>13 DEF RefreshStore
  <2> QED
    BY <1>0, <1>1, <2>1, <2>2, <2>3 DEF Spares, Memory
<1>14. CASE PushCas(p)
  <2>1. pc[p] = "push_cas"
    BY <1>14 DEF PushCas, Goto
  <2>2. seg(p) \in Segments
    BY <1>0, <2>1, Own
  <2>3. mem' = [mem EXCEPT ![seg(p)].head = mem[seg(p)].head + 1]
    BY <1>14 DEF PushCas
  <2> QED
    BY <1>0, <1>1, <2>1, <2>2, <2>3 DEF Spares, Memory
<1>15. CASE PushCopy(p)
  <2>1. pc[p] = "push_copy"
    BY <1>15 DEF PushCopy, Goto
  <2>2. seg(p) \in Segments
    BY <1>0, <2>1, Own
  <2>3. mem' = [mem EXCEPT ![seg(p)].data[loc[p].pos % SIZE] = loc[p].pos + 1]
    BY <1>15 DEF PushCopy
  <2> QED
    BY <1>0, <1>1, <2>1, <2>2, <2>3 DEF Spares, Memory
<1>16. CASE PushPublish(p)
  <2>1. pc[p] = "push_publish"
    BY <1>16 DEF PushPublish, Goto
  <2>2. seg(p) \in Segments
    BY <1>0, <2>1, Own
  <2>3. mem' = [mem EXCEPT ![seg(p)].sequence[loc[p].pos % SIZE] = loc[p].pos]
    BY <1>16 DEF PushPublish
  <2> QED
    BY <1>0, <1>1, <2>1, <2>2, <2>3 DEF Spares, Memory
<1>17. CASE mem' = mem
  BY <1>0, <1>17, SparesSame
<1> QED
  BY <1>2, <1>3, <1>4, <1>5, <1>6, <1>7, <1>8, <1>9, <1>10, <1>11, <1>12, <1>13,
     <1>14, <1>15, <1>16, <1>17
  DEF Construct, Destruct, Consume, Push, Create, OpenNew, Attach, OpenOld,
     AttachFails, MapSegment, SystemCallFails, Unmap, UnlinkName, Crash, Sigbus,
     RegHead, PopLoad, PopCopy, PushHead, PushMin, ScanActive, ScanTail, Refresh,
     PushCasFails

-----------------------------------------------------------------------------
(***************************************************************************)
(* One creator.                                                            *)
(***************************************************************************)
OneCreator == \A c, d \in Creators : c = d

Step(p) == Construct(p) \/ Destruct(p) \/ Consume(p) \/ Push(p)

\* What every step keeps: names change hands only through creators.
LEMMA StepKeeps ==
  ASSUME Typed, NEW p \in Procs, Step(p)
  PROVE  /\ ShmTypeOK' /\ made <= made' /\ OthersStay(p) /\ OwnsStep(p)' /\ Spares(p)
         /\ misused \subseteq misused' /\ built \subseteq built'
         /\ pc[p] # "new_slots" => built' = built
         /\ pc[p] = "new_slots" => built' \subseteq built \cup {seg(p)}
         /\ p \notin Creators => name' = name
<1>1. ShmTypeOK /\ OwnsStep(p)
  BY DEF Typed, StepsOwned
<1>2. ShmTypeOK' /\ made <= made' /\ OthersStay(p) /\ OwnsStep(p)' /\ Spares(p)
  BY ConstructTyped, DestructTyped, ConsumeTyped, PushTyped, StepSpares DEF Step
<1>3. CASE Construct(p)
  BY <1>1, <1>2, <1>3
  DEF Construct, Create, OpenNew, Truncate, Attach, OpenOld, AttachFails,
     MapSegment, SystemCallFails, NewMembers, NewBody, NewSlots, OwnsStep, Goto
<1>4. CASE Destruct(p)
  BY <1>1, <1>2, <1>4 DEF Destruct, Unmap, UnlinkName, Crash, Sigbus, OwnsStep, Goto
<1>5. CASE Consume(p)
  BY <1>1, <1>2, <1>5
  DEF Consume, RegTakeId, RegHead, RegTail, RegActivate, PopLoad, PopCopy,
     PopAdvance, DelConsumer, Touch, Goto
<1>6. CASE Push(p)
  BY <1>1, <1>2, <1>6 DEF Push, PushHead, PushMin, ScanActive, ScanTail, ScanStore,
     PushRecheck, Refresh, RefreshStore, PushCas, PushCasFails, PushCopy,
       PushPublish, StartScan, Touch, Goto
<1> QED
  BY <1>3, <1>4, <1>5, <1>6 DEF Step

\* The name denotes c's segment from shm_open to shm_unlink, and the segment has
\* its size from ftruncate on.
NameHeld(c) ==
  /\ pc[c] = "open" => name = 0
  /\ pc[c] \notin {"idle", "open", "unlink"} => name = seg(c)
  /\ pc[c] \notin {"idle", "open", "unlink", "truncate"} => M(c).sized

\* c constructs a segment that no process has constructed before.
BuildsFresh(c) ==
  pc[c] \in {"truncate", "map", "new_members", "new_body", "new_slots"} =>
    seg(c) \notin built

Held ==
  /\ Typed
  /\ built \subseteq 1 .. made
  /\ \A c \in Creators : NameHeld(c) /\ BuildsFresh(c)

\* A process that uses its segment keeps it, or leaves.
LEMMA UserStays ==
  ASSUME Typed, NEW p \in Procs, Consume(p) \/ Push(p)
  PROVE  /\ pc'[p] \notin {"open", "truncate", "map", "new_members", "new_body",
                           "new_slots", "attach", "unlink"}
         /\ pc'[p] = "idle" \/ loc'[p].seg = loc[p].seg
<1>0. ShmTypeOK
  BY DEF Typed
<1>1. ASSUME NEW n \in Nat \cup {NONE}
      PROVE  Forget(p, n)[p].seg = loc[p].seg
  BY <1>0, ForgetType, LocFields
<1>2. Leave(p) => pc'[p] = "idle"
  BY <1>0, LeaveType
<1>3. CASE RegTakeId(p)
  BY <1>0, <1>2, <1>3 DEF RegTakeId, Goto, ShmTypeOK, Locals
<1>4. CASE RegHead(p)
  BY <1>0, <1>4 DEF RegHead, Goto, ShmTypeOK, Locals
<1>5. CASE RegTail(p)
  BY <1>0, <1>1, <1>5 DEF RegTail, Goto, ShmTypeOK
<1>6. CASE RegActivate(p)
  BY <1>0, <1>6 DEF RegActivate, Goto, ShmTypeOK
<1>7. CASE PopLoad(p)
  BY <1>0, <1>7 DEF PopLoad, Goto, ShmTypeOK, Locals
<1>8. CASE PopCopy(p)
  BY <1>0, <1>8 DEF PopCopy, Goto, ShmTypeOK
<1>9. CASE PopAdvance(p)
  BY <1>0, <1>1, <1>9 DEF PopAdvance, Goto, ShmTypeOK
<1>10. CASE DelConsumer(p)
  BY <1>0, <1>2, <1>10 DEF DelConsumer, Goto, ShmTypeOK, Locals
<1>11. CASE PushHead(p)
  BY <1>0, <1>11 DEF PushHead, Goto, ShmTypeOK, Locals
<1>12. CASE PushMin(p)
  BY <1>0, <1>12 DEF PushMin, StartScan, ShmTypeOK, Locals
<1>13. CASE ScanActive(p)
  BY <1>0, <1>13 DEF ScanActive, Goto, ShmTypeOK, Locals
<1>14. CASE ScanTail(p)
  BY <1>0, <1>14 DEF ScanTail, Goto, ShmTypeOK, Locals
<1>15. CASE ScanStore(p)
  BY <1>0, <1>15 DEF ScanStore, Goto, ShmTypeOK, Locals
<1>16. CASE PushRecheck(p)
  <2>1. OwnsStep(p) /\ pc[p] = "push_recheck"
    BY <1>16 DEF PushRecheck, Typed, StepsOwned
  <2>2. loc[p].pos \in Nat
    BY <2>1 DEF OwnsStep
  <2>3. loc' = Forget(p, 0) \/ loc' = Forget(p, loc[p].pos)
    BY <1>16 DEF PushRecheck
  <2> QED
    BY <1>0, <1>1, <1>16, <2>2, <2>3 DEF PushRecheck, ShmTypeOK
<1>17. CASE Refresh(p)
  BY <1>0, <1>1, <1>17 DEF Refresh, StartScan, ShmTypeOK
<1>18. CASE RefreshStore(p)
  BY <1>0, <1>1, <1>18 DEF RefreshStore, Goto, ShmTypeOK
<1>19. CASE PushCas(p)
  BY <1>0, <1>19 DEF PushCas, Goto, ShmTypeOK
<1>20. CASE PushCasFails(p)
  BY <1>0, <1>1, <1>20 DEF PushCasFails, Goto, ShmTypeOK
<1>21. CASE PushCopy(p)
  BY <1>0, <1>21 DEF PushCopy, Goto, ShmTypeOK
<1>22. CASE PushPublish(p)
  BY <1>0, <1>1, <1>22 DEF PushPublish, Goto, ShmTypeOK
<1> QED
  BY <1>3, <1>4, <1>5, <1>6, <1>7, <1>8, <1>9, <1>10, <1>11, <1>12, <1>13, <1>14,
     <1>15, <1>16, <1>17, <1>18, <1>19, <1>20, <1>21, <1>22 DEF Consume, Push

\* A creator's own steps.
LEMMA CreatorStep ==
  ASSUME Held, NEW c \in Creators, Step(c)
  PROVE  NameHeld(c)' /\ BuildsFresh(c)'
<1>0. /\ c \in Procs /\ ShmTypeOK /\ OwnsStep(c) /\ NameHeld(c) /\ BuildsFresh(c)
      /\ built \subseteq 1 .. made /\ made \in Nat
  BY ShmAssumption DEF Held, Typed, StepsOwned, Procs, ShmTypeOK
<1>1. /\ ShmTypeOK' /\ Spares(c) /\ (pc[c] # "new_slots" => built' = built)
  BY <1>0, StepKeeps DEF Held
<1>2. pc[c] \notin {"idle", "open", "attach", "unlink"} => seg(c) \in Segments
  BY <1>0, Own
<1>3. CASE Construct(c)
  <2>1. CASE Create(c)
    BY <1>0, <2>1 DEF Create, Goto, NameHeld, BuildsFresh, UnlinkOld, ShmTypeOK
  <2>2. CASE OpenNew(c)
    <3>1. pc[c] = "open" /\ pc'[c] = "truncate" /\ name = 0
      BY <1>0, <2>2 DEF OpenNew, Goto, NameHeld, ShmTypeOK
    <3>2. name' = made + 1 /\ loc' = [loc EXCEPT ![c].seg = name'] /\ built' = built
      BY <2>2, <3>1 DEF OpenNew
    <3>3. loc'[c].seg = name'
      BY <1>0, <3>2, LocFields DEF Locals
    <3> QED
      BY <1>0, <3>1, <3>2, <3>3 DEF NameHeld, BuildsFresh, seg
  <2>3. CASE Truncate(c)
    <3>1. pc[c] = "truncate" /\ pc'[c] = "map" /\ UNCHANGED <<name, loc, built>>
      BY <1>0, <2>3 DEF Truncate, Goto, ShmTypeOK
    <3>2. mem' = [mem EXCEPT ![seg(c)].sized = TRUE]
      BY <2>3 DEF Truncate
    <3>3. mem'[seg(c)].sized
      BY <1>0, <1>2, <3>1, <3>2 DEF ShmTypeOK, Memory
    <3> QED
      BY <1>0, <3>1, <3>3 DEF NameHeld, BuildsFresh, seg, M
  <2>4. CASE Attach(c) \/ OpenOld(c) \/ AttachFails(c)
    BY <1>0, <2>4 DEF Attach, OpenOld, AttachFails, Goto, OwnsStep
  <2>5. CASE SystemCallFails(c)
    BY <1>0, <2>5, LeaveType DEF SystemCallFails, NameHeld, BuildsFresh
  <2>6. CASE MapSegment(c) \/ NewMembers(c) \/ NewBody(c) \/ NewSlots(c)
    <3>1. /\ pc[c] \in {"map", "new_members", "new_body", "new_slots"}
          /\ pc'[c] \in {"new_members", "new_body", "new_slots", "run"}
          /\ (pc'[c] # "run" => built' = built) /\ UNCHANGED <<name, loc>>
      BY <1>0, <2>6 DEF MapSegment, NewMembers, NewBody, NewSlots, Goto, ShmTypeOK
    <3>2. mem'[seg(c)].sized /\ name = seg(c)
      BY <1>0, <1>1, <1>2, <3>1 DEF Spares, NameHeld, M
    <3> QED
      BY <1>0, <3>1, <3>2 DEF NameHeld, BuildsFresh, seg, M
  <2> QED
    BY <1>3, <2>1, <2>2, <2>3, <2>4, <2>5, <2>6 DEF Construct
<1>4. CASE Destruct(c)
  <2>1. pc'[c] \in {"idle", "unlink"}
    BY <1>0, <1>4, LeaveType
    DEF Destruct, Unmap, UnlinkName, Crash, Sigbus, Goto, ShmTypeOK
  <2> QED
    BY <2>1 DEF NameHeld, BuildsFresh
<1>5. CASE Consume(c) \/ Push(c)
  <2>1. UNCHANGED <<name, built>>
    BY <1>5 DEF Consume, RegTakeId, RegHead, RegTail, RegActivate, PopLoad, PopCopy,
      PopAdvance, DelConsumer,
      Push, PushHead, PushMin, ScanActive, ScanTail, ScanStore,
      PushRecheck, Refresh, RefreshStore, PushCas, PushCasFails, PushCopy, PushPublish
  <2>2. pc[c] \notin {"idle", "open", "attach", "unlink", "truncate"}
    BY <1>0, <1>5
    DEF Consume, RegTakeId, RegHead, RegTail, RegActivate, PopLoad, PopCopy,
      PopAdvance, DelConsumer, Goto,
      Push, PushHead, PushMin, ScanActive, ScanTail, ScanStore,
      PushRecheck, Refresh, RefreshStore, PushCas, PushCasFails, PushCopy, PushPublish
  <2>3. /\ pc'[c] \notin {"open", "truncate", "map", "new_members", "new_body",
                         "new_slots", "attach", "unlink"}
        /\ pc'[c] = "idle" \/ loc'[c].seg = loc[c].seg
    BY <1>0, <1>5, UserStays DEF Held
  <2>4. mem'[seg(c)].sized /\ name = seg(c)
    BY <1>0, <1>1, <1>2, <2>2 DEF Spares, NameHeld, M
  <2> QED
    BY <2>1, <2>3, <2>4 DEF NameHeld, BuildsFresh, seg, M
<1> QED
  BY <1>3, <1>4, <1>5 DEF Step

\* Held is inductive for one creator.
LEMMA HeldStep ==
  ASSUME OneCreator, Held, [Next]_vars
  PROVE  Held'
<1>1. CASE UNCHANGED vars
  <2>1. Typed'
    BY <1>1, TypedStep DEF Held
  <2> QED
    BY <1>1, <2>1 DEF vars, Held, NameHeld, BuildsFresh, seg, M
<1>2. ASSUME NEW p \in Procs, Step(p)
      PROVE  Held'
  <2>1. Typed'
    BY TypedStep DEF Held
  <2>2. /\ ShmTypeOK /\ OwnsStep(p) /\ Typed /\ made \in Nat /\ made' \in Nat
    BY <2>1, ShmAssumption DEF Held, Typed, StepsOwned, ShmTypeOK
  <2>3. /\ made <= made' /\ OthersStay(p) /\ Spares(p)
        /\ pc[p] # "new_slots" => built' = built
        /\ pc[p] = "new_slots" => built' \subseteq built \cup {seg(p)}
        /\ p \notin Creators => name' = name
    BY <1>2, <2>2, StepKeeps
  <2>4. pc[p] = "new_slots" => seg(p) \in 1 .. made /\ p \in Creators
    BY <2>2 DEF OwnsStep
  <2>5. built' \subseteq 1 .. made'
    <3>1. built \subseteq 1 .. made /\ 1 .. made \subseteq 1 .. made'
      BY <2>2, <2>3 DEF Held
    <3> QED
      BY <2>3, <2>4, <3>1
  <2>6. ASSUME NEW c \in Creators
        PROVE  NameHeld(c)' /\ BuildsFresh(c)'
    <3>1. CASE c = p
      BY <1>2, <3>1, CreatorStep
    <3>2. CASE c # p
      <4>1. p \notin Creators /\ c \in Procs
        BY <3>2, ShmAssumption DEF OneCreator, Procs
      <4>2. name' = name /\ built' = built /\ pc'[c] = pc[c] /\ loc'[c] = loc[c]
        BY <2>3, <2>4, <3>2, <4>1 DEF OthersStay
      <4>3. /\ NameHeld(c) /\ BuildsFresh(c) /\ OwnsStep(c)
        BY <4>1 DEF Held, Typed, StepsOwned
      <4>4. pc[c] \notin {"idle", "open", "attach", "unlink"} => seg(c) \in Segments
        BY <2>2, <4>1, <4>3, Own
      <4>5. pc[c] # "attach"
        BY <4>3 DEF OwnsStep
      <4>6. pc[c] \notin {"idle", "open", "unlink", "truncate"} => mem'[seg(c)].sized
        BY <2>3, <4>3, <4>4, <4>5 DEF Spares, NameHeld, M
      <4> QED
        BY <4>2, <4>3, <4>6 DEF NameHeld, BuildsFresh, seg, M
    <3> QED
      BY <3>1, <3>2
  <2> QED
    BY <2>1, <2>5, <2>6 DEF Held
<1> QED
  BY <1>1, <1>2 DEF Next, Step

\* No creator holds the name yet.
LEMMA HeldInit == Init => Held
<1> SUFFICES ASSUME Init PROVE Held
  OBVIOUS
<1>1. Typed
  BY TypedInit
<1>2. \A c \in Creators : pc[c] = "idle"
  BY ShmAssumption DEF Init, Procs
<1> QED
  BY <1>1, <1>2 DEF Init, Held, NameHeld, BuildsFresh

\* With one creator the name denotes its segment for as long as it uses it, and
\* no access of the creator faults (ShmQueueManager, constructor and destructor).
THEOREM ReachableForOneCreator ==
  ASSUME OneCreator
  PROVE  Spec => []SegmentReachable
<1>1. Init => Held
  BY HeldInit
<1>2. Held /\ [Next]_vars => Held'
  BY HeldStep
<1>3. Held => SegmentReachable
  BY DEF Held, NameHeld, SegmentReachable, InUse
<1> QED
  BY <1>1, <1>2, <1>3, PTL DEF Spec

-----------------------------------------------------------------------------
(***************************************************************************)
(* The entries of the consumers.                                           *)
(***************************************************************************)
\* A process with an id registered in a constructed segment, or the segment
\* counts as misused; the next id to be given is larger.
IdOwned(p) ==
  loc[p].id # NONE =>
    /\ p \in Poppers /\ loc[p].id \in Ids
    /\ seg(p) \in 1 .. made /\ seg(p) \in built \cup misused
    /\ pc[p] \in {"run", "reg_head", "reg_tail", "reg_active", "pop_copy",
       "pop_advance"}
    /\ seg(p) \notin misused => loc[p].id < M(p).num_consumers

\* What a consumer has stored in its entry, from step to step.
EntryKept(p) ==
  /\ loc[p].id = NONE => got[p] = <<>>
  /\ loc[p].id # NONE /\ seg(p) \notin misused =>
       /\ pc[p] \in {"reg_head", "reg_tail", "reg_active"} => got[p] = <<>>
       /\ pc[p] = "reg_tail" => loc[p].pos = loc[p].start
       /\ pc[p] = "reg_active" => M(p).tail[loc[p].id] = loc[p].start
       /\ pc[p] \in {"run", "pop_copy", "pop_advance"} =>
            M(p).active[loc[p].id] = TRUE
       /\ pc[p] \in {"run",
          "pop_copy"} => M(p).tail[loc[p].id] = loc[p].start + Len(got[p])
       /\ pc[p] = "pop_advance" => M(p).tail[loc[p].id] + 1 = loc[p].start + Len(got[p])
       /\ pc[p] \in {"pop_copy", "pop_advance"} => loc[p].pos = M(p).tail[loc[p].id]

IdsDiffer(p, q) ==
  /\ seg(p) = seg(q) /\ seg(p) \notin misused
  /\ loc[p].id # NONE /\ loc[q].id # NONE
  => loc[p].id # loc[q].id

Entries ==
  /\ Held
  /\ \A p \in Procs : IdOwned(p) /\ EntryKept(p)
  /\ \A p, q \in Procs : p # q => IdsDiffer(p, q)

\* What storing a tail changes.
LEMMA TailStored ==
  ASSUME ShmTypeOK, NEW s \in Segments, NEW i \in Ids, NEW v \in Nat,
         mem' = [mem EXCEPT ![s].tail[i] = v]
  PROVE  /\ mem'[s].tail[i] = v /\ mem'[s].active = mem[s].active
         /\ mem'[s].num_consumers = mem[s].num_consumers
BY DEF ShmTypeOK, Memory

\* Only RegTakeId gives an id; only PopCopy delivers.
LEMMA NoIdGiven ==
  ASSUME Typed, NEW p \in Procs, Construct(p) \/ Push(p)
  PROVE  loc'[p].id \in {NONE, loc[p].id} /\ got'[p] \in {<<>>, got[p]}
<1>0. ShmTypeOK
  BY DEF Typed
<1>1. ASSUME NEW n \in Nat \cup {NONE}
      PROVE  Forget(p, n)[p].id = loc[p].id
  BY <1>0, ForgetType, LocFields
<1>2. Leave(p) => loc'[p].id = NONE /\ got'[p] = <<>>
  BY <1>0, LeaveType DEF NoLocals
<1>3. CASE Create(p)
  BY <1>0, <1>3 DEF Create
<1>4. CASE OpenNew(p)
  BY <1>0, <1>4 DEF OpenNew, ShmTypeOK, Locals
<1>5. CASE Truncate(p)
  BY <1>0, <1>5 DEF Truncate
<1>6. CASE Attach(p)
  BY <1>0, <1>6 DEF Attach
<1>7. CASE OpenOld(p)
  BY <1>0, <1>7 DEF OpenOld, ShmTypeOK, Locals
<1>8. CASE AttachFails(p)
  BY <1>0, <1>2, <1>8 DEF AttachFails
<1>9. CASE MapSegment(p)
  BY <1>0, <1>9 DEF MapSegment
<1>10. CASE SystemCallFails(p)
  BY <1>0, <1>2, <1>10 DEF SystemCallFails
<1>11. CASE NewMembers(p)
  BY <1>0, <1>11 DEF NewMembers
<1>12. CASE NewBody(p)
  BY <1>0, <1>12 DEF NewBody
<1>13. CASE NewSlots(p)
  BY <1>0, <1>13 DEF NewSlots
<1>14. CASE PushHead(p)
  BY <1>0, <1>14 DEF PushHead, ShmTypeOK, Locals
<1>15. CASE PushMin(p)
  BY <1>0, <1>15 DEF PushMin, ShmTypeOK, Locals
<1>16. CASE ScanActive(p)
  BY <1>0, <1>16 DEF ScanActive, ShmTypeOK, Locals
<1>17. CASE ScanTail(p)
  BY <1>0, <1>17 DEF ScanTail, ShmTypeOK, Locals
<1>18. CASE ScanStore(p)
  BY <1>0, <1>18 DEF ScanStore, ShmTypeOK, Locals
<1>19. CASE PushRecheck(p)
  <2>1. OwnsStep(p) /\ pc[p] = "push_recheck"
    BY <1>19 DEF PushRecheck, Typed, StepsOwned
  <2>2. loc[p].pos \in Nat
    BY <2>1 DEF OwnsStep
  <2>3. (loc' = Forget(p, 0) \/ loc' = Forget(p, loc[p].pos)) /\ got' = got
    BY <1>19 DEF PushRecheck
  <2> QED
    BY <1>1, <2>2, <2>3
<1>20. CASE Refresh(p)
  BY <1>0, <1>1, <1>20 DEF Refresh
<1>21. CASE RefreshStore(p)
  BY <1>0, <1>1, <1>21 DEF RefreshStore
<1>22. CASE PushCas(p)
  BY <1>0, <1>22 DEF PushCas
<1>23. CASE PushCasFails(p)
  BY <1>0, <1>1, <1>23 DEF PushCasFails
<1>24. CASE PushCopy(p)
  BY <1>0, <1>24 DEF PushCopy
<1>25. CASE PushPublish(p)
  BY <1>0, <1>1, <1>25 DEF PushPublish
<1> QED
  BY <1>3, <1>4, <1>5, <1>6, <1>7, <1>8, <1>9, <1>10, <1>11, <1>12, <1>13, <1>14,
     <1>15, <1>16, <1>17, <1>18, <1>19, <1>20, <1>21, <1>22, <1>23, <1>24, <1>25
  DEF Construct, Push

\* A consumer's own steps.
LEMMA OwnEntryStep ==
  ASSUME Entries, NEW p \in Procs, Step(p)
  PROVE  /\ IdOwned(p)' /\ EntryKept(p)'
         /\ \/ loc'[p].id = NONE
            \/ loc'[p].id = loc[p].id /\ seg(p)' = seg(p)
            \/ /\ loc'[p].id = M(p).num_consumers /\ seg(p)' = seg(p)
               /\ seg(p) \in built \cup misused'
<1>0. /\ ShmTypeOK /\ Typed /\ OwnsStep(p) /\ IdOwned(p) /\ EntryKept(p)
  BY DEF Entries, Held, Typed, StepsOwned
<1>1. /\ ShmTypeOK' /\ made <= made' /\ misused \subseteq misused'
      /\ built \subseteq built'
      /\ OwnsStep(p)' /\ Spares(p) /\ made \in Nat /\ made' \in Nat
  <2>1. ShmTypeOK' /\ made <= made' /\ misused \subseteq misused' /\ built \subseteq built'
        /\ OwnsStep(p)' /\ Spares(p)
    BY <1>0, StepKeeps
  <2> QED
    BY <1>0, <2>1, ShmAssumption DEF ShmTypeOK
<1>2. pc[p] \notin {"idle", "open", "attach", "unlink"} =>
        /\ seg(p) \in Segments /\ seg(p) \in 1 .. made /\ seg(p) \in 1 .. made'
        /\ mem[seg(p)].num_consumers \in Nat /\ mem[seg(p)].tail \in [Ids -> Nat]
        /\ mem[seg(p)].head \in Nat
  BY <1>0, <1>1, Own
<1>3. ASSUME loc'[p].id = NONE, got'[p] = <<>>
      PROVE  IdOwned(p)' /\ EntryKept(p)'
  BY <1>3 DEF IdOwned, EntryKept
<1>4. CASE Construct(p) \/ Push(p)
  <2>1. loc[p].id = NONE
    BY <1>0, <1>4, ShmAssumption
    DEF IdOwned, Construct, Create, OpenNew, Truncate, Attach, OpenOld, AttachFails,
        MapSegment, SystemCallFails, NewMembers, NewBody, NewSlots, Goto,
        Push, PushHead, PushMin, ScanActive, ScanTail, ScanStore,
        PushRecheck, Refresh, RefreshStore, PushCas, PushCasFails, PushCopy, PushPublish
  <2>2. got[p] = <<>>
    BY <1>0, <2>1 DEF EntryKept
  <2> QED
    BY <1>0, <1>3, <1>4, <2>1, <2>2, NoIdGiven
<1>5. CASE Destruct(p)
  <2>1. CASE Leave(p)
    BY <1>0, <1>3, <2>1, LeaveType DEF NoLocals
  <2>2. CASE Unmap(p) /\ Unlinks(p)
    <3>1. loc' = [loc EXCEPT ![p] = NoLocals] /\ got' = [got EXCEPT ![p] = <<>>]
      BY <2>2 DEF Unmap
    <3>2. loc'[p].id = NONE /\ got'[p] = <<>>
      BY <1>0, <3>1 DEF NoLocals, ShmTypeOK
    <3> QED
      BY <1>3, <3>2
  <2>3. CASE UnlinkName(p)
    <3>1. loc' = loc /\ got' = got /\ pc[p] = "unlink"
      BY <2>3 DEF UnlinkName, Goto
    <3>2. loc[p].id = NONE
      BY <1>0, <3>1 DEF IdOwned
    <3> QED
      BY <1>0, <1>3, <3>1, <3>2 DEF EntryKept
  <2> QED
    BY <1>5, <2>1, <2>2, <2>3 DEF Destruct, Unmap, Crash, Sigbus
<1>6. CASE RegTakeId(p)
  <2>1. pc[p] = "run" /\ p \in Poppers /\ loc[p].id = NONE /\ got[p] = <<>>
    BY <1>0, <1>6 DEF RegTakeId, EntryKept
  <2>2. CASE ~IdsLeft(M(p).num_consumers)
    <3>1. Leave(p)
      BY <1>6, <2>2 DEF RegTakeId
    <3> QED
      BY <1>0, <1>3, <3>1, LeaveType DEF NoLocals
  <2>3. CASE IdsLeft(M(p).num_consumers)
    <3>1. /\ pc' = [pc EXCEPT ![p] = "reg_head"] /\ got' = got
          /\ loc' = [loc EXCEPT ![p].id = M(p).num_consumers]
          /\ mem' = [mem EXCEPT ![seg(p)].num_consumers = mem[seg(p)].num_consumers + 1]
          /\ Touch(p)
      BY <1>6, <2>3 DEF RegTakeId
    <3>2. M(p).num_consumers \in Ids
      BY <1>2, <2>1, <2>3, ShmAssumption DEF M, IdsLeft, Ids
    <3>3. loc'[p].id = M(p).num_consumers /\ loc'[p].seg = loc[p].seg
      BY <1>0, <3>1, <3>2, LocFields, SetId
    <3>4. pc'[p] = "reg_head"
      BY <1>0, <3>1 DEF ShmTypeOK
    <3>5. mem'[seg(p)].num_consumers = M(p).num_consumers + 1
      BY <1>0, <1>2, <2>1, <3>1 DEF ShmTypeOK, Memory, M
    <3>6. seg(p) \in built \cup misused'
      BY <3>1 DEF Touch
    <3>7. M(p).num_consumers # NONE
      BY <3>2, ShmAssumption DEF Ids
    <3>8. IdOwned(p)'
      BY <1>1, <1>2, <2>1, <3>2, <3>3, <3>4, <3>5, <3>6 DEF IdOwned, seg, M, Ids
    <3>9. EntryKept(p)'
      BY <2>1, <3>1, <3>3, <3>4, <3>7 DEF EntryKept
    <3> QED
      BY <3>3, <3>6, <3>8, <3>9 DEF seg
  <2> QED
    BY <2>2, <2>3
<1>7. CASE RegHead(p)
  <2>1. pc[p] = "reg_head" /\ pc'[p] = "reg_tail" /\ got' = got /\ mem' = mem
    BY <1>0, <1>7 DEF RegHead, Goto, ShmTypeOK
  <2>2. loc' = [loc EXCEPT ![p].pos = M(p).head, ![p].start = M(p).head]
    BY <1>7 DEF RegHead
  <2>3. /\ loc'[p].pos = M(p).head /\ loc'[p].start = M(p).head
        /\ loc'[p].seg = loc[p].seg /\ loc'[p].id = loc[p].id
    BY <1>0, <1>2, <2>1, <2>2, LocFields, SetStart DEF M
  <2>4. IdOwned(p)'
    BY <1>0, <1>1, <1>2, <2>1, <2>3 DEF IdOwned, seg, M
  <2>5. EntryKept(p)'
    BY <1>0, <1>1, <2>1, <2>3 DEF EntryKept, seg, M
  <2> QED
    BY <2>3, <2>4, <2>5 DEF seg
<1>8. CASE RegTail(p)
  <2>1. pc[p] = "reg_tail" /\ pc'[p] = "reg_active" /\ got' = got
    BY <1>0, <1>8 DEF RegTail, Goto, ShmTypeOK
  <2>2. /\ loc' = Forget(p, 0)
        /\ mem' = [mem EXCEPT ![seg(p)].tail[loc[p].id] = loc[p].pos]
    BY <1>8 DEF RegTail
  <2>3. loc[p].id \in Ids /\ loc[p].pos \in Nat
    BY <1>0, <2>1 DEF OwnsStep
  <2>4. /\ loc'[p].start = loc[p].start
        /\ loc'[p].seg = loc[p].seg /\ loc'[p].id = loc[p].id
    <3>1. 0 \in Nat \cup {NONE}
      OBVIOUS
    <3> QED
      BY <1>0, <2>2, <3>1, LocFields, ForgetType
  <2>5. /\ mem'[seg(p)].tail[loc[p].id] = loc[p].pos
        /\ mem'[seg(p)].num_consumers = mem[seg(p)].num_consumers
    <3>1. seg(p) \in Segments
      BY <1>2, <2>1
    <3> QED
      BY <1>0, <2>2, <2>3, <3>1, TailStored
  <2>6. IdOwned(p)'
    BY <1>0, <1>1, <1>2, <2>1, <2>4, <2>5 DEF IdOwned, seg, M
  <2>7. EntryKept(p)'
    BY <1>0, <1>1, <2>1, <2>4, <2>5 DEF EntryKept, seg, M
  <2> QED
    BY <2>4, <2>6, <2>7 DEF seg
<1>9. CASE RegActivate(p)
  <2>1. pc[p] = "reg_active" /\ pc'[p] = "run" /\ got' = got /\ loc' = loc
    BY <1>0, <1>9 DEF RegActivate, Goto, ShmTypeOK
  <2>2. mem' = [mem EXCEPT ![seg(p)].active[loc[p].id] = TRUE]
    BY <1>9 DEF RegActivate
  <2>3. loc[p].id \in Ids
    BY <1>0, <2>1 DEF OwnsStep
  <2>4. /\ mem'[seg(p)].active[loc[p].id] = TRUE
        /\ mem'[seg(p)].tail[loc[p].id] = mem[seg(p)].tail[loc[p].id]
    BY <1>0, <1>2, <2>1, <2>2, <2>3, ActiveSpares
  <2>5. IdOwned(p)'
    <3>1. /\ mem[seg(p)].num_consumers <= mem'[seg(p)].num_consumers
          /\ mem'[seg(p)].num_consumers \in Nat
      BY <1>1, <1>2, <2>1 DEF Spares, ShmTypeOK, Memory
    <3>2. loc[p].id \in Nat
      BY <2>3 DEF Ids
    <3>3. seg(p) \notin misused' => loc[p].id < mem'[seg(p)].num_consumers
      BY <1>0, <1>1, <1>2, <2>1, <2>3, <3>1, <3>2, ShmAssumption DEF IdOwned, M
    <3> QED
      BY <1>0, <1>1, <1>2, <2>1, <3>3 DEF IdOwned, seg, M
  <2>6. EntryKept(p)'
    <3>1. mem[seg(p)].tail[loc[p].id] \in Nat /\ loc[p].start \in Nat
      BY <1>0, <1>2, <2>1, <2>3, LocFields
    <3>2. Len(<<>>) = 0
      OBVIOUS
    <3>3. seg(p) \notin misused' /\ loc[p].id # NONE =>
            got[p] = <<>> /\ mem[seg(p)].tail[loc[p].id] = loc[p].start
      BY <1>0, <1>1, <2>1 DEF EntryKept, M
    <3>4. seg(p) \notin misused' /\ loc[p].id # NONE =>
            mem'[seg(p)].tail[loc[p].id] = loc[p].start + Len(got[p])
      BY <2>4, <3>1, <3>2, <3>3
    <3>5. loc[p].id = NONE => got[p] = <<>>
      BY <1>0 DEF EntryKept
    <3> QED
      BY <2>1, <2>4, <3>4, <3>5 DEF EntryKept, seg, M
  <2> QED
    BY <2>1, <2>5, <2>6 DEF seg
<1>10. CASE PopLoad(p)
  <2>1. pc[p] = "run" /\ pc'[p] = "pop_copy" /\ got' = got /\ mem' = mem /\ loc[p].id # NONE
    BY <1>0, <1>10 DEF PopLoad, Goto, ShmTypeOK
  <2>2. loc' = [loc EXCEPT ![p].pos = M(p).tail[loc[p].id]]
    BY <1>10 DEF PopLoad
  <2>3. M(p).tail[loc[p].id] \in Nat
    BY <1>0, <1>2, <2>1 DEF M, IdOwned
  <2>4. /\ loc'[p].pos = M(p).tail[loc[p].id] /\ loc'[p].start = loc[p].start
        /\ loc'[p].seg = loc[p].seg /\ loc'[p].id = loc[p].id
    BY <1>0, <2>2, <2>3, LocFields, SetPos
  <2>5. IdOwned(p)'
    BY <1>0, <1>1, <1>2, <2>1, <2>4 DEF IdOwned, seg, M
  <2>6. EntryKept(p)'
    BY <1>0, <1>1, <2>1, <2>4 DEF EntryKept, seg, M
  <2> QED
    BY <2>4, <2>5, <2>6 DEF seg
<1>11. CASE PopCopy(p)
  <2>1. pc[p] = "pop_copy" /\ pc'[p] = "pop_advance" /\ loc' = loc /\ mem' = mem
    BY <1>0, <1>11 DEF PopCopy, Goto, ShmTypeOK
  <2>2. loc[p].id \in Ids /\ loc[p].id # NONE
    BY <1>0, <2>1, ShmAssumption DEF OwnsStep, Ids
  <2>3. Len(got'[p]) = Len(got[p]) + 1 /\ Len(got[p]) \in Nat
    <3>1. got' = [got EXCEPT ![p] = Append(got[p], M(p).data[loc[p].pos % SIZE])]
      BY <1>11 DEF PopCopy
    <3>2. got[p] \in Seq(Nat) /\ got'[p] \in Seq(Nat)
      BY <1>0, <1>1 DEF ShmTypeOK
    <3>3. got'[p] = Append(got[p], M(p).data[loc[p].pos % SIZE])
      BY <1>0, <3>1 DEF ShmTypeOK
    <3> QED
      BY <3>2, <3>3
  <2>4. IdOwned(p)'
    BY <1>0, <1>1, <1>2, <2>1 DEF IdOwned, seg, M
  <2>5. M(p).tail[loc[p].id] \in Nat /\ loc[p].start \in Nat
    BY <1>0, <1>2, <2>1, <2>2, LocFields DEF M
  <2>6. seg(p) \notin misused =>
          M(p).active[loc[p].id] = TRUE /\ loc[p].pos = M(p).tail[loc[p].id]
    BY <1>0, <2>1, <2>2 DEF EntryKept
  <2>7. seg(p) \notin misused => M(p).tail[loc[p].id] + 1 = loc[p].start + Len(got'[p])
    <3> DEFINE behind == M(p).tail[loc[p].id]
               from == loc[p].start
               popped == Len(got[p])
    <3>1. seg(p) \notin misused => behind = from + popped
      BY <1>0, <2>1, <2>2 DEF EntryKept
    <3>2. behind \in Nat /\ from \in Nat /\ popped \in Nat /\ Len(got'[p]) = popped + 1
      BY <2>3, <2>5
    <3> HIDE DEF behind, from, popped
    <3>3. behind = from + popped => behind + 1 = from + (popped + 1)
      BY <3>2
    <3>4. seg(p) \notin misused => behind + 1 = from + Len(got'[p])
      BY <3>1, <3>2, <3>3
    <3> QED
      BY <3>4 DEF behind, from
  <2>8. EntryKept(p)'
    BY <1>1, <2>1, <2>2, <2>6, <2>7 DEF EntryKept, seg, M
  <2> QED
    BY <2>1, <2>4, <2>8 DEF seg
<1>12. CASE PopAdvance(p)
  <2>1. pc[p] = "pop_advance" /\ pc'[p] = "run" /\ got' = got
    BY <1>0, <1>12 DEF PopAdvance, Goto, ShmTypeOK
  <2>2. /\ loc' = Forget(p, 0)
        /\ mem' = [mem EXCEPT ![seg(p)].tail[loc[p].id] = loc[p].pos + 1]
    BY <1>12 DEF PopAdvance
  <2>3. loc[p].id \in Ids /\ loc[p].id # NONE /\ loc[p].pos \in Nat /\ loc[p].pos + 1 \in Nat
    BY <1>0, <2>1, ShmAssumption DEF OwnsStep, Ids
  <2>4. /\ loc'[p].start = loc[p].start
        /\ loc'[p].seg = loc[p].seg /\ loc'[p].id = loc[p].id
    <3>1. 0 \in Nat \cup {NONE}
      OBVIOUS
    <3> QED
      BY <1>0, <2>2, <3>1, LocFields, ForgetType
  <2>5. /\ mem'[seg(p)].tail[loc[p].id] = loc[p].pos + 1
        /\ mem'[seg(p)].active = mem[seg(p)].active
        /\ mem'[seg(p)].num_consumers = mem[seg(p)].num_consumers
    <3>1. seg(p) \in Segments
      BY <1>2, <2>1
    <3> QED
      BY <1>0, <2>2, <2>3, <3>1, TailStored
  <2>6. IdOwned(p)'
    BY <1>0, <1>1, <1>2, <2>1, <2>4, <2>5 DEF IdOwned, seg, M
  <2>7. seg(p) \notin misused =>
          /\ M(p).active[loc[p].id] = TRUE
          /\ loc[p].pos = M(p).tail[loc[p].id]
          /\ M(p).tail[loc[p].id] + 1 = loc[p].start + Len(got[p])
    BY <1>0, <2>1, <2>3 DEF EntryKept
  <2>8. seg(p) \notin misused => mem'[seg(p)].tail[loc[p].id] = loc[p].start + Len(got[p])
    BY <2>3, <2>5, <2>7
  <2>9. EntryKept(p)'
    BY <1>1, <2>1, <2>3, <2>4, <2>5, <2>7, <2>8 DEF EntryKept, seg, M
  <2> QED
    BY <2>4, <2>6, <2>9 DEF seg
<1>13. CASE DelConsumer(p)
  <2>1. Leave(p)
    BY <1>13 DEF DelConsumer
  <2> QED
    BY <1>0, <1>3, <2>1, LeaveType DEF NoLocals
<1> QED
  BY <1>4, <1>5, <1>6, <1>7, <1>8, <1>9, <1>10, <1>11, <1>12, <1>13 DEF Step, Consume

\* The others' steps leave a consumer's entry alone.
LEMMA OtherEntryStep ==
  ASSUME Entries, NEW p \in Procs, Step(p), NEW q \in Procs, q # p
  PROVE  IdOwned(q)' /\ EntryKept(q)'
<1>0. /\ ShmTypeOK /\ Typed /\ OwnsStep(p) /\ IdOwned(q) /\ EntryKept(q) /\ IdOwned(p)
      /\ IdsDiffer(p, q)
  BY DEF Entries, Held, Typed, StepsOwned
<1>1. /\ ShmTypeOK' /\ made <= made' /\ misused \subseteq misused'
      /\ built \subseteq built'
      /\ Spares(p) /\ made \in Nat /\ made' \in Nat
      /\ pc'[q] = pc[q] /\ loc'[q] = loc[q] /\ got'[q] = got[q]
  <2>1. ShmTypeOK' /\ made <= made' /\ misused \subseteq misused' /\ built \subseteq built'
        /\ OthersStay(p) /\ Spares(p)
    BY <1>0, StepKeeps
  <2> QED
    BY <1>0, <2>1, ShmAssumption DEF ShmTypeOK, OthersStay
<1>2. CASE loc[q].id = NONE
  BY <1>0, <1>1, <1>2 DEF IdOwned, EntryKept
<1>3. CASE loc[q].id # NONE
  <2>1. /\ loc[q].id \in Ids /\ loc[q].id \in Nat /\ seg(q) \in 1 .. made
        /\ seg(q) \in 1 .. made'
        /\ seg(q) \in Segments
    BY <1>0, <1>1, <1>3, ShmAssumption DEF IdOwned, Ids, ShmTypeOK, Segments
  <2>2. seg(q) \in built' \cup misused'
    BY <1>0, <1>1, <1>3 DEF IdOwned
  <2>3. CASE seg(q) \in misused'
    BY <1>0, <1>1, <1>3, <2>1, <2>3 DEF IdOwned, EntryKept, seg
  <2>4. CASE seg(q) \notin misused'
    <3>1. seg(q) \notin misused /\ seg(q) \in built
      BY <1>0, <1>1, <1>3, <2>4 DEF IdOwned
    <3>2. /\ mem[seg(q)].num_consumers <= mem'[seg(q)].num_consumers
          /\ mem'[seg(q)].tail[loc[q].id] = mem[seg(q)].tail[loc[q].id]
          /\ mem'[seg(q)].active[loc[q].id] = mem[seg(q)].active[loc[q].id]
      <4>1. CASE seg(p) # seg(q)
        <5>1. mem'[seg(q)] = mem[seg(q)]
          BY <1>1, <2>1, <4>1 DEF Spares
        <5>2. mem[seg(q)].num_consumers \in Nat
          BY <1>0, <2>1 DEF ShmTypeOK, Memory
        <5>3. mem[seg(q)].num_consumers <= mem'[seg(q)].num_consumers
          BY <5>1, <5>2
        <5>4. /\ mem'[seg(q)].tail[loc[q].id] = mem[seg(q)].tail[loc[q].id]
              /\ mem'[seg(q)].active[loc[q].id] = mem[seg(q)].active[loc[q].id]
          BY <5>1, Zenon
        <5> QED
          BY <5>3, <5>4
      <4>2. CASE seg(p) = seg(q)
        <5>1. pc[p] \in {"new_members", "new_body"} => p \in Creators
          BY <1>0 DEF OwnsStep
        <5>2. pc[p] \notin {"new_members", "new_body"}
          BY <3>1, <4>2, <5>1 DEF Entries, Held, BuildsFresh
        <5>3. loc[q].id # loc[p].id
          BY <1>0, <1>3, <3>1, <4>2 DEF IdsDiffer
        <5> QED
          BY <1>1, <2>1, <5>2, <5>3 DEF Spares
      <4> QED
        BY <4>1, <4>2
    <3>3. mem[seg(q)].num_consumers \in Nat /\ mem'[seg(q)].num_consumers \in Nat
      BY <1>0, <1>1, <2>1 DEF ShmTypeOK, Memory
    <3>4. loc[q].id < mem'[seg(q)].num_consumers
      BY <1>0, <1>3, <2>1, <3>1, <3>2, <3>3 DEF IdOwned, M
    <3>5. IdOwned(q)'
      BY <1>0, <1>1, <1>3, <2>1, <2>2, <3>4 DEF IdOwned, seg, M
    <3>6. EntryKept(q)'
      BY <1>0, <1>1, <1>3, <3>1, <3>2 DEF EntryKept, seg, M
    <3> QED
      BY <3>5, <3>6
  <2> QED
    BY <2>3, <2>4
<1> QED
  BY <1>2, <1>3

\* Entries is inductive for one creator.
LEMMA EntriesStep ==
  ASSUME OneCreator, Entries, [Next]_vars
  PROVE  Entries'
<1>0. Held'
  BY HeldStep DEF Entries
<1>1. CASE UNCHANGED vars
  BY <1>0, <1>1 DEF vars, Entries, IdOwned, EntryKept, IdsDiffer, seg, M
<1>2. ASSUME NEW p \in Procs, Step(p)
      PROVE  Entries'
  <2>1. ShmTypeOK /\ Typed /\ misused \subseteq misused' /\ OthersStay(p)
    BY <1>2, StepKeeps DEF Entries, Held, Typed
  <2>2. \A q \in Procs : IdOwned(q)' /\ EntryKept(q)'
    BY <1>2, OwnEntryStep, OtherEntryStep
  <2>3. ASSUME NEW q \in Procs, q # p
        PROVE  IdsDiffer(p, q)' /\ IdsDiffer(q, p)'
    <3>1. loc'[q] = loc[q]
      BY <2>1, <2>3 DEF OthersStay
    <3>2. IdsDiffer(p, q) /\ IdOwned(q) /\ ShmTypeOK
      BY <2>3 DEF Entries, Held, Typed
    <3>3. CASE loc'[p].id = NONE
      BY <3>3 DEF IdsDiffer
    <3>4. CASE loc'[p].id = loc[p].id /\ seg(p)' = seg(p)
      BY <2>1, <3>1, <3>2, <3>4 DEF IdsDiffer, seg
    <3>5. CASE loc'[p].id = M(p).num_consumers /\ seg(p)' = seg(p)
      <4>1. ASSUME loc[q].id # NONE, seg(p) = seg(q), seg(p) \notin misused'
            PROVE  loc[q].id # M(p).num_consumers
        <5>1. seg(q) \notin misused /\ loc[q].id < M(q).num_consumers /\ loc[q].id \in Ids
          BY <2>1, <3>2, <4>1 DEF IdOwned
        <5>2. M(q) = M(p)
          BY <4>1 DEF M
        <5>3. seg(q) \in Segments
          BY <2>1, <3>2, <4>1, ShmAssumption DEF IdOwned, Segments, ShmTypeOK
        <5>4. M(q).num_consumers \in Nat
          BY <2>1, <5>3 DEF M, ShmTypeOK, Memory
        <5> QED
          BY <5>1, <5>2, <5>4, ShmAssumption DEF Ids
      <4> QED
        BY <3>1, <3>5, <4>1 DEF IdsDiffer, seg
    <3> QED
      BY <1>2, <3>3, <3>4, <3>5, OwnEntryStep
  <2>4. ASSUME NEW q \in Procs, NEW r \in Procs, q # r
        PROVE  IdsDiffer(q, r)'
    <3>1. CASE q # p /\ r # p
      <4>1. IdsDiffer(q, r) /\ loc'[q] = loc[q] /\ loc'[r] = loc[r]
        BY <2>1, <2>4, <3>1 DEF Entries, OthersStay
      <4> QED
        BY <2>1, <4>1 DEF IdsDiffer, seg
    <3> QED
      BY <2>3, <2>4, <3>1
  <2> QED
    BY <1>0, <2>2, <2>4 DEF Entries
<1> QED
  BY <1>1, <1>2 DEF Next, Step

\* What a registered consumer stored in its entry stays until it changes it,
\* whichever processes use, leave or construct segments (reg_consumer, pop).
THEOREM CursorOwnForOneCreator ==
  ASSUME OneCreator
  PROVE  Spec => []CursorIsOwn
<1>1. Init => Entries
  BY HeldInit DEF Init, Entries, IdOwned, EntryKept, IdsDiffer, NoLocals
<1>2. Entries /\ [Next]_vars => Entries'
  BY EntriesStep
<1>3. Entries => CursorIsOwn
  <2> SUFFICES ASSUME Entries, NEW p \in Procs, Joined(p) /\ Sound(p)
               PROVE  /\ M(p).active[loc[p].id]
                      /\ M(p).tail[loc[p].id] =
                           loc[p].start + Len(got[p]) - (IF pc[p] = "pop_advance" THEN 1 ELSE 0)
    BY DEF CursorIsOwn
  <2>1. ShmTypeOK /\ IdOwned(p) /\ EntryKept(p) /\ loc[p].id # NONE /\ seg(p) \notin misused
        /\ pc[p] \in {"run", "pop_copy", "pop_advance"}
    BY DEF Entries, Held, Typed, Joined, Sound
  <2>2. M(p).tail[loc[p].id] \in Nat /\ loc[p].start \in Nat /\ Len(got[p]) \in Nat
    <3>1. seg(p) \in Segments /\ loc[p].id \in Ids
      BY <2>1, ShmAssumption DEF IdOwned, Segments, ShmTypeOK
    <3>2. got[p] \in Seq(Nat)
      BY <2>1 DEF ShmTypeOK
    <3>3. M(p).tail[loc[p].id] \in Nat
      BY <2>1, <3>1 DEF ShmTypeOK, Memory, M
    <3> QED
      BY <2>1, <3>2, <3>3, LocFields
  <2>3. M(p).active[loc[p].id]
    BY <2>1 DEF EntryKept
  <2>4. CASE pc[p] = "pop_advance"
    <3>1. M(p).tail[loc[p].id] + 1 = loc[p].start + Len(got[p])
      BY <2>1, <2>4 DEF EntryKept
    <3>2. M(p).tail[loc[p].id] = loc[p].start + Len(got[p]) - 1
      BY <2>2, <3>1
    <3> QED
      BY <2>3, <2>4, <3>2
  <2>5. CASE pc[p] # "pop_advance"
    <3>1. M(p).tail[loc[p].id] = loc[p].start + Len(got[p])
      BY <2>1, <2>5 DEF EntryKept
    <3>2. M(p).tail[loc[p].id] = loc[p].start + Len(got[p]) - 0
      BY <2>2, <3>1
    <3> QED
      BY <2>3, <2>5, <3>2
  <2> QED
    BY <2>4, <2>5
<1> QED
  BY <1>1, <1>2, <1>3, PTL DEF Spec

-----------------------------------------------------------------------------
(***************************************************************************)
(* The ring.  Written for segments that count as sound: constructed before *)
(* they were used, and joined while nobody was writing or scanning.        *)
(*                                                                         *)
(* Every value min_tail can have (it, a minimum being computed or about to *)
(* be stored, each tail) has only published positions below it, and no     *)
(* claim is a whole ring ahead of a claim or of a consumer's cursor.  The  *)
(* one place where these bounds could be lost is a scan; the hypothesis on *)
(* registrations is needed there and nowhere else but in reg_consumer.     *)
(***************************************************************************)
Good(s) == s \in built \ misused

Pushing(p) == pc[p] \in {"push_head", "push_min", "scan", "scan_tail", "push_recheck",
                         "refresh_store", "push_cas", "push_copy", "push_publish"}

\* p has a minimum in hand, complete or not.
Computing(p) == pc[p] \in {"scan", "scan_tail", "push_recheck", "refresh_store"}
Holding(p)   == pc[p] \in {"push_recheck", "refresh_store"}

\* p has found room for its position.
Claiming(p) == pc[p] = "push_cas" \/ Writing(p)

\* q will read all positions from its cursor on.
Enrolled(q) == Registering(q) \/ Joined(q)
Cursor(q)   == IF pc[q] = "reg_tail" THEN loc[q].pos ELSE M(q).tail[loc[q].id]

\* Whoever pushes does so in a constructed segment, or the segment counts as
\* misused, and a scan begins with nothing found.
PusherKept(p) ==
  /\ Pushing(p) => p \in Pushers /\ seg(p) \in built \cup misused
  /\ ~Computing(p) => loc[p].i = 0 /\ loc[p].mini = NONE

\* What the constructor has prepared stays until it has finished.
FreshKept(p) ==
  pc[p] \in {"new_body", "new_slots"} /\ seg(p) \notin misused =>
    /\ M(p).head = 0 /\ M(p).min_tail = 0
    /\ \A i \in Ids : M(p).tail[i] = 0

\* Minimum and tails are behind the head, and so is what the slots hold.
RingOK(s) ==
  /\ mem[s].min_tail <= mem[s].head
  /\ \A i \in Ids : mem[s].tail[i] <= mem[s].head
  /\ \A k \in Slots : mem[s].sequence[k] # NONE =>
       mem[s].sequence[k] < mem[s].head /\ mem[s].sequence[k] % SIZE = k

\* A process's position and minimum are behind the head; what it writes lies
\* above all tails, is not published, and the slots hold nothing newer.
ActorOK(p) ==
  /\ pc[p] \in {"push_min", "push_recheck", "push_cas", "reg_tail"} => loc[p].pos <= M(p).head
  /\ pc[p] \in {"scan", "scan_tail"} /\ loc[p].pos # NONE => loc[p].pos <= M(p).head
  /\ Computing(p) /\ loc[p].mini # NONE => loc[p].mini <= M(p).head
  /\ Writing(p) =>
       /\ loc[p].pos < M(p).head /\ M(p).min_tail <= loc[p].pos
       /\ \A i \in Ids : M(p).tail[i] <= loc[p].pos
       /\ \A k \in Slots : M(p).sequence[k] # NONE =>
            M(p).sequence[k] # loc[p].pos /\ M(p).sequence[k] < loc[p].pos + SIZE
  /\ pc[p] = "push_publish" => M(p).data[loc[p].pos % SIZE] = loc[p].pos + 1
  /\ pc[p] \in {"pop_copy", "pop_advance"} => loc[p].pos < M(p).head
  /\ pc[p] = "pop_copy" => M(p).data[loc[p].pos % SIZE] = loc[p].pos + 1

\* The cached minimum is behind a consumer, the slots hold the entries it has
\* yet to read, and what it has read is right.
ReaderOK(q) ==
  Enrolled(q) =>
    /\ M(q).min_tail <= Cursor(q)
    /\ \A k \in Slots : M(q).sequence[k] # NONE =>
         M(q).data[k] = M(q).sequence[k] + 1 \/ M(q).sequence[k] < Cursor(q)
    /\ \A n \in 1 .. Len(got[q]) : got[q][n] = loc[q].start + n

\* What one process means to another one on the same segment.
PairOK(p, q) ==
  /\ Writing(p) /\ Writing(q) => loc[p].pos # loc[q].pos
  /\ Claiming(p) /\ Writing(q) => loc[p].pos < loc[q].pos + SIZE
  /\ Claiming(p) /\ Enrolled(q) => loc[p].pos < Cursor(q) + SIZE
  /\ Computing(p) /\ loc[p].mini # NONE /\ Writing(q) => loc[p].mini <= loc[q].pos
  /\ Writing(p) /\ pc[q] = "reg_tail" => loc[q].pos <= loc[p].pos
  /\ Writing(p) /\ pc[q] \in {"pop_copy", "pop_advance"} => loc[p].pos # loc[q].pos
  /\ Holding(p) /\ Enrolled(q) => loc[p].mini <= Cursor(q)
  /\ ~(Scanning(p) /\ Registering(q))
  /\ Scanning(p) /\ Joined(q) /\ loc[q].id < loc[p].i =>
       loc[p].mini # NONE /\ loc[p].mini <= Cursor(q)

Ring ==
  /\ Entries
  /\ \A p \in Procs : PusherKept(p) /\ FreshKept(p)
  /\ \A s \in Segments : Good(s) => RingOK(s)
  /\ \A p \in Procs : Good(seg(p)) => ActorOK(p) /\ ReaderOK(p)
  /\ \A p, q \in Procs : p # q /\ seg(p) = seg(q) /\ Good(seg(p)) => PairOK(p, q)

\* The types of what a segment holds.
LEMMA MemFields ==
  ASSUME ShmTypeOK, NEW s \in Segments
  PROVE  /\ mem[s] \in Memory
         /\ mem[s].head \in Nat /\ mem[s].min_tail \in Nat
         /\ \A i \in Ids : mem[s].tail[i] \in Nat
         /\ \A k \in Slots : mem[s].sequence[k] \in Nat \cup {NONE} /\ mem[s].data[k] \in Nat
BY DEF ShmTypeOK, Memory

\* The ring of s is as it was.
RingKept(s) ==
  /\ mem'[s].head = mem[s].head /\ mem'[s].min_tail = mem[s].min_tail
  /\ mem'[s].tail = mem[s].tail
  /\ mem'[s].sequence = mem[s].sequence /\ mem'[s].data = mem[s].data

\* Storing a tail changes nothing else.
LEMMA TailAlone ==
  ASSUME ShmTypeOK, NEW s \in Segments, NEW i \in Ids, NEW v \in Nat,
         mem' = [mem EXCEPT ![s].tail[i] = v]
  PROVE  /\ mem'[s].tail[i] = v
         /\ \A j \in Ids \ {i} : mem'[s].tail[j] = mem[s].tail[j]
         /\ mem'[s].head = mem[s].head /\ mem'[s].min_tail = mem[s].min_tail
         /\ mem'[s].sequence = mem[s].sequence /\ mem'[s].data = mem[s].data
BY DEF ShmTypeOK, Memory

\* The same for min_tail.
LEMMA MinAlone ==
  ASSUME ShmTypeOK, NEW s \in Segments, NEW v \in Nat,
         mem' = [mem EXCEPT ![s].min_tail = v]
  PROVE  /\ mem'[s].min_tail = v /\ mem'[s].head = mem[s].head
         /\ mem'[s].tail = mem[s].tail
         /\ mem'[s].sequence = mem[s].sequence /\ mem'[s].data = mem[s].data
BY DEF ShmTypeOK, Memory

\* The same for the head.
LEMMA HeadAlone ==
  ASSUME ShmTypeOK, NEW s \in Segments,
         mem' = [mem EXCEPT ![s].head = @ + 1]
  PROVE  /\ mem'[s].head = mem[s].head + 1 /\ mem'[s].min_tail = mem[s].min_tail
         /\ mem'[s].tail = mem[s].tail
         /\ mem'[s].sequence = mem[s].sequence /\ mem'[s].data = mem[s].data
BY DEF ShmTypeOK, Memory

\* The same for an entry.
LEMMA DataAlone ==
  ASSUME ShmTypeOK, NEW s \in Segments, NEW k \in Slots, NEW v \in Nat,
         mem' = [mem EXCEPT ![s].data[k] = v]
  PROVE  /\ mem'[s].data[k] = v
         /\ \A j \in Slots \ {k} : mem'[s].data[j] = mem[s].data[j]
         /\ mem'[s].head = mem[s].head /\ mem'[s].min_tail = mem[s].min_tail
         /\ mem'[s].tail = mem[s].tail /\ mem'[s].sequence = mem[s].sequence
BY DEF ShmTypeOK, Memory

\* The same for a slot's sequence.
LEMMA SequenceAlone ==
  ASSUME ShmTypeOK, NEW s \in Segments, NEW k \in Slots, NEW v \in Nat,
         mem' = [mem EXCEPT ![s].sequence[k] = v]
  PROVE  /\ mem'[s].sequence[k] = v
         /\ \A j \in Slots \ {k} : mem'[s].sequence[j] = mem[s].sequence[j]
         /\ mem'[s].head = mem[s].head /\ mem'[s].min_tail = mem[s].min_tail
         /\ mem'[s].tail = mem[s].tail /\ mem'[s].data = mem[s].data
BY DEF ShmTypeOK, Memory

\* The steps that touch a ring.
Storing == {"new_members", "new_body", "new_slots", "reg_tail", "pop_advance", "scan",
            "push_recheck", "refresh_store", "push_cas", "push_copy", "push_publish"}

\* A process touches the ring of its own segment only, and with few steps.
LEMMA RingTouched ==
  ASSUME Typed, NEW p \in Procs, Step(p), NEW s \in Segments
  PROVE  RingKept(s) \/ (s = seg(p) /\ pc[p] \in Storing)
<1>1. ShmTypeOK /\ OwnsStep(p)
  BY DEF Typed, StepsOwned
<1>2. CASE mem'[s] = mem[s]
  BY <1>2, Zenon DEF RingKept
<1>3. CASE mem'[s] # mem[s] /\ pc[p] \in Storing
  <2>1. Spares(p)
    BY <1>1, StepKeeps
  <2> QED
    BY <1>3, <2>1 DEF Spares
<1>4. CASE mem' # mem /\ pc[p] \notin Storing
  <2>1. Truncate(p) \/ RegTakeId(p) \/ RegActivate(p) \/ DelConsumer(p)
    BY <1>4 DEF Step, Construct, Destruct, Consume, Push, Create, OpenNew, Attach, OpenOld,
       AttachFails, MapSegment, SystemCallFails, Unmap, UnlinkName, Crash, Sigbus,
       RegHead, PopLoad, PopCopy, PushHead, PushMin, ScanActive, ScanTail, Refresh,
       PushCasFails, Storing, Goto, NewMembers, NewBody, NewSlots, RegTail, PopAdvance,
       ScanStore, PushRecheck, RefreshStore, PushCas, PushCopy, PushPublish
  <2>2. seg(p) \in Segments
    BY <1>1, <2>1, Own DEF Truncate, RegTakeId, RegActivate, DelConsumer, Goto
  <2>3. \/ mem' = [mem EXCEPT ![seg(p)].sized = TRUE]
        \/ mem' = [mem EXCEPT ![seg(p)].num_consumers = @ + 1]
        \/ mem' = [mem EXCEPT ![seg(p)].active[loc[p].id] = TRUE]
        \/ mem' = [mem EXCEPT ![seg(p)].active[loc[p].id] = FALSE]
    BY <2>1 DEF Truncate, RegTakeId, RegActivate, DelConsumer
  <2> QED
    BY <1>1, <2>2, <2>3 DEF ShmTypeOK, Memory, RingKept
<1> QED
  BY <1>2, <1>3, <1>4

\* A process at rest: it takes part in no obligation.
Inert(p) ==
  /\ pc[p] \notin {"push_min", "scan", "scan_tail", "push_recheck", "refresh_store",
                   "push_cas", "push_copy", "push_publish", "reg_tail", "reg_active",
                   "pop_copy", "pop_advance"}
  /\ pc[p] = "run" => loc[p].id = NONE

\* The invariant as far as it speaks of p on the segment s.
Around(p, s) ==
  /\ RingOK(s) /\ ActorOK(p) /\ ReaderOK(p)
  /\ \A q \in Procs \ {p} : seg(q) = s =>
       ActorOK(q) /\ ReaderOK(q) /\ PairOK(p, q) /\ PairOK(q, p)

\* What no other process changes about q.
Unmoved(q) == pc'[q] = pc[q] /\ loc'[q] = loc[q] /\ got'[q] = got[q]

\* An inert process owes nothing to anybody.
LEMMA InertOwesNothing ==
  ASSUME NEW p \in Procs, Inert(p)
  PROVE  /\ ActorOK(p) /\ ReaderOK(p)
         /\ \A q \in Procs : PairOK(p, q) /\ PairOK(q, p)
BY DEF Inert, ActorOK, ReaderOK, PairOK, Writing, Computing, Holding, Claiming, Scanning,
       Enrolled, Registering, Joined

\* Nor does it after a step.
LEMMA InertOwesNothingNext ==
  ASSUME NEW p \in Procs, Inert(p)'
  PROVE  /\ ActorOK(p)' /\ ReaderOK(p)'
         /\ \A q \in Procs : PairOK(p, q)' /\ PairOK(q, p)'
BY DEF Inert, ActorOK, ReaderOK, PairOK, Writing, Computing, Holding, Claiming, Scanning,
       Enrolled, Registering, Joined

\* A process in a constructed segment, or one that pushes or reads.
LEMMA ActsInBuilt ==
  ASSUME Ring, NEW p \in Procs, ~Inert(p)
  PROVE  seg(p) \in built \cup misused
<1>1. OwnsStep(p) /\ IdOwned(p) /\ PusherKept(p)
  BY DEF Ring, Entries, Held, Typed, StepsOwned
<1> QED
  BY <1>1, ShmAssumption DEF Inert, OwnsStep, IdOwned, PusherKept, Pushing, Ids

\* A cursor is a tail of its owner's, or a copy of the head.
LEMMA CursorType ==
  ASSUME Ring, NEW q \in Procs, Enrolled(q)
  PROVE  /\ Cursor(q) \in Nat /\ loc[q].id \in Ids /\ loc[q].id # NONE
         /\ seg(q) \in Segments /\ q \in Poppers
<1>1. ShmTypeOK /\ OwnsStep(q) /\ IdOwned(q)
  BY DEF Ring, Entries, Held, Typed, StepsOwned
<1>2. q \in Poppers /\ loc[q].id \in Ids /\ loc[q].id # NONE
  BY <1>1, ShmAssumption, LocFields DEF Enrolled, Registering, Joined, OwnsStep, Ids
<1>3. seg(q) \in Segments
  BY <1>1, <1>2, ShmAssumption DEF IdOwned, ShmTypeOK, Segments
<1>4. M(q).tail[loc[q].id] \in Nat
  BY <1>1, <1>2, <1>3, MemFields DEF M
<1> QED
  BY <1>1, <1>2, <1>3, <1>4 DEF Cursor, OwnsStep

\* A step moves no other process's cursor.
LEMMA CursorsStay ==
  ASSUME Ring, NEW p \in Procs, Step(p), NEW q \in Procs, q # p, Enrolled(q),
         NEW s \in Segments, seg(q) = s, Good(s), Good(s)'
  PROVE  Cursor(q)' = Cursor(q)
<1>1. /\ ShmTypeOK /\ OwnsStep(p) /\ Typed /\ IdsDiffer(p, q)
  BY DEF Ring, Entries, Held, Typed, StepsOwned
<1>2. Spares(p) /\ Unmoved(q)
  BY <1>1, StepKeeps DEF OthersStay, Unmoved
<1>3. loc[q].id \in Ids /\ loc[q].id # NONE /\ seg(q) \in Segments
  BY CursorType
<1>4. mem'[seg(q)].tail[loc[q].id] = mem[seg(q)].tail[loc[q].id]
  <2>1. CASE seg(p) # seg(q)
    BY <1>2, <1>3, <2>1, Zenon DEF Spares
  <2>2. CASE seg(p) = seg(q)
    <3>1. pc[p] \in {"new_members", "new_body"} => p \in Creators
      BY <1>1 DEF OwnsStep
    <3>2. pc[p] \notin {"new_members", "new_body"}
      BY <2>2, <3>1 DEF Ring, Entries, Held, BuildsFresh, Good
    <3>3. loc[q].id # loc[p].id
      BY <1>1, <1>3, <2>2 DEF IdsDiffer, Good
    <3> QED
      BY <1>2, <1>3, <3>2, <3>3 DEF Spares
  <2> QED
    BY <2>1, <2>2
<1> QED
  BY <1>2, <1>4 DEF Cursor, M, seg, Unmoved

\* What a step of p in a good segment starts from.
LEMMA StepStarts ==
  ASSUME Ring, NEW p \in Procs, Step(p), NEW s \in Segments, seg(p) = s,
         Good(s), Good(s)'
  PROVE  /\ ShmTypeOK /\ ShmTypeOK'
         /\ OwnsStep(p) /\ IdOwned(p) /\ EntryKept(p) /\ PusherKept(p) /\ Around(p, s)
         /\ \A q \in Procs \ {p} :
              /\ Unmoved(q) /\ OwnsStep(q) /\ IdOwned(q) /\ EntryKept(q)
              /\ Enrolled(q) /\ seg(q) = s =>
                   Cursor(q)' = Cursor(q) /\ Cursor(q) \in Nat /\ q \in Poppers
<1>1. /\ ShmTypeOK /\ OwnsStep(p) /\ IdOwned(p) /\ EntryKept(p) /\ PusherKept(p)
      /\ Typed
  BY DEF Ring, Entries, Held, Typed, StepsOwned
<1>2. ShmTypeOK' /\ OthersStay(p)
  BY <1>1, StepKeeps
<1>3. Around(p, s)
  BY DEF Ring, Around
<1>4. ASSUME NEW q \in Procs \ {p}
      PROVE  /\ Unmoved(q) /\ OwnsStep(q) /\ IdOwned(q) /\ EntryKept(q)
             /\ Enrolled(q) /\ seg(q) = s =>
                  Cursor(q)' = Cursor(q) /\ Cursor(q) \in Nat /\ q \in Poppers
  <2>1. Unmoved(q) /\ OwnsStep(q) /\ IdOwned(q) /\ EntryKept(q)
    BY <1>2 DEF OthersStay, Unmoved, Ring, Entries, Held, Typed, StepsOwned
  <2>2. Enrolled(q) /\ seg(q) = s =>
          Cursor(q)' = Cursor(q) /\ Cursor(q) \in Nat /\ q \in Poppers
    BY CursorType, CursorsStay
  <2> QED
    BY <2>1, <2>2
<1> QED
  BY <1>1, <1>2, <1>3, <1>4

\* If the ring stays as it is, so do the obligations of the others.
LEMMA OthersKept ==
  ASSUME ShmTypeOK, NEW q \in Procs, NEW s \in Segments, seg(q) = s, Unmoved(q), RingKept(s),
         ActorOK(q), ReaderOK(q)
  PROVE  ActorOK(q)' /\ ReaderOK(q)'
<1>1. ActorOK(q)'
  BY DEF ActorOK, Unmoved, RingKept, M, seg, Writing, Computing
<1>2. ReaderOK(q)'
  BY DEF ReaderOK, Unmoved, RingKept, M, seg, Enrolled, Registering, Joined, Cursor
<1> QED
  BY <1>1, <1>2

\* A step that leaves the ring alone and its process inert.
LEMMA QuietStep ==
  ASSUME Ring, NEW p \in Procs, Step(p), NEW s \in Segments, seg(p) = s,
         Good(s), Good(s)', RingKept(s), Inert(p)'
  PROVE  Around(p, s)'
<1>1. /\ ShmTypeOK /\ Around(p, s) /\ \A q \in Procs \ {p} : Unmoved(q)
  BY StepStarts
<1>2. RingOK(s)'
  BY <1>1 DEF Around, RingOK, RingKept
<1>3. ASSUME NEW q \in Procs \ {p}, seg(q)' = s
      PROVE  ActorOK(q)' /\ ReaderOK(q)'
  <2>1. seg(q) = s
    BY <1>1, <1>3 DEF Unmoved, seg
  <2> QED
    BY <1>1, <2>1, OthersKept DEF Around
<1> QED
  BY <1>2, <1>3, InertOwesNothingNext DEF Around

\* At a consumer's step a process means nothing to those it shares a ring with,
\* as an actor.
LEMMA NotActing ==
  ASSUME NEW p \in Procs,
         pc'[p] \in {"reg_tail", "reg_active", "run", "pop_copy", "pop_advance"}
  PROVE  \A q \in Procs : PairOK(p, q)'
BY DEF PairOK, Writing, Computing, Holding, Claiming, Scanning

\* At a step before its claim a pusher means nothing to them as the one acted upon.
LEMMA NotReading ==
  ASSUME NEW p \in Procs,
         pc'[p] \in {"push_min", "scan", "scan_tail", "push_recheck", "refresh_store",
                     "push_cas", "push_copy", "push_publish"}
  PROVE  /\ ReaderOK(p)'
         /\ pc'[p] \notin {"push_copy", "push_publish"} => \A q \in Procs : PairOK(q, p)'
BY DEF ReaderOK, PairOK, Writing, Registering, Joined, Enrolled

\* Positions in the same slot are a whole ring apart.
LEMMA SlotApart ==
  ASSUME NEW a \in Nat, NEW b \in Nat, a % SIZE = b % SIZE, a # b, a < b + SIZE
  PROVE  a + SIZE <= b
<1> DEFINE m == a \div SIZE
           n == b \div SIZE
           r == a % SIZE
<1>1. SIZE \in Nat \ {0} /\ m \in Int /\ n \in Int /\ r \in Int
  BY ShmAssumption
<1>2. a = SIZE * m + r
  BY ShmAssumption
<1>3. b = SIZE * n + r
  BY ShmAssumption
<1> HIDE DEF m, n, r
<1>4. SIZE * (n - m) # 0 /\ SIZE * (n - m) > -SIZE
  BY <1>1, <1>2, <1>3
<1>5. n - m >= 1
  BY <1>1, <1>4
<1>6. SIZE * (n - m) >= SIZE
  BY <1>1, <1>5
<1> QED
  BY <1>1, <1>2, <1>3, <1>6

\* A consumer takes the head for its start.
LEMMA RegHeadRing ==
  ASSUME Ring, NEW p \in Procs, Step(p), NEW s \in Segments, seg(p) = s,
         Good(s), Good(s)', RegHead(p)
  PROVE  Around(p, s)'
<1>1. /\ ShmTypeOK /\ OwnsStep(p) /\ EntryKept(p) /\ Around(p, s)
      /\ \A q \in Procs \ {p} : Unmoved(q) /\ OwnsStep(q)
  BY StepStarts
<1>2. pc[p] = "reg_head" /\ pc'[p] = "reg_tail" /\ got' = got /\ mem' = mem
  BY <1>1 DEF RegHead, Goto, ShmTypeOK
<1>3. loc' = [loc EXCEPT ![p].pos = M(p).head, ![p].start = M(p).head]
  BY DEF RegHead
<1>4. loc'[p].pos = mem[s].head /\ loc'[p].seg = s /\ loc'[p].id = loc[p].id
  BY <1>1, <1>3, LocFields, SetStart, MemFields DEF M, seg
<1>5. \A q \in Procs : seg(q) = s => ~Writing(q) /\ ~Scanning(q)
  BY DEF RegHead, Good
<1>6. RingKept(s) /\ RingOK(s) /\ RingOK(s)'
  BY <1>1, <1>2, Zenon DEF RingKept, Around, RingOK
<1>7. mem[s].head \in Nat /\ mem[s].min_tail \in Nat
      /\ \A k \in Slots : mem[s].sequence[k] \in Nat \cup {NONE}
  BY <1>1, MemFields
<1>8. ActorOK(p)'
  BY <1>2, <1>4, <1>7 DEF ActorOK, Writing, Computing, M, seg
<1>9. ReaderOK(p)'
  <2>1. got'[p] = <<>>
    BY <1>1, <1>2, ShmAssumption DEF EntryKept, OwnsStep, Ids, Good
  <2> QED
    BY <1>2, <1>4, <1>6, <1>7, <2>1 DEF ReaderOK, RingOK, Enrolled, Cursor, M, seg
<1>10. ASSUME NEW q \in Procs \ {p}, seg(q)' = s
       PROVE  ActorOK(q)' /\ ReaderOK(q)' /\ PairOK(q, p)'
  <2>1. seg(q) = s /\ Unmoved(q) /\ OwnsStep(q) /\ ActorOK(q) /\ ReaderOK(q)
    BY <1>1, <1>10 DEF Unmoved, seg, Around
  <2>2. ActorOK(q)' /\ ReaderOK(q)'
    BY <1>1, <1>6, <2>1, OthersKept
  <2>3. ~Writing(q) /\ ~Scanning(q) /\ (pc[q] = "push_cas" => loc[q].pos \in Nat)
        /\ (Holding(q) => loc[q].mini \in Nat)
    BY <1>5, <2>1 DEF OwnsStep, Holding
  <2>4. pc[q] = "push_cas" => loc[q].pos <= mem[s].head
    BY <2>1 DEF ActorOK, M
  <2>5. Holding(q) => loc[q].mini <= mem[s].head
    BY <2>1, <2>3, ShmAssumption DEF ActorOK, M, Holding, Computing
  <2>6. Cursor(p)' = mem[s].head
    BY <1>2, <1>4 DEF Cursor
  <2>7. SIZE \in Nat \ {0}
    BY ShmAssumption
  <2>8. ~Writing(q)' /\ ~Scanning(q)' /\ loc'[q] = loc[q]
        /\ Holding(q)' = Holding(q) /\ (Claiming(q)' => pc[q] = "push_cas")
    BY <2>1, <2>3 DEF Unmoved, Writing, Scanning, Holding, Claiming
  <2>9. Claiming(q)' => loc[q].pos < mem[s].head + SIZE
    BY <1>7, <2>3, <2>4, <2>7, <2>8
  <2>10. ~Writing(p)'
    BY <1>2 DEF Writing
  <2> QED
    BY <1>2, <2>2, <2>5, <2>6, <2>8, <2>9, <2>10 DEF PairOK, Joined
<1> QED
  BY <1>2, <1>6, <1>8, <1>9, <1>10, NotActing DEF Around

\* A consumer whose cursor moves, if at all, forward.
LEMMA ReaderMoves ==
  ASSUME ShmTypeOK, NEW p \in Procs, NEW q \in Procs, Unmoved(q), OwnsStep(q), PairOK(q, p),
         pc'[p] \in {"reg_active", "run", "pop_copy", "pop_advance"},
         Enrolled(p), Cursor(p) \in Nat, Cursor(p)' \in Nat, Cursor(p) <= Cursor(p)',
         loc'[p].id = loc[p].id,
         Registering(p)' => Registering(p),
         Writing(q) /\ pc'[p] \in {"pop_copy", "pop_advance"} => loc[q].pos # loc'[p].pos
  PROVE  PairOK(q, p)'
<1>1. /\ Writing(q)' = Writing(q) /\ Claiming(q)' = Claiming(q) /\ Holding(q)' = Holding(q)
      /\ Scanning(q)' = Scanning(q) /\ loc'[q] = loc[q]
  BY DEF Unmoved, Writing, Claiming, Holding, Scanning
<1>2. ~Writing(p)' /\ pc'[p] # "reg_tail"
  BY DEF Writing
<1>3. /\ SIZE \in Nat /\ NONE \notin Nat /\ loc[q].mini \in Nat \cup {NONE}
      /\ Claiming(q) => loc[q].pos \in Nat
      /\ Holding(q) => loc[q].mini \in Nat
  BY ShmAssumption, LocFields DEF OwnsStep, Claiming, Writing, Holding
<1>4. /\ Claiming(q) => loc[q].pos < Cursor(p) + SIZE
      /\ Holding(q) => loc[q].mini <= Cursor(p)
  BY DEF PairOK
<1>5. Claiming(q) => loc[q].pos < Cursor(p)' + SIZE
  BY <1>3, <1>4
<1>6. Holding(q) => loc[q].mini <= Cursor(p)'
  BY <1>3, <1>4
<1>7. ~(Scanning(q) /\ Registering(p)')
  BY DEF PairOK
<1>8. Scanning(q) /\ Joined(p)' /\ loc[p].id < loc[q].i =>
        loc[q].mini # NONE /\ loc[q].mini <= Cursor(p)'
  <2>1. Scanning(q) => Joined(p)
    BY DEF PairOK, Enrolled
  <2>2. Scanning(q) /\ loc[p].id < loc[q].i => loc[q].mini # NONE /\ loc[q].mini <= Cursor(p)
    BY <2>1 DEF PairOK
  <2> QED
    BY <1>3, <2>2
<1> QED
  BY <1>1, <1>2, <1>5, <1>6, <1>7, <1>8 DEF PairOK

\* It stores the start as its tail.
LEMMA RegTailRing ==
  ASSUME Ring, NEW p \in Procs, Step(p), NEW s \in Segments, seg(p) = s,
         Good(s), Good(s)', RegTail(p)
  PROVE  Around(p, s)'
<1>1. /\ ShmTypeOK /\ OwnsStep(p) /\ EntryKept(p) /\ Around(p, s)
      /\ \A q \in Procs \ {p} : Unmoved(q) /\ OwnsStep(q)
  BY StepStarts
<1>2. pc[p] = "reg_tail" /\ pc'[p] = "reg_active" /\ got' = got
  BY <1>1 DEF RegTail, Goto, ShmTypeOK
<1>3. /\ loc' = Forget(p, 0)
      /\ mem' = [mem EXCEPT ![s].tail[loc[p].id] = loc[p].pos]
  BY DEF RegTail
<1>4. loc[p].id \in Ids /\ loc[p].pos \in Nat
  BY <1>1, <1>2 DEF OwnsStep
<1>5. loc'[p].seg = s /\ loc'[p].id = loc[p].id /\ loc'[p].start = loc[p].start
  <2>1. 0 \in Nat \cup {NONE}
    OBVIOUS
  <2> QED
    BY <1>1, <1>3, <2>1, LocFields, ForgetType DEF seg
<1>6. /\ mem'[s].tail[loc[p].id] = loc[p].pos
      /\ \A j \in Ids \ {loc[p].id} : mem'[s].tail[j] = mem[s].tail[j]
      /\ mem'[s].head = mem[s].head /\ mem'[s].min_tail = mem[s].min_tail
      /\ mem'[s].sequence = mem[s].sequence /\ mem'[s].data = mem[s].data
  BY <1>1, <1>3, <1>4, TailAlone
<1>7. loc[p].pos <= mem[s].head
  BY <1>1, <1>2 DEF Around, ActorOK, M
<1>8. RingOK(s)'
  BY <1>1, <1>6, <1>7 DEF Around, RingOK
<1>9. Enrolled(p) /\ Enrolled(p)' /\ Cursor(p) = loc[p].pos /\ Cursor(p)' = loc[p].pos
      /\ Registering(p)
  BY <1>2, <1>5, <1>6 DEF Enrolled, Registering, Cursor, M, seg
<1>10. ActorOK(p)'
  BY <1>2 DEF ActorOK, Writing, Computing
<1>11. ReaderOK(p)'
  BY <1>1, <1>2, <1>5, <1>6, <1>9 DEF ReaderOK, Around, M, seg
<1>12. ASSUME NEW q \in Procs \ {p}, seg(q)' = s
       PROVE  ActorOK(q)' /\ ReaderOK(q)' /\ PairOK(q, p)'
  <2>1. seg(q) = s /\ Unmoved(q) /\ OwnsStep(q) /\ ActorOK(q) /\ ReaderOK(q) /\ PairOK(q, p)
    BY <1>1, <1>12 DEF Unmoved, seg, Around
  <2>2. Writing(q) => loc[p].pos <= loc[q].pos
    BY <1>2, <2>1 DEF PairOK
  <2>3. ActorOK(q)'
    BY <1>6, <2>1, <2>2 DEF ActorOK, Unmoved, M, seg, Writing, Computing
  <2>4. Enrolled(q) => Cursor(q)' = Cursor(q)
    BY <2>1, StepStarts
  <2>5. ReaderOK(q)'
    BY <1>6, <2>1, <2>4 DEF ReaderOK, Unmoved, M, seg, Enrolled, Registering, Joined
  <2>6. Cursor(p)' \in Nat /\ Cursor(p) \in Nat /\ Cursor(p) <= Cursor(p)'
    BY <1>4, <1>9
  <2>7. PairOK(q, p)'
    BY <1>1, <1>2, <1>5, <1>9, <2>1, <2>6, ReaderMoves
  <2> QED
    BY <2>3, <2>5, <2>7
<1> QED
  BY <1>2, <1>8, <1>10, <1>11, <1>12, NotActing DEF Around

\* It becomes visible to scans.
LEMMA RegActivateRing ==
  ASSUME Ring, NEW p \in Procs, Step(p), NEW s \in Segments, seg(p) = s,
         Good(s), Good(s)', RegActivate(p)
  PROVE  Around(p, s)'
<1>1. /\ ShmTypeOK /\ OwnsStep(p) /\ EntryKept(p) /\ Around(p, s)
      /\ \A q \in Procs \ {p} : Unmoved(q) /\ OwnsStep(q)
  BY StepStarts
<1>2. pc[p] = "reg_active" /\ pc'[p] = "run" /\ got' = got /\ loc' = loc
  BY <1>1 DEF RegActivate, Goto, ShmTypeOK
<1>3. RingKept(s)
  BY <1>2, RingTouched DEF Storing, Ring, Entries, Held
<1>4. loc[p].id \in Ids
  BY <1>1, <1>2 DEF OwnsStep
<1>5. RingOK(s)'
  BY <1>1, <1>3 DEF Around, RingOK, RingKept
<1>6. Enrolled(p) /\ Cursor(p)' = Cursor(p) /\ Cursor(p) \in Nat
  <2>1. Enrolled(p)
    BY <1>2 DEF Enrolled, Registering
  <2>2. Cursor(p)' = Cursor(p)
    BY <1>2, <1>3 DEF Cursor, M, seg, RingKept
  <2> QED
    BY <2>1, <2>2, CursorType
<1>7. ActorOK(p)'
  BY <1>2 DEF ActorOK, Writing, Computing
<1>8. ReaderOK(p)'
  BY <1>1, <1>2, <1>3, <1>6 DEF ReaderOK, Around, M, seg, RingKept
<1>9. ASSUME NEW q \in Procs \ {p}, seg(q)' = s
      PROVE  ActorOK(q)' /\ ReaderOK(q)' /\ PairOK(q, p)'
  <2>1. seg(q) = s /\ Unmoved(q) /\ OwnsStep(q) /\ ActorOK(q) /\ ReaderOK(q) /\ PairOK(q, p)
    BY <1>1, <1>9 DEF Unmoved, seg, Around
  <2>2. ActorOK(q)' /\ ReaderOK(q)'
    BY <1>1, <1>3, <2>1, OthersKept
  <2>3. ~Registering(p)'
    BY <1>2 DEF Registering
  <2>4. Cursor(p)' \in Nat /\ Cursor(p) <= Cursor(p)'
    BY <1>6
  <2>5. PairOK(q, p)'
    BY <1>1, <1>2, <1>6, <2>1, <2>3, <2>4, ReaderMoves
  <2> QED
    BY <2>2, <2>5
<1> QED
  BY <1>2, <1>5, <1>7, <1>8, <1>9, NotActing DEF Around

\* It finds the entry at its tail published.
LEMMA PopLoadRing ==
  ASSUME Ring, NEW p \in Procs, Step(p), NEW s \in Segments, seg(p) = s,
         Good(s), Good(s)', PopLoad(p)
  PROVE  Around(p, s)'
<1> DEFINE t == mem[s].tail[loc[p].id]
<1>1. /\ ShmTypeOK /\ OwnsStep(p) /\ IdOwned(p) /\ EntryKept(p) /\ Around(p, s)
      /\ \A q \in Procs \ {p} : Unmoved(q) /\ OwnsStep(q)
  BY StepStarts
<1>2. pc[p] = "run" /\ pc'[p] = "pop_copy" /\ got' = got /\ mem' = mem
      /\ p \in Poppers /\ loc[p].id # NONE
  BY <1>1 DEF PopLoad, Goto, ShmTypeOK
<1>3. mem[s].sequence[t % SIZE] = t /\ loc' = [loc EXCEPT ![p].pos = t]
  BY DEF PopLoad, M
<1>4. loc[p].id \in Ids /\ t \in Nat /\ t % SIZE \in Slots
  BY <1>1, <1>2, SlotOf, MemFields DEF IdOwned
<1>5. loc'[p].pos = t /\ loc'[p].seg = s /\ loc'[p].id = loc[p].id
      /\ loc'[p].start = loc[p].start
  <2> HIDE DEF t
  <2> QED BY <1>1, <1>3, <1>4, LocFields, SetPos DEF seg
<1>6. RingKept(s) /\ RingOK(s) /\ RingOK(s)'
  BY <1>1, <1>2, Zenon DEF RingKept, Around, RingOK
<1>7. Enrolled(p) /\ Cursor(p) = t /\ Cursor(p)' = t
  BY <1>2, <1>5 DEF Enrolled, Joined, Cursor, M, seg
<1>8. t < mem[s].head
  BY <1>3, <1>4, <1>6, ShmAssumption DEF RingOK
<1>9. mem[s].data[t % SIZE] = t + 1
  <2>1. mem[s].data[t % SIZE] = mem[s].sequence[t % SIZE] + 1
         \/ mem[s].sequence[t % SIZE] < Cursor(p)
    BY <1>1, <1>3, <1>4, <1>7, ShmAssumption DEF ReaderOK, Around, M
  <2>2. mem[s].sequence[t % SIZE] = t /\ Cursor(p) = t
    BY <1>3, <1>7
  <2>3. ~(t < t)
    <3>1. t \in Nat
      BY <1>4
    <3> HIDE DEF t
    <3> QED
      BY <3>1
  <2> HIDE DEF t
  <2> QED
    BY <2>1, <2>2, <2>3
<1>10. ActorOK(p)'
  BY <1>2, <1>5, <1>8, <1>9 DEF ActorOK, Writing, Computing, M, seg
<1>11. ReaderOK(p)'
  BY <1>1, <1>2, <1>5, <1>7 DEF ReaderOK, Around, M, seg
<1>12. ASSUME NEW q \in Procs \ {p}, seg(q)' = s
       PROVE  ActorOK(q)' /\ ReaderOK(q)' /\ PairOK(q, p)'
  <2>1. seg(q) = s /\ Unmoved(q) /\ OwnsStep(q) /\ ActorOK(q) /\ ReaderOK(q) /\ PairOK(q, p)
    BY <1>1, <1>12 DEF Unmoved, seg, Around
  <2>2. ActorOK(q)' /\ ReaderOK(q)'
    BY <1>1, <1>6, <2>1, OthersKept
  <2>3. ~Registering(p)'
    BY <1>2 DEF Registering
  <2>4. Writing(q) => loc[q].pos # loc'[p].pos
    BY <1>3, <1>4, <1>5, <2>1, ShmAssumption DEF ActorOK, M
  <2>5. Cursor(p)' \in Nat /\ Cursor(p) \in Nat /\ Cursor(p) <= Cursor(p)'
    BY <1>4, <1>7
  <2>6. PairOK(q, p)'
    BY <1>1, <1>2, <1>5, <1>7, <2>1, <2>3, <2>4, <2>5, ReaderMoves
  <2> QED
    BY <2>2, <2>6
<1> QED
  BY <1>2, <1>6, <1>10, <1>11, <1>12, NotActing DEF Around

\* It copies the entry.
LEMMA PopCopyRing ==
  ASSUME Ring, NEW p \in Procs, Step(p), NEW s \in Segments, seg(p) = s,
         Good(s), Good(s)', PopCopy(p)
  PROVE  Around(p, s)'
<1> DEFINE n == loc[p].pos
           d == mem[s].data[n % SIZE]
<1>1. /\ ShmTypeOK /\ ShmTypeOK' /\ OwnsStep(p) /\ EntryKept(p) /\ Around(p, s)
      /\ \A q \in Procs \ {p} : Unmoved(q) /\ OwnsStep(q)
  BY StepStarts
<1>2. pc[p] = "pop_copy" /\ pc'[p] = "pop_advance" /\ loc' = loc /\ mem' = mem
  BY <1>1 DEF PopCopy, Goto, ShmTypeOK
<1>3. got'[p] = Append(got[p], d)
  BY <1>1 DEF PopCopy, ShmTypeOK, M
<1>4. p \in Poppers /\ loc[p].id \in Ids /\ loc[p].id # NONE /\ n \in Nat
  BY <1>1, <1>2, ShmAssumption DEF OwnsStep, Ids
<1>5. d = n + 1 /\ n < mem[s].head
  BY <1>1, <1>2 DEF Around, ActorOK, M
<1>6. n = loc[p].start + Len(got[p]) /\ n = mem[s].tail[loc[p].id]
  BY <1>1, <1>2, <1>4 DEF EntryKept, M, Good
<1>7. RingKept(s) /\ RingOK(s)'
  BY <1>1, <1>2, Zenon DEF RingKept, Around, RingOK
<1>8. Enrolled(p) /\ Cursor(p) = n /\ Cursor(p)' = n
  BY <1>2, <1>4, <1>6 DEF Enrolled, Joined, Cursor, M, seg
<1>9. \A j \in 1 .. Len(got'[p]) : got'[p][j] = loc[p].start + j
  <2>1. \A j \in 1 .. Len(got[p]) : got[p][j] = loc[p].start + j
    BY <1>1, <1>8 DEF ReaderOK, Around
  <2>2. got[p] \in Seq(Nat) /\ got'[p] \in Seq(Nat) /\ loc[p].start \in Nat
        /\ Len(got[p]) \in Nat
    BY <1>1, LocFields DEF ShmTypeOK
  <2>3. Len(got'[p]) = Len(got[p]) + 1 /\ got'[p][Len(got[p]) + 1] = d
        /\ \A j \in 1 .. Len(got[p]) : got'[p][j] = got[p][j]
    BY <1>3, <2>2
  <2>4. d = loc[p].start + (Len(got[p]) + 1)
    BY <1>4, <1>5, <1>6, <2>2
  <2> HIDE DEF d
  <2>5. ASSUME NEW j \in 1 .. Len(got'[p])
        PROVE  got'[p][j] = loc[p].start + j
    <3>1. j \in 1 .. Len(got[p]) \/ j = Len(got[p]) + 1
      BY <2>2, <2>3
    <3> QED
      BY <2>1, <2>3, <2>4, <3>1
  <2> QED
    BY <2>5
<1>10. ActorOK(p)'
  BY <1>2, <1>5 DEF ActorOK, Writing, Computing, M, seg
<1>11. ReaderOK(p)'
  BY <1>1, <1>2, <1>8, <1>9 DEF ReaderOK, Around, M, seg
<1>12. ASSUME NEW q \in Procs \ {p}, seg(q)' = s
       PROVE  ActorOK(q)' /\ ReaderOK(q)' /\ PairOK(q, p)'
  <2>1. seg(q) = s /\ Unmoved(q) /\ OwnsStep(q) /\ ActorOK(q) /\ ReaderOK(q) /\ PairOK(q, p)
    BY <1>1, <1>12 DEF Unmoved, seg, Around
  <2>2. ActorOK(q)' /\ ReaderOK(q)'
    BY <1>1, <1>7, <2>1, OthersKept
  <2>3. ~Registering(p)'
    BY <1>2 DEF Registering
  <2>4. Writing(q) => loc[q].pos # loc'[p].pos
    BY <1>2, <2>1 DEF PairOK
  <2>5. Cursor(p)' \in Nat /\ Cursor(p) \in Nat /\ Cursor(p) <= Cursor(p)'
    BY <1>4, <1>8
  <2>6. PairOK(q, p)'
    BY <1>1, <1>2, <1>8, <2>1, <2>3, <2>4, <2>5, ReaderMoves
  <2> QED
    BY <2>2, <2>6
<1> QED
  BY <1>2, <1>7, <1>10, <1>11, <1>12, NotActing DEF Around

\* It advances its tail past what it has read.
LEMMA PopAdvanceRing ==
  ASSUME Ring, NEW p \in Procs, Step(p), NEW s \in Segments, seg(p) = s,
         Good(s), Good(s)', PopAdvance(p)
  PROVE  Around(p, s)'
<1> DEFINE n == loc[p].pos
<1>1. /\ ShmTypeOK /\ OwnsStep(p) /\ EntryKept(p) /\ Around(p, s)
      /\ \A q \in Procs \ {p} : Unmoved(q) /\ OwnsStep(q)
  BY StepStarts
<1>2. pc[p] = "pop_advance" /\ pc'[p] = "run" /\ got' = got
  BY <1>1 DEF PopAdvance, Goto, ShmTypeOK
<1>3. /\ loc' = Forget(p, 0)
      /\ mem' = [mem EXCEPT ![s].tail[loc[p].id] = n + 1]
  BY DEF PopAdvance
<1>4. p \in Poppers /\ loc[p].id \in Ids /\ loc[p].id # NONE /\ n \in Nat
  BY <1>1, <1>2, ShmAssumption DEF OwnsStep, Ids
<1>5. loc'[p].seg = s /\ loc'[p].id = loc[p].id /\ loc'[p].start = loc[p].start
  <2>1. 0 \in Nat \cup {NONE}
    OBVIOUS
  <2> QED
    BY <1>1, <1>3, <2>1, LocFields, ForgetType DEF seg
<1>6. /\ mem'[s].tail[loc[p].id] = n + 1
      /\ \A j \in Ids \ {loc[p].id} : mem'[s].tail[j] = mem[s].tail[j]
      /\ mem'[s].head = mem[s].head /\ mem'[s].min_tail = mem[s].min_tail
      /\ mem'[s].sequence = mem[s].sequence /\ mem'[s].data = mem[s].data
  <2>1. n + 1 \in Nat
    BY <1>4
  <2> HIDE DEF n
  <2> QED BY <1>1, <1>3, <1>4, <2>1, TailAlone
<1>7. n < mem[s].head /\ n = mem[s].tail[loc[p].id]
  BY <1>1, <1>2, <1>4 DEF Around, ActorOK, M, EntryKept, Good
<1>8. /\ mem[s].head \in Nat /\ mem[s].min_tail \in Nat
      /\ \A k \in Slots : mem[s].sequence[k] \in Nat \cup {NONE}
  BY <1>1, MemFields
<1>9. RingOK(s)'
  BY <1>1, <1>4, <1>6, <1>7, <1>8 DEF Around, RingOK
<1>10. Enrolled(p) /\ Enrolled(p)' /\ Cursor(p) = n /\ Cursor(p)' = n + 1
  BY <1>2, <1>4, <1>5, <1>6, <1>7 DEF Enrolled, Joined, Cursor, M, seg
<1>11. ActorOK(p)'
  BY <1>2 DEF ActorOK, Writing, Computing
<1>12. ReaderOK(p)'
  <2>1. /\ mem[s].min_tail <= n
        /\ \A k \in Slots : mem[s].sequence[k] # NONE =>
             mem[s].data[k] = mem[s].sequence[k] + 1 \/ mem[s].sequence[k] < n
        /\ \A j \in 1 .. Len(got[p]) : got[p][j] = loc[p].start + j
    BY <1>1, <1>10 DEF ReaderOK, Around, M
  <2>2. /\ mem[s].min_tail <= n + 1
        /\ \A k \in Slots : mem[s].sequence[k] # NONE =>
             mem[s].data[k] = mem[s].sequence[k] + 1 \/ mem[s].sequence[k] < n + 1
    BY <1>4, <1>8, <2>1
  <2> QED
    BY <1>2, <1>5, <1>6, <1>10, <2>1, <2>2 DEF ReaderOK, M, seg
<1>13. ASSUME NEW q \in Procs \ {p}, seg(q)' = s
       PROVE  ActorOK(q)' /\ ReaderOK(q)' /\ PairOK(q, p)'
  <2>1. seg(q) = s /\ Unmoved(q) /\ OwnsStep(q) /\ ActorOK(q) /\ ReaderOK(q) /\ PairOK(q, p)
    BY <1>1, <1>13 DEF Unmoved, seg, Around
  <2>2. Writing(q) => n + 1 <= loc[q].pos
    <3>1. Writing(q) => n <= loc[q].pos /\ loc[q].pos # n /\ loc[q].pos \in Nat
      BY <1>2, <1>4, <1>7, <2>1 DEF PairOK, ActorOK, M, OwnsStep, Writing
    <3> QED
      BY <1>4, <3>1
  <2>3. ActorOK(q)'
    BY <1>6, <2>1, <2>2 DEF ActorOK, Unmoved, M, seg, Writing, Computing
  <2>4. Enrolled(q) => Cursor(q)' = Cursor(q)
    BY <2>1, StepStarts
  <2>5. ReaderOK(q)'
    BY <1>6, <2>1, <2>4 DEF ReaderOK, Unmoved, M, seg, Enrolled, Registering, Joined
  <2>6. Cursor(p)' \in Nat /\ Cursor(p) \in Nat /\ Cursor(p) <= Cursor(p)'
    BY <1>4, <1>10
  <2>7. ~Registering(p)'
    BY <1>2 DEF Registering
  <2>8. PairOK(q, p)'
    BY <1>1, <1>2, <1>5, <1>10, <2>1, <2>6, <2>7, ReaderMoves
  <2> QED
    BY <2>3, <2>5, <2>8
<1> QED
  BY <1>2, <1>9, <1>11, <1>12, <1>13, NotActing DEF Around

\* A push reads the head.
LEMMA PushHeadRing ==
  ASSUME Ring, NEW p \in Procs, Step(p), NEW s \in Segments, seg(p) = s,
         Good(s), Good(s)', PushHead(p)
  PROVE  Around(p, s)'
<1>1. /\ ShmTypeOK /\ Around(p, s) /\ \A q \in Procs \ {p} : Unmoved(q)
  BY StepStarts
<1>2. pc'[p] = "push_min" /\ got' = got /\ mem' = mem
      /\ loc' = [loc EXCEPT ![p].pos = mem[s].head]
  BY <1>1 DEF PushHead, ShmTypeOK, M
<1>3. mem[s].head \in Nat
  BY <1>1, MemFields
<1>4. loc'[p].pos = mem[s].head /\ loc'[p].seg = s
  BY <1>1, <1>2, <1>3, LocFields, SetPos DEF seg
<1>5. RingKept(s) /\ RingOK(s)'
  BY <1>1, <1>2, Zenon DEF RingKept, Around, RingOK
<1>6. ActorOK(p)'
  BY <1>2, <1>3, <1>4 DEF ActorOK, Writing, Computing, M, seg
<1>7. \A q \in Procs : PairOK(p, q)'
  BY <1>2 DEF PairOK, Writing, Computing, Holding, Claiming, Scanning
<1>8. ASSUME NEW q \in Procs \ {p}, seg(q)' = s
      PROVE  ActorOK(q)' /\ ReaderOK(q)'
  <2>1. seg(q) = s
    BY <1>1, <1>8 DEF Unmoved, seg
  <2> QED
    BY <1>1, <1>5, <2>1, OthersKept DEF Around
<1> QED
  BY <1>2, <1>5, <1>6, <1>7, <1>8, NotReading DEF Around

\* A scan begins, for push or for a refresh.
LEMMA StartScanRing ==
  ASSUME Ring, NEW p \in Procs, Step(p), NEW s \in Segments, seg(p) = s,
         Good(s), Good(s)', StartScan(p), mem' = mem,
         loc'[p].mini = NONE, loc'[p].i = 0, loc'[p].seg = s,
         loc'[p].pos # NONE => loc'[p].pos <= mem[s].head
  PROVE  Around(p, s)'
<1>1. /\ ShmTypeOK /\ Around(p, s)
      /\ \A q \in Procs \ {p} : Unmoved(q) /\ IdOwned(q)
  BY StepStarts
<1>2. pc'[p] = "scan"
  BY <1>1 DEF StartScan, ShmTypeOK
<1>3. \A q \in Procs : seg(q) = s => ~Registering(q)
  BY DEF StartScan, Good
<1>4. RingKept(s) /\ RingOK(s)'
  BY <1>1, Zenon DEF RingKept, Around, RingOK
<1>5. ActorOK(p)'
  BY <1>2 DEF ActorOK, Writing, Computing, M, seg
<1>6. ASSUME NEW q \in Procs \ {p}, seg(q)' = s
      PROVE  ActorOK(q)' /\ ReaderOK(q)' /\ PairOK(p, q)'
  <2>1. seg(q) = s /\ Unmoved(q) /\ ~Registering(q) /\ IdOwned(q)
    BY <1>1, <1>3, <1>6 DEF Unmoved, seg
  <2>2. ActorOK(q)' /\ ReaderOK(q)'
    BY <1>1, <1>4, <2>1, OthersKept DEF Around
  <2>3. ~Writing(p)' /\ ~Claiming(p)' /\ ~Holding(p)' /\ ~Registering(q)'
    BY <1>2, <2>1 DEF Writing, Claiming, Holding, Registering, Unmoved
  <2>4. Joined(q)' => ~(loc'[q].id < 0)
    BY <2>1, ShmAssumption DEF Joined, Unmoved, IdOwned, Ids
  <2> QED
    BY <2>2, <2>3, <2>4 DEF PairOK
<1> QED
  BY <1>2, <1>4, <1>5, <1>6, NotReading DEF Around

\* A push finds room below the cached minimum, or scans.
LEMMA PushMinRing ==
  ASSUME Ring, NEW p \in Procs, Step(p), NEW s \in Segments, seg(p) = s,
         Good(s), Good(s)', PushMin(p)
  PROVE  Around(p, s)'
<1>1. /\ ShmTypeOK /\ OwnsStep(p) /\ PusherKept(p) /\ Around(p, s)
      /\ \A q \in Procs \ {p} :
           /\ Unmoved(q) /\ OwnsStep(q)
           /\ Enrolled(q) /\ seg(q) = s => Cursor(q)' = Cursor(q) /\ Cursor(q) \in Nat
  BY StepStarts
<1>2. pc[p] = "push_min" /\ got' = got /\ mem' = mem
  BY DEF PushMin
<1>3. /\ mem[s].head \in Nat /\ mem[s].min_tail \in Nat /\ loc[p].pos \in Nat
      /\ loc[p].pos <= mem[s].head /\ loc[p].mini = NONE /\ loc[p].i = 0
  BY <1>1, <1>2, MemFields DEF OwnsStep, Around, ActorOK, PusherKept, Computing, M
<1>4. CASE Full(loc[p].pos, mem[s].min_tail)
  <2>1. StartScan(p) /\ loc' = [loc EXCEPT ![p].min = mem[s].min_tail]
    BY <1>4 DEF PushMin, M
  <2>2. /\ loc'[p].mini = NONE /\ loc'[p].i = 0 /\ loc'[p].seg = s
        /\ loc'[p].pos = loc[p].pos
    BY <1>1, <1>3, <2>1, LocFields, SetMin DEF seg
  <2> QED
    BY <1>2, <1>3, <2>1, <2>2, StartScanRing
<1>5. CASE ~Full(loc[p].pos, mem[s].min_tail)
  <2>1. pc'[p] = "push_cas" /\ loc' = loc
    BY <1>1, <1>5 DEF PushMin, ShmTypeOK, M
  <2>2. loc[p].pos < mem[s].min_tail + SIZE
    BY <1>3, <1>5, ShmAssumption DEF Full
  <2>3. RingKept(s) /\ RingOK(s)'
    BY <1>1, <1>2, Zenon DEF RingKept, Around, RingOK
  <2>4. ActorOK(p)'
    BY <1>2, <1>3, <2>1 DEF ActorOK, Writing, Computing, M, seg
  <2>5. ASSUME NEW q \in Procs \ {p}, seg(q)' = s
        PROVE  ActorOK(q)' /\ ReaderOK(q)' /\ PairOK(p, q)'
    <3>1. seg(q) = s /\ Unmoved(q) /\ OwnsStep(q) /\ ActorOK(q) /\ ReaderOK(q)
      BY <1>1, <2>5 DEF Unmoved, seg, Around
    <3>2. ActorOK(q)' /\ ReaderOK(q)'
      BY <1>1, <2>3, <3>1, OthersKept
    <3>3. Writing(q) => loc[p].pos < loc[q].pos + SIZE
      <4>1. Writing(q) => mem[s].min_tail <= loc[q].pos /\ loc[q].pos \in Nat
        BY <3>1 DEF ActorOK, M, OwnsStep, Writing
      <4> QED
        BY <1>3, <2>2, <4>1, ShmAssumption
    <3>4. Enrolled(q) => loc[p].pos < Cursor(q)' + SIZE
      <4>1. Enrolled(q) => /\ mem[s].min_tail <= Cursor(q) /\ Cursor(q) \in Nat
                           /\ Cursor(q)' = Cursor(q)
        BY <1>1, <3>1 DEF ReaderOK, M
      <4> QED
        BY <1>3, <2>2, <4>1, ShmAssumption
    <3>5. /\ Writing(q)' = Writing(q) /\ Enrolled(q)' = Enrolled(q) /\ loc'[q] = loc[q]
      BY <3>1 DEF Unmoved, Writing, Enrolled, Registering, Joined
    <3>6. ~Writing(p)' /\ ~Computing(p)' /\ ~Holding(p)' /\ ~Scanning(p)'
      BY <2>1 DEF Writing, Computing, Holding, Scanning
    <3> QED
      BY <2>1, <3>2, <3>3, <3>4, <3>5, <3>6 DEF PairOK
  <2> QED
    BY <2>1, <2>3, <2>4, <2>5, NotReading DEF Around
<1> QED
  BY <1>4, <1>5

\* A refresh begins.
LEMMA RefreshRing ==
  ASSUME Ring, NEW p \in Procs, Step(p), NEW s \in Segments, seg(p) = s,
         Good(s), Good(s)', Refresh(p)
  PROVE  Around(p, s)'
<1>1. ShmTypeOK
  BY StepStarts
<1>2. StartScan(p) /\ loc' = Forget(p, NONE) /\ mem' = mem
  BY DEF Refresh
<1>3. /\ loc'[p].mini = NONE /\ loc'[p].i = 0 /\ loc'[p].seg = s
      /\ loc'[p].pos = NONE
  <2>1. NONE \in Nat \cup {NONE}
    OBVIOUS
  <2> QED
    BY <1>1, <1>2, <2>1, LocFields, ForgetType DEF seg
<1> QED
  BY <1>2, <1>3, StartScanRing

\* A scan looks at the next consumer's flag.
LEMMA ScanActiveRing ==
  ASSUME Ring, NEW p \in Procs, Step(p), NEW s \in Segments, seg(p) = s,
         Good(s), Good(s)', ScanActive(p)
  PROVE  Around(p, s)'
<1>1. /\ ShmTypeOK /\ Around(p, s)
      /\ \A q \in Procs \ {p} :
           /\ Unmoved(q) /\ IdOwned(q) /\ EntryKept(q)
           /\ Enrolled(q) /\ seg(q) = s => Cursor(q)' = Cursor(q) /\ Cursor(q) \in Nat
  BY StepStarts
<1>2. pc[p] = "scan" /\ got' = got /\ mem' = mem /\ loc[p].i \in Nat
  BY <1>1, LocFields DEF ScanActive
<1>3. \/ pc'[p] = "scan_tail" /\ loc' = loc
      \/ /\ pc'[p] = "scan" /\ loc' = [loc EXCEPT ![p].i = loc[p].i + 1]
         /\ ~mem[s].active[loc[p].i]
  BY <1>1, <1>2 DEF ScanActive, ShmTypeOK, M
<1>4. /\ loc'[p].seg = s /\ loc'[p].mini = loc[p].mini /\ loc'[p].pos = loc[p].pos
      /\ \/ loc'[p].i = loc[p].i
         \/ loc'[p].i = loc[p].i + 1 /\ ~mem[s].active[loc[p].i]
  <2>1. CASE loc' = loc
    BY <2>1 DEF seg
  <2>2. CASE loc' = [loc EXCEPT ![p].i = loc[p].i + 1] /\ ~mem[s].active[loc[p].i]
    <3> DEFINE n == loc[p].i + 1
    <3>1. n \in Nat /\ loc' = [loc EXCEPT ![p].i = n]
      BY <1>2, <2>2
    <3> HIDE DEF n
    <3>2. /\ loc'[p].i = n /\ loc'[p].seg = loc[p].seg /\ loc'[p].mini = loc[p].mini
          /\ loc'[p].pos = loc[p].pos
      BY <1>1, <3>1, LocFields, SetI
    <3> QED
      BY <2>2, <3>2 DEF n, seg
  <2> QED
    BY <1>3, <2>1, <2>2
<1>5. RingKept(s) /\ RingOK(s)'
  BY <1>1, <1>2, Zenon DEF RingKept, Around, RingOK
<1>6. pc'[p] \in {"scan", "scan_tail"}
  BY <1>3
<1>7. ActorOK(p)'
  BY <1>1, <1>2, <1>4, <1>5, <1>6 DEF Around, ActorOK, Writing, Computing, M, seg, RingKept
<1>8. ASSUME NEW q \in Procs \ {p}, seg(q)' = s
      PROVE  ActorOK(q)' /\ ReaderOK(q)' /\ PairOK(p, q)'
  <2>1. /\ seg(q) = s /\ Unmoved(q) /\ IdOwned(q) /\ EntryKept(q)
        /\ ActorOK(q) /\ ReaderOK(q) /\ PairOK(p, q)
    BY <1>1, <1>8 DEF Unmoved, seg, Around
  <2>2. ActorOK(q)' /\ ReaderOK(q)'
    BY <1>1, <1>5, <2>1, OthersKept
  <2>3. /\ Writing(q)' = Writing(q) /\ Joined(q)' = Joined(q) /\ loc'[q] = loc[q]
        /\ Registering(q)' = Registering(q)
    BY <2>1 DEF Unmoved, Writing, Registering, Joined
  <2>4. ~Writing(p)' /\ ~Claiming(p)' /\ ~Holding(p)' /\ Computing(p) /\ Scanning(p)
    BY <1>2, <1>6 DEF Writing, Claiming, Holding, Computing, Scanning
  <2>5. Joined(q) => /\ mem[s].active[loc[q].id] /\ loc[q].id \in Nat /\ Cursor(q)' = Cursor(q)
    BY <1>1, <2>1, ShmAssumption DEF Joined, IdOwned, EntryKept, M, Ids, Enrolled, Good
  <2>6. Joined(q) /\ loc[q].id < loc'[p].i =>
          loc[p].mini # NONE /\ loc[p].mini <= Cursor(q)'
    <3>1. Joined(q) /\ loc[q].id < loc'[p].i => loc[q].id < loc[p].i
      BY <1>2, <1>4, <2>5
    <3> QED
      BY <2>1, <2>4, <2>5, <3>1 DEF PairOK
  <2> QED
    BY <1>4, <2>1, <2>2, <2>3, <2>4, <2>6 DEF PairOK
<1> QED
  BY <1>5, <1>6, <1>7, <1>8, NotReading DEF Around

\* The smaller of a tail and the minimum so far.
LEMMA SmallerBoth ==
  ASSUME NEW t \in Nat, NEW m \in Nat \cup {NONE}
  PROVE  /\ Smaller(t, m) \in Nat /\ Smaller(t, m) # NONE
         /\ Smaller(t, m) <= t
         /\ m # NONE => Smaller(t, m) <= m
         /\ Smaller(t, m) = t \/ (m # NONE /\ Smaller(t, m) = m)
BY ShmAssumption DEF Smaller

\* A scan reads a consumer's tail.
LEMMA ScanTailRing ==
  ASSUME Ring, NEW p \in Procs, Step(p), NEW s \in Segments, seg(p) = s,
         Good(s), Good(s)', ScanTail(p)
  PROVE  Around(p, s)'
<1> DEFINE i == loc[p].i
           t == mem[s].tail[i]
           m == Smaller(t, loc[p].mini)
<1>1. /\ ShmTypeOK /\ OwnsStep(p) /\ Around(p, s)
      /\ \A q \in Procs \ {p} :
           /\ Unmoved(q) /\ IdOwned(q) /\ OwnsStep(q)
           /\ Enrolled(q) /\ seg(q) = s => Cursor(q)' = Cursor(q) /\ Cursor(q) \in Nat
  BY StepStarts
<1>2. pc[p] = "scan_tail" /\ pc'[p] = "scan" /\ got' = got /\ mem' = mem
  BY <1>1 DEF ScanTail, Goto, ShmTypeOK
<1>3. i \in Ids /\ i \in Nat /\ t \in Nat /\ loc[p].mini \in Nat \cup {NONE}
      /\ mem[s].head \in Nat
  BY <1>1, <1>2, MemFields, LocFields DEF OwnsStep, Ids
<1>4. /\ m \in Nat /\ m # NONE /\ m <= t
      /\ loc[p].mini # NONE => m <= loc[p].mini
      /\ m = t \/ (loc[p].mini # NONE /\ m = loc[p].mini)
  BY <1>3, SmallerBoth
<1>5. loc' = [loc EXCEPT ![p].mini = m, ![p].i = i + 1]
  BY DEF ScanTail, M
<1> HIDE DEF i, t, m
<1>6. /\ loc'[p].seg = s /\ loc'[p].mini = m /\ loc'[p].pos = loc[p].pos
      /\ loc'[p].i = i + 1
  <2> DEFINE n == i + 1
  <2>1. n \in Nat /\ loc' = [loc EXCEPT ![p].mini = m, ![p].i = n]
    BY <1>3, <1>5
  <2> HIDE DEF n
  <2>2. /\ loc'[p].i = n /\ loc'[p].seg = loc[p].seg /\ loc'[p].mini = m
        /\ loc'[p].pos = loc[p].pos
    BY <1>1, <1>4, <2>1, LocFields DEF Locals
  <2> QED
    BY <2>2 DEF n, seg
<1>7. RingKept(s) /\ RingOK(s) /\ RingOK(s)'
  BY <1>1, <1>2, Zenon DEF RingKept, Around, RingOK
<1>8. t <= mem[s].head
  BY <1>3, <1>7 DEF RingOK, t
<1>9. ActorOK(p)'
  <2>1. loc[p].pos # NONE => loc[p].pos <= mem[s].head
    BY <1>1, <1>2 DEF Around, ActorOK, M
  <2>2. m <= mem[s].head
    BY <1>3, <1>4, <1>8
  <2> QED
    BY <1>2, <1>6, <2>1, <2>2 DEF ActorOK, Writing, Computing, M, seg
<1>10. ASSUME NEW q \in Procs \ {p}, seg(q)' = s
       PROVE  ActorOK(q)' /\ ReaderOK(q)' /\ PairOK(p, q)'
  <2>1. /\ seg(q) = s /\ Unmoved(q) /\ IdOwned(q) /\ OwnsStep(q)
        /\ ActorOK(q) /\ ReaderOK(q) /\ PairOK(p, q)
    BY <1>1, <1>10 DEF Unmoved, seg, Around
  <2>2. ActorOK(q)' /\ ReaderOK(q)'
    BY <1>1, <1>7, <2>1, OthersKept
  <2>3. /\ Writing(q)' = Writing(q) /\ Joined(q)' = Joined(q) /\ loc'[q] = loc[q]
        /\ Registering(q)' = Registering(q)
    BY <2>1 DEF Unmoved, Writing, Registering, Joined
  <2>4. ~Writing(p)' /\ ~Claiming(p)' /\ ~Holding(p)' /\ Computing(p) /\ Scanning(p)
    BY <1>2 DEF Writing, Claiming, Holding, Computing, Scanning
  <2>5. Writing(q) => m <= loc[q].pos
    <3>1. Writing(q) => t <= loc[q].pos /\ loc[q].pos \in Nat
      BY <1>3, <2>1 DEF ActorOK, M, t, OwnsStep, Writing
    <3> QED
      BY <1>3, <1>4, <3>1
  <2>6. Joined(q) => loc[q].id \in Nat /\ Cursor(q)' = Cursor(q) /\ Cursor(q) \in Nat
    BY <1>1, <2>1, ShmAssumption DEF Joined, IdOwned, Ids, Enrolled
  <2>7. Joined(q) /\ loc[q].id < i + 1 => m <= Cursor(q)'
    <3>1. CASE Joined(q) /\ loc[q].id < i
      <4>1. loc[p].mini # NONE /\ loc[p].mini <= Cursor(q)
        BY <2>1, <2>4, <3>1 DEF PairOK, i
      <4> QED
        BY <1>3, <1>4, <2>6, <3>1, <4>1
    <3>2. CASE Joined(q) /\ loc[q].id = i
      <4>1. Cursor(q) = t
        BY <2>1, <3>2 DEF Cursor, Joined, M, t
      <4> QED
        BY <1>4, <2>6, <3>2, <4>1
    <3> QED
      BY <1>3, <2>6, <3>1, <3>2
  <2>8. ~(Scanning(p)' /\ Registering(q)')
    BY <2>1, <2>3, <2>4 DEF PairOK
  <2> QED
    BY <1>4, <1>6, <2>2, <2>3, <2>4, <2>5, <2>7, <2>8 DEF PairOK
<1> QED
  BY <1>2, <1>7, <1>9, <1>10, NotReading DEF Around

\* The others after min_tail has been stored.
LEMMA MinStored ==
  ASSUME ShmTypeOK, NEW q \in Procs, NEW s \in Segments, seg(q) = s, Unmoved(q),
         NEW v \in Nat, mem'[s].min_tail = v,
         mem'[s].head = mem[s].head, mem'[s].tail = mem[s].tail,
         mem'[s].sequence = mem[s].sequence, mem'[s].data = mem[s].data,
         ActorOK(q), ReaderOK(q),
         Writing(q) => v <= loc[q].pos,
         Enrolled(q) => v <= Cursor(q) /\ Cursor(q)' = Cursor(q)
  PROVE  ActorOK(q)' /\ ReaderOK(q)'
<1>1. ActorOK(q)'
  BY DEF ActorOK, Unmoved, M, seg, Writing, Computing
<1>2. ReaderOK(q)'
  BY DEF ReaderOK, Unmoved, M, seg, Enrolled, Registering, Joined
<1> QED
  BY <1>1, <1>2

\* A scan ends and stores its minimum.
LEMMA ScanStoreRing ==
  ASSUME Ring, NEW p \in Procs, Step(p), NEW s \in Segments, seg(p) = s,
         Good(s), Good(s)', ScanStore(p)
  PROVE  Around(p, s)'
<1> DEFINE v == ScanResult(p)
<1>1. /\ ShmTypeOK /\ OwnsStep(p) /\ Around(p, s)
      /\ \A q \in Procs \ {p} :
           /\ Unmoved(q) /\ IdOwned(q) /\ OwnsStep(q)
           /\ Enrolled(q) /\ seg(q) = s => Cursor(q)' = Cursor(q) /\ Cursor(q) \in Nat
  BY StepStarts
<1>2. /\ pc[p] = "scan" /\ got' = got /\ loc[p].i = MAX_CONSUMERS
      /\ pc'[p] = IF loc[p].pos = NONE THEN "refresh_store" ELSE "push_recheck"
  BY <1>1 DEF ScanStore, Goto, ShmTypeOK
<1>3. /\ v \in Nat /\ mem[s].head \in Nat
      /\ v = 0 \/ (loc[p].mini # NONE /\ v = loc[p].mini)
  BY <1>1, MemFields, LocFields DEF ScanResult, NobodyActive
<1>4. mem' = [mem EXCEPT ![s].min_tail = v] /\ loc' = [loc EXCEPT ![p].mini = v]
  BY DEF ScanStore
<1>5. loc[p].mini # NONE => v = loc[p].mini
  BY DEF ScanResult
<1> HIDE DEF v
<1>6. loc'[p].seg = s /\ loc'[p].mini = v /\ loc'[p].pos = loc[p].pos
  BY <1>1, <1>3, <1>4, LocFields, SetMini DEF seg
<1>7. /\ mem'[s].min_tail = v /\ mem'[s].head = mem[s].head
      /\ mem'[s].tail = mem[s].tail
      /\ mem'[s].sequence = mem[s].sequence /\ mem'[s].data = mem[s].data
  BY <1>1, <1>3, <1>4, MinAlone
<1>8. v <= mem[s].head
  <2>1. loc[p].mini # NONE => loc[p].mini <= mem[s].head
    BY <1>1, <1>2 DEF Around, ActorOK, Computing, M
  <2> QED
    BY <1>3, <2>1
<1>9. RingOK(s)'
  BY <1>1, <1>7, <1>8 DEF Around, RingOK
<1>10. ActorOK(p)'
  <2>1. loc[p].pos # NONE => loc[p].pos <= mem[s].head
    BY <1>1, <1>2 DEF Around, ActorOK, M
  <2> QED
    BY <1>2, <1>6, <1>7, <1>8, <2>1 DEF ActorOK, Writing, Computing, M, seg
<1>11. ASSUME NEW q \in Procs \ {p}, seg(q)' = s
       PROVE  ActorOK(q)' /\ ReaderOK(q)' /\ PairOK(p, q)'
  <2>1. /\ seg(q) = s /\ Unmoved(q) /\ IdOwned(q) /\ OwnsStep(q)
        /\ ActorOK(q) /\ ReaderOK(q) /\ PairOK(p, q)
    BY <1>1, <1>11 DEF Unmoved, seg, Around
  <2>2. Computing(p) /\ Scanning(p)
    BY <1>2 DEF Computing, Scanning
  <2>3. Writing(q) => v <= loc[q].pos
    <3>1. Writing(q) => loc[q].pos \in Nat /\ (loc[p].mini # NONE => loc[p].mini <= loc[q].pos)
      BY <2>1, <2>2 DEF PairOK, Writing, OwnsStep
    <3> QED
      BY <1>3, <3>1
  <2>4. Enrolled(q) => v <= Cursor(q) /\ Cursor(q)' = Cursor(q)
    <3>1. Enrolled(q) => Joined(q) /\ Cursor(q)' = Cursor(q)
      BY <1>1, <2>1, <2>2 DEF Enrolled, PairOK
    <3>2. Joined(q) => loc[q].id < MAX_CONSUMERS
      BY <2>1, ShmAssumption DEF IdOwned, Joined, Ids
    <3>3. Joined(q) => loc[p].mini # NONE /\ loc[p].mini <= Cursor(q)
      BY <1>2, <2>1, <2>2, <3>2 DEF PairOK
    <3> QED
      BY <1>5, <3>1, <3>3
  <2>5. ActorOK(q)' /\ ReaderOK(q)'
    BY <1>1, <1>3, <1>7, <2>1, <2>3, <2>4, MinStored
  <2>6. /\ Writing(q)' = Writing(q) /\ Enrolled(q)' = Enrolled(q) /\ loc'[q] = loc[q]
    BY <2>1 DEF Unmoved, Writing, Enrolled, Registering, Joined
  <2>7. ~Writing(p)' /\ ~Claiming(p)' /\ ~Scanning(p)'
    BY <1>2 DEF Writing, Claiming, Scanning
  <2> QED
    BY <1>6, <2>3, <2>4, <2>5, <2>6, <2>7 DEF PairOK
<1> QED
  BY <1>2, <1>9, <1>10, <1>11, NotReading DEF Around

\* What a process that holds a finished minimum may store.
LEMMA MiniStored ==
  ASSUME Ring, NEW p \in Procs, Step(p), NEW s \in Segments, seg(p) = s,
         Good(s), Good(s)', Holding(p),
         mem' = mem \/ mem' = [mem EXCEPT ![s].min_tail = loc[p].mini]
  PROVE  /\ RingOK(s)'
         /\ mem'[s].head = mem[s].head
         /\ \A q \in Procs \ {p} : seg(q) = s => ActorOK(q)' /\ ReaderOK(q)'
<1>1. /\ ShmTypeOK /\ OwnsStep(p) /\ Around(p, s)
      /\ \A q \in Procs \ {p} :
           /\ Unmoved(q)
           /\ Enrolled(q) /\ seg(q) = s => Cursor(q)' = Cursor(q)
  BY StepStarts
<1>2. loc[p].mini \in Nat /\ loc[p].mini # NONE /\ Computing(p)
  BY <1>1, ShmAssumption DEF OwnsStep, Holding, Computing
<1>3. loc[p].mini <= mem[s].head
  BY <1>1, <1>2 DEF Around, ActorOK, M
<1>4. CASE mem' = mem
  <2>1. RingKept(s)
    BY <1>4, Zenon DEF RingKept
  <2>2. RingOK(s)'
    BY <1>1, <2>1 DEF Around, RingOK, RingKept
  <2>3. \A q \in Procs \ {p} : seg(q) = s => ActorOK(q)' /\ ReaderOK(q)'
    BY <1>1, <2>1, OthersKept DEF Around
  <2> QED
    BY <2>1, <2>2, <2>3 DEF RingKept
<1>5. CASE mem' = [mem EXCEPT ![s].min_tail = loc[p].mini]
  <2>1. /\ mem'[s].min_tail = loc[p].mini /\ mem'[s].head = mem[s].head
        /\ mem'[s].tail = mem[s].tail
        /\ mem'[s].sequence = mem[s].sequence /\ mem'[s].data = mem[s].data
    BY <1>1, <1>2, <1>5, MinAlone
  <2>2. RingOK(s)'
    BY <1>1, <1>3, <2>1 DEF Around, RingOK
  <2>3. ASSUME NEW q \in Procs \ {p}, seg(q) = s
        PROVE  ActorOK(q)' /\ ReaderOK(q)'
    <3>1. Unmoved(q) /\ ActorOK(q) /\ ReaderOK(q) /\ PairOK(p, q)
      BY <1>1, <2>3 DEF Around
    <3>2. Writing(q) => loc[p].mini <= loc[q].pos
      BY <1>2, <3>1 DEF PairOK
    <3>3. Enrolled(q) => loc[p].mini <= Cursor(q) /\ Cursor(q)' = Cursor(q)
      BY <1>1, <2>3, <3>1 DEF PairOK
    <3> QED
      BY <1>1, <1>2, <2>1, <2>3, <3>1, <3>2, <3>3, MinStored
  <2> QED
    BY <2>1, <2>2, <2>3
<1> QED
  BY <1>4, <1>5

\* A push has a fresh minimum: it stores it, and finds room or gives up.
LEMMA PushRecheckRing ==
  ASSUME Ring, NEW p \in Procs, Step(p), NEW s \in Segments, seg(p) = s,
         Good(s), Good(s)', PushRecheck(p)
  PROVE  Around(p, s)'
<1>1. /\ ShmTypeOK /\ OwnsStep(p) /\ IdOwned(p) /\ PusherKept(p) /\ Around(p, s)
      /\ \A q \in Procs \ {p} :
           /\ Unmoved(q) /\ OwnsStep(q)
           /\ Enrolled(q) /\ seg(q) = s => Cursor(q)' = Cursor(q) /\ Cursor(q) \in Nat
  BY StepStarts
<1>2. pc[p] = "push_recheck" /\ got' = got
  BY DEF PushRecheck
<1>3. Holding(p) /\ Computing(p) /\ loc[p].mini \in Nat /\ loc[p].mini # NONE
      /\ loc[p].pos \in Nat /\ loc[p].id = NONE
  BY <1>1, <1>2, ShmAssumption DEF Holding, Computing, OwnsStep, IdOwned
<1>4. /\ RingOK(s)' /\ mem'[s].head = mem[s].head
      /\ \A q \in Procs \ {p} : seg(q) = s => ActorOK(q)' /\ ReaderOK(q)'
  <2>1. mem' = mem \/ mem' = [mem EXCEPT ![s].min_tail = loc[p].mini]
    BY DEF PushRecheck
  <2> QED
    BY <1>3, <2>1, MiniStored
<1>5. ASSUME NEW q \in Procs \ {p}, seg(q)' = s
      PROVE  seg(q) = s /\ ActorOK(q)' /\ ReaderOK(q)'
  BY <1>1, <1>4, <1>5 DEF Unmoved, seg
<1>6. CASE Full(loc[p].pos, loc[p].mini)
  <2>1. pc'[p] = "run" /\ loc' = Forget(p, 0)
    BY <1>1, <1>6 DEF PushRecheck, ShmTypeOK
  <2>2. loc'[p].id = NONE
    <3>1. 0 \in Nat \cup {NONE}
      OBVIOUS
    <3> QED
      BY <1>1, <1>3, <2>1, <3>1, LocFields, ForgetType
  <2>3. Inert(p)'
    BY <2>1, <2>2 DEF Inert
  <2> QED
    BY <1>4, <1>5, <2>3, InertOwesNothingNext DEF Around
<1>7. CASE ~Full(loc[p].pos, loc[p].mini)
  <2>1. pc'[p] = "push_cas" /\ loc' = Forget(p, loc[p].pos)
    BY <1>1, <1>7 DEF PushRecheck, ShmTypeOK
  <2>2. loc'[p].pos = loc[p].pos /\ loc'[p].seg = s
    <3>1. loc[p].pos \in Nat \cup {NONE}
      BY <1>3
    <3> QED
      BY <1>1, <2>1, <3>1, LocFields, ForgetType DEF seg
  <2>3. loc[p].pos < loc[p].mini + SIZE
    BY <1>3, <1>7, ShmAssumption DEF Full
  <2>4. ActorOK(p)'
    <3>1. loc[p].pos <= mem[s].head
      BY <1>1, <1>2 DEF Around, ActorOK, M
    <3> QED
      BY <1>4, <2>1, <2>2, <3>1 DEF ActorOK, Writing, Computing, M, seg
  <2>5. ASSUME NEW q \in Procs \ {p}, seg(q)' = s
        PROVE  PairOK(p, q)'
    <3>1. seg(q) = s /\ Unmoved(q) /\ OwnsStep(q) /\ PairOK(p, q)
      BY <1>1, <1>5, <2>5 DEF Around
    <3>2. Writing(q) => loc[p].pos < loc[q].pos + SIZE
      <4>1. Writing(q) => loc[p].mini <= loc[q].pos /\ loc[q].pos \in Nat
        BY <1>3, <3>1 DEF PairOK, OwnsStep, Writing
      <4> QED
        BY <1>3, <2>3, <4>1, ShmAssumption
    <3>3. Enrolled(q) => loc[p].pos < Cursor(q)' + SIZE
      <4>1. Enrolled(q) => /\ loc[p].mini <= Cursor(q) /\ Cursor(q) \in Nat
                           /\ Cursor(q)' = Cursor(q)
        BY <1>1, <1>3, <3>1 DEF PairOK
      <4> QED
        BY <1>3, <2>3, <4>1, ShmAssumption
    <3>4. /\ Writing(q)' = Writing(q) /\ Enrolled(q)' = Enrolled(q) /\ loc'[q] = loc[q]
      BY <3>1 DEF Unmoved, Writing, Enrolled, Registering, Joined
    <3>5. ~Writing(p)' /\ ~Computing(p)' /\ ~Holding(p)' /\ ~Scanning(p)'
      BY <2>1 DEF Writing, Computing, Holding, Scanning
    <3> QED
      BY <2>2, <3>2, <3>3, <3>4, <3>5 DEF PairOK
  <2> QED
    BY <1>4, <1>5, <2>1, <2>4, <2>5, NotReading DEF Around
<1> QED
  BY <1>6, <1>7

\* A refresh stores the minimum once more.
LEMMA RefreshStoreRing ==
  ASSUME Ring, NEW p \in Procs, Step(p), NEW s \in Segments, seg(p) = s,
         Good(s), Good(s)', RefreshStore(p)
  PROVE  Around(p, s)'
<1>1. /\ ShmTypeOK /\ IdOwned(p) /\ \A q \in Procs \ {p} : Unmoved(q)
  BY StepStarts
<1>2. pc[p] = "refresh_store" /\ pc'[p] = "run" /\ loc' = Forget(p, 0)
      /\ mem' = [mem EXCEPT ![s].min_tail = loc[p].mini]
  BY <1>1 DEF RefreshStore, Goto, ShmTypeOK
<1>3. Holding(p) /\ loc[p].id = NONE
  BY <1>1, <1>2 DEF Holding, IdOwned
<1>4. /\ RingOK(s)'
      /\ \A q \in Procs \ {p} : seg(q) = s => ActorOK(q)' /\ ReaderOK(q)'
  BY <1>2, <1>3, MiniStored
<1>5. Inert(p)'
  <2>1. 0 \in Nat \cup {NONE}
    OBVIOUS
  <2>2. loc'[p].id = NONE
    BY <1>1, <1>2, <1>3, <2>1, LocFields, ForgetType
  <2> QED
    BY <1>2, <2>2 DEF Inert
<1>6. ASSUME NEW q \in Procs \ {p}, seg(q)' = s
      PROVE  ActorOK(q)' /\ ReaderOK(q)'
  BY <1>1, <1>4, <1>6 DEF Unmoved, seg
<1> QED
  BY <1>4, <1>5, <1>6, InertOwesNothingNext DEF Around

\* A push claims the position at the head.
LEMMA PushCasRing ==
  ASSUME Ring, NEW p \in Procs, Step(p), NEW s \in Segments, seg(p) = s,
         Good(s), Good(s)', PushCas(p)
  PROVE  Around(p, s)'
<1> DEFINE h == mem[s].head
<1>1. /\ ShmTypeOK /\ OwnsStep(p) /\ Around(p, s)
      /\ \A q \in Procs \ {p} :
           /\ Unmoved(q) /\ OwnsStep(q) /\ EntryKept(q)
           /\ Enrolled(q) /\ seg(q) = s => Cursor(q)' = Cursor(q) /\ Cursor(q) \in Nat
  BY StepStarts
<1>2. pc[p] = "push_cas" /\ pc'[p] = "push_copy" /\ loc' = loc /\ got' = got
      /\ loc[p].pos = h
  BY <1>1 DEF PushCas, Goto, ShmTypeOK, M
<1>3. /\ mem'[s].head = h + 1 /\ mem'[s].min_tail = mem[s].min_tail
      /\ mem'[s].tail = mem[s].tail
      /\ mem'[s].sequence = mem[s].sequence /\ mem'[s].data = mem[s].data
  <2>1. mem' = [mem EXCEPT ![s].head = @ + 1]
    BY DEF PushCas
  <2> QED
    BY <1>1, <2>1, HeadAlone
<1>4. /\ h \in Nat /\ mem[s].min_tail \in Nat
      /\ \A i \in Ids : mem[s].tail[i] \in Nat
      /\ \A k \in Slots : mem[s].sequence[k] \in Nat \cup {NONE}
      /\ SIZE \in Nat \ {0} /\ NONE \notin Nat
  BY <1>1, MemFields, ShmAssumption
<1>5. /\ mem[s].min_tail <= h /\ \A i \in Ids : mem[s].tail[i] <= h
      /\ \A k \in Slots : mem[s].sequence[k] # NONE =>
           mem[s].sequence[k] < h /\ mem[s].sequence[k] % SIZE = k
  BY <1>1 DEF Around, RingOK
<1> HIDE DEF h
<1>6. RingOK(s)'
  BY <1>3, <1>4, <1>5 DEF RingOK
<1>7. ActorOK(p)'
  <2>1. /\ h < h + 1 /\ \A k \in Slots : mem[s].sequence[k] # NONE =>
             mem[s].sequence[k] # h /\ mem[s].sequence[k] < h + SIZE
    BY <1>4, <1>5
  <2> QED
    BY <1>2, <1>3, <1>5, <2>1 DEF ActorOK, Computing, M, seg
<1>8. ASSUME NEW q \in Procs \ {p}, seg(q)' = s
      PROVE  ActorOK(q)' /\ ReaderOK(q)' /\ PairOK(p, q)' /\ PairOK(q, p)'
  <2>1. /\ seg(q) = s /\ Unmoved(q) /\ OwnsStep(q) /\ EntryKept(q)
        /\ ActorOK(q) /\ ReaderOK(q) /\ PairOK(p, q) /\ PairOK(q, p)
    BY <1>1, <1>8 DEF Unmoved, seg, Around
  <2>2. ActorOK(q)'
    <3>1. /\ pc[q] \in {"push_min", "push_recheck", "push_cas", "reg_tail"} =>
               loc[q].pos <= h + 1
          /\ pc[q] \in {"scan", "scan_tail"} /\ loc[q].pos # NONE => loc[q].pos <= h + 1
          /\ Computing(q) /\ loc[q].mini # NONE => loc[q].mini <= h + 1
          /\ Writing(q) => loc[q].pos < h + 1
          /\ pc[q] \in {"pop_copy", "pop_advance"} => loc[q].pos < h + 1
      BY <1>1, <1>4, <2>1, LocFields DEF ActorOK, OwnsStep, M, Writing, h
    <3> QED
      BY <1>3, <2>1, <3>1 DEF ActorOK, Unmoved, M, seg, Writing, Computing
  <2>3. Enrolled(q) => Cursor(q)' = Cursor(q) /\ Cursor(q) \in Nat
    BY <1>1, <2>1
  <2>4. ReaderOK(q)'
    BY <1>3, <2>1, <2>3 DEF ReaderOK, Unmoved, M, seg, Enrolled, Registering, Joined
  <2>5. /\ Writing(q)' = Writing(q) /\ Enrolled(q)' = Enrolled(q) /\ loc'[q] = loc[q]
        /\ Claiming(q)' = Claiming(q) /\ Computing(q)' = Computing(q) /\ pc'[q] = pc[q]
    BY <2>1 DEF Unmoved, Writing, Claiming, Computing, Enrolled, Registering, Joined
  <2>6. Claiming(p) /\ Writing(p)' /\ ~Computing(p)' /\ ~Holding(p)' /\ ~Scanning(p)'
        /\ ~Enrolled(p)' /\ pc'[p] = "push_copy" /\ ~Registering(p)' /\ ~Joined(p)'
    BY <1>2 DEF Claiming, Writing, Computing, Holding, Scanning, Enrolled, Registering, Joined
  <2>7. Writing(q) => h # loc[q].pos
    BY <1>4, <2>1 DEF ActorOK, M, h, OwnsStep, Writing
  <2>8. /\ Writing(q) => h < loc[q].pos + SIZE
        /\ Enrolled(q) => h < Cursor(q) + SIZE
    BY <1>2, <2>1, <2>6 DEF PairOK
  <2>9. pc[q] = "reg_tail" => loc[q].pos <= h
    BY <2>1 DEF ActorOK, M, h
  <2>10. pc[q] \in {"pop_copy", "pop_advance"} => loc[q].pos # h
    BY <1>4, <2>1 DEF ActorOK, M, h, OwnsStep
  <2>11. PairOK(p, q)'
    BY <1>2, <2>3, <2>5, <2>6, <2>7, <2>8, <2>9, <2>10 DEF PairOK
  <2>12. Claiming(q) => loc[q].pos < h + SIZE
    <3>1. Claiming(q) => loc[q].pos \in Nat /\ loc[q].pos <= h
      BY <1>4, <2>1 DEF ActorOK, M, h, OwnsStep, Claiming, Writing
    <3> QED
      BY <1>4, <3>1
  <2>13. Computing(q) /\ loc[q].mini # NONE => loc[q].mini <= h
    BY <2>1 DEF ActorOK, M, h
  <2>14. PairOK(q, p)'
    BY <1>2, <2>5, <2>6, <2>7, <2>12, <2>13 DEF PairOK
  <2> QED
    BY <2>2, <2>4, <2>11, <2>14
<1> QED
  BY <1>2, <1>6, <1>7, <1>8, NotReading DEF Around

\* A process that writes touches no slot another one is using.
LEMMA WriterAlone ==
  ASSUME Ring, NEW p \in Procs, NEW q \in Procs, p # q, seg(p) = seg(q), Good(seg(p)),
         Writing(p), Writing(q) \/ pc[q] = "pop_copy"
  PROVE  loc[p].pos % SIZE # loc[q].pos % SIZE
<1> DEFINE a == loc[p].pos
           b == loc[q].pos
<1>1. /\ ShmTypeOK /\ OwnsStep(p) /\ OwnsStep(q) /\ EntryKept(q) /\ IdOwned(q)
      /\ PairOK(p, q) /\ PairOK(q, p) /\ ActorOK(p)
  BY DEF Ring, Entries, Held, Typed, StepsOwned
<1>2. a \in Nat /\ b \in Nat /\ Claiming(p) /\ SIZE \in Nat \ {0}
  BY <1>1, ShmAssumption DEF OwnsStep, Writing, Claiming
<1>3. a # b
  BY <1>1 DEF PairOK
<1>4. a < b + SIZE /\ b < a + SIZE
  <2>1. CASE Writing(q)
    <3>1. Claiming(q)
      BY <2>1 DEF Claiming
    <3> QED
      BY <1>1, <1>2, <2>1, <3>1 DEF PairOK
  <2>2. CASE pc[q] = "pop_copy"
    <3>1. q \in Poppers /\ loc[q].id \in Ids /\ loc[q].id # NONE
      BY <1>1, <2>2, ShmAssumption DEF OwnsStep, Ids
    <3>2. Enrolled(q) /\ Cursor(q) = b
      BY <1>1, <2>2, <3>1 DEF Enrolled, Joined, Cursor, EntryKept, Good
    <3>3. a < b + SIZE
      BY <1>1, <1>2, <3>2 DEF PairOK
    <3>4. b <= a
      BY <1>1, <2>2, <3>1, <3>2 DEF ActorOK, Cursor, M
    <3> QED
      BY <1>2, <3>3, <3>4
  <2> QED
    BY <2>1, <2>2
<1> SUFFICES ASSUME a % SIZE = b % SIZE
             PROVE  FALSE
  OBVIOUS
<1>5. a + SIZE <= b
  BY <1>2, <1>3, <1>4, SlotApart
<1> QED
  BY <1>2, <1>4, <1>5

\* A push copies its entry.
LEMMA PushCopyRing ==
  ASSUME Ring, NEW p \in Procs, Step(p), NEW s \in Segments, seg(p) = s,
         Good(s), Good(s)', PushCopy(p)
  PROVE  Around(p, s)'
<1> DEFINE n == loc[p].pos
           k == n % SIZE
<1>1. /\ ShmTypeOK /\ OwnsStep(p) /\ Around(p, s)
      /\ \A q \in Procs \ {p} :
           /\ Unmoved(q) /\ OwnsStep(q)
           /\ Enrolled(q) /\ seg(q) = s => Cursor(q)' = Cursor(q) /\ Cursor(q) \in Nat
  BY StepStarts
<1>2. pc[p] = "push_copy" /\ pc'[p] = "push_publish" /\ loc' = loc /\ got' = got
  BY <1>1 DEF PushCopy, Goto, ShmTypeOK
<1>3. n \in Nat /\ n + 1 \in Nat /\ k \in Slots
  BY <1>1, <1>2, SlotOf DEF OwnsStep
<1>4. mem' = [mem EXCEPT ![s].data[k] = n + 1]
  BY DEF PushCopy
<1>5. /\ mem'[s].data[k] = n + 1
      /\ \A j \in Slots \ {k} : mem'[s].data[j] = mem[s].data[j]
      /\ mem'[s].head = mem[s].head /\ mem'[s].min_tail = mem[s].min_tail
      /\ mem'[s].tail = mem[s].tail /\ mem'[s].sequence = mem[s].sequence
  <2> DEFINE v == n + 1
  <2>1. v \in Nat /\ mem' = [mem EXCEPT ![s].data[k] = v]
    BY <1>3, <1>4
  <2> HIDE DEF v, k
  <2>2. /\ mem'[s].data[k] = v
        /\ \A j \in Slots \ {k} : mem'[s].data[j] = mem[s].data[j]
        /\ mem'[s].head = mem[s].head /\ mem'[s].min_tail = mem[s].min_tail
        /\ mem'[s].tail = mem[s].tail /\ mem'[s].sequence = mem[s].sequence
    BY <1>1, <1>3, <2>1, DataAlone
  <2> QED
    BY <2>2 DEF v
<1>6. Writing(p) /\ Claiming(p) /\ Writing(p)' /\ Claiming(p)'
  BY <1>2 DEF Writing, Claiming
<1>7. RingOK(s)'
  BY <1>1, <1>5 DEF Around, RingOK
<1>8. /\ n < mem[s].head /\ mem[s].min_tail <= n
      /\ \A i \in Ids : mem[s].tail[i] <= n
      /\ \A j \in Slots : mem[s].sequence[j] # NONE =>
           mem[s].sequence[j] # n /\ mem[s].sequence[j] < n + SIZE
  BY <1>1, <1>6 DEF Around, ActorOK, M
<1>9. ActorOK(p)'
  BY <1>2, <1>5, <1>8 DEF ActorOK, Computing, M, seg
<1>10. ASSUME NEW q \in Procs \ {p}, seg(q)' = s
       PROVE  ActorOK(q)' /\ ReaderOK(q)' /\ PairOK(p, q)' /\ PairOK(q, p)'
  <2>1. /\ seg(q) = s /\ Unmoved(q) /\ OwnsStep(q)
        /\ ActorOK(q) /\ ReaderOK(q) /\ PairOK(p, q) /\ PairOK(q, p)
    BY <1>1, <1>10 DEF Unmoved, seg, Around
  <2>2. pc[q] \in {"push_publish", "pop_copy"} =>
          /\ loc[q].pos % SIZE \in Slots /\ loc[q].pos % SIZE # k
    BY <1>6, <2>1, WriterAlone, SlotOf DEF Writing, OwnsStep
  <2>3. pc[q] \in {"push_publish", "pop_copy"} =>
          mem'[s].data[loc[q].pos % SIZE] = loc[q].pos + 1
    <3>1. pc[q] \in {"push_publish", "pop_copy"} =>
            mem[s].data[loc[q].pos % SIZE] = loc[q].pos + 1
      BY <2>1 DEF ActorOK, M
    <3> HIDE DEF k
    <3> QED
      BY <1>5, <2>2, <3>1
  <2>4. ActorOK(q)'
    BY <1>5, <2>1, <2>3 DEF ActorOK, Unmoved, M, seg, Writing, Computing
  <2>5. Enrolled(q) => Cursor(q)' = Cursor(q) /\ Cursor(q) \in Nat
    BY <1>1, <2>1
  <2>6. Enrolled(q) /\ mem[s].sequence[k] # NONE => mem[s].sequence[k] < Cursor(q)
    <3>1. SUFFICES ASSUME Enrolled(q), mem[s].sequence[k] # NONE
                   PROVE  mem[s].sequence[k] < Cursor(q)
      OBVIOUS
    <3>2. mem[s].sequence[k] \in Nat /\ SIZE \in Nat \ {0}
      BY <1>1, <1>3, <3>1, MemFields, ShmAssumption
    <3>3. mem[s].sequence[k] % SIZE = k
      BY <1>1, <1>3, <3>1 DEF Around, RingOK
    <3>4. mem[s].sequence[k] + SIZE <= n
      <4>1. mem[s].sequence[k] # n /\ mem[s].sequence[k] < n + SIZE
        BY <1>3, <1>8, <3>1
      <4> QED
        BY <1>3, <3>2, <3>3, <4>1, SlotApart
    <3>5. n < Cursor(q) + SIZE /\ Cursor(q) \in Nat
      BY <1>6, <2>1, <2>5, <3>1 DEF PairOK
    <3> QED
      BY <1>3, <3>2, <3>4, <3>5
  <2>7. ReaderOK(q)'
    <3>1. ASSUME Enrolled(q), NEW j \in Slots, mem[s].sequence[j] # NONE
          PROVE  \/ mem'[s].data[j] = mem[s].sequence[j] + 1
                 \/ mem[s].sequence[j] < Cursor(q)
      <4>1. \/ mem[s].data[j] = mem[s].sequence[j] + 1
            \/ mem[s].sequence[j] < Cursor(q)
        BY <2>1, <3>1 DEF ReaderOK, M
      <4> HIDE DEF k
      <4> QED
        BY <1>5, <2>6, <3>1, <4>1
    <3> SUFFICES ASSUME Enrolled(q)'
                 PROVE  ReaderOK(q)'
      BY DEF ReaderOK
    <3>2. Enrolled(q)
      BY <2>1 DEF Unmoved, Enrolled, Registering, Joined
    <3>3. M(q) = mem[s] /\ M(q)' = mem'[s] /\ got'[q] = got[q] /\ loc'[q].start = loc[q].start
      BY <2>1 DEF M, Unmoved, seg
    <3>4. /\ mem[s].min_tail <= Cursor(q)
          /\ \A i \in 1 .. Len(got[q]) : got[q][i] = loc[q].start + i
      BY <2>1, <3>2, <3>3 DEF ReaderOK
    <3>5. \A j \in Slots : mem'[s].sequence[j] # NONE =>
            mem'[s].data[j] = mem'[s].sequence[j] + 1 \/ mem'[s].sequence[j] < Cursor(q)
      BY <1>5, <3>1, <3>2
    <3>6. mem'[s].min_tail = mem[s].min_tail /\ Cursor(q)' = Cursor(q)
      BY <1>5, <2>5, <3>2
    <3> QED
      BY <3>3, <3>4, <3>5, <3>6 DEF ReaderOK
  <2>8. /\ Writing(q)' = Writing(q) /\ Enrolled(q)' = Enrolled(q) /\ loc'[q] = loc[q]
        /\ Claiming(q)' = Claiming(q) /\ Computing(q)' = Computing(q) /\ pc'[q] = pc[q]
    BY <2>1 DEF Unmoved, Writing, Claiming, Computing, Enrolled, Registering, Joined
  <2>9. ~Computing(p)' /\ ~Holding(p)' /\ ~Scanning(p)'
        /\ ~Enrolled(p)' /\ pc'[p] = "push_publish" /\ ~Registering(p)' /\ ~Joined(p)'
    BY <1>2 DEF Computing, Holding, Scanning, Enrolled, Registering, Joined
  <2>10. PairOK(p, q)'
    BY <1>2, <1>6, <2>1, <2>5, <2>8, <2>9 DEF PairOK
  <2>11. PairOK(q, p)'
    BY <1>2, <1>6, <2>1, <2>8, <2>9 DEF PairOK
  <2> QED
    BY <2>4, <2>7, <2>10, <2>11
<1> QED
  BY <1>2, <1>7, <1>9, <1>10, NotReading DEF Around

\* A push publishes its entry.
LEMMA PushPublishRing ==
  ASSUME Ring, NEW p \in Procs, Step(p), NEW s \in Segments, seg(p) = s,
         Good(s), Good(s)', PushPublish(p)
  PROVE  Around(p, s)'
<1> DEFINE n == loc[p].pos
           k == n % SIZE
<1>1. /\ ShmTypeOK /\ OwnsStep(p) /\ IdOwned(p) /\ Around(p, s)
      /\ \A q \in Procs \ {p} :
           /\ Unmoved(q) /\ OwnsStep(q)
           /\ Enrolled(q) /\ seg(q) = s => Cursor(q)' = Cursor(q) /\ Cursor(q) \in Nat
  BY StepStarts
<1>2. pc[p] = "push_publish" /\ pc'[p] = "run" /\ loc' = Forget(p, 0) /\ got' = got
      /\ loc[p].id = NONE
  BY <1>1 DEF PushPublish, Goto, ShmTypeOK, IdOwned
<1>3. n \in Nat /\ n # NONE /\ k \in Slots
  BY <1>1, <1>2, SlotOf, ShmAssumption DEF OwnsStep
<1>4. mem' = [mem EXCEPT ![s].sequence[k] = n]
  BY DEF PushPublish
<1>5. /\ mem'[s].sequence[k] = n
      /\ \A j \in Slots \ {k} : mem'[s].sequence[j] = mem[s].sequence[j]
      /\ mem'[s].head = mem[s].head /\ mem'[s].min_tail = mem[s].min_tail
      /\ mem'[s].tail = mem[s].tail /\ mem'[s].data = mem[s].data
  <2> HIDE DEF n, k
  <2> QED BY <1>1, <1>3, <1>4, SequenceAlone
<1>6. Writing(p) /\ Claiming(p)
  BY <1>2 DEF Writing, Claiming
<1>7. n < mem[s].head /\ mem[s].data[k] = n + 1
  BY <1>1, <1>2, <1>6 DEF Around, ActorOK, M
<1>8. RingOK(s)'
  <2>1. ASSUME NEW j \in Slots, mem'[s].sequence[j] # NONE
        PROVE  mem'[s].sequence[j] < mem[s].head /\ mem'[s].sequence[j] % SIZE = j
    <3>1. CASE j = k
      BY <1>5, <1>7, <3>1
    <3>2. CASE j # k
      <4> HIDE DEF k
      <4> QED BY <1>1, <1>5, <2>1, <3>2 DEF Around, RingOK
    <3> QED
      BY <3>1, <3>2
  <2> QED
    BY <1>1, <1>5, <2>1 DEF Around, RingOK
<1>9. Inert(p)'
  <2>1. 0 \in Nat \cup {NONE}
    OBVIOUS
  <2>2. loc'[p].id = NONE
    BY <1>1, <1>2, <2>1, LocFields, ForgetType
  <2> QED
    BY <1>2, <2>2 DEF Inert
<1>10. ASSUME NEW q \in Procs \ {p}, seg(q)' = s
       PROVE  ActorOK(q)' /\ ReaderOK(q)'
  <2>1. /\ seg(q) = s /\ Unmoved(q) /\ OwnsStep(q)
        /\ ActorOK(q) /\ ReaderOK(q) /\ PairOK(p, q)
    BY <1>1, <1>10 DEF Unmoved, seg, Around
  <2>2. ASSUME Writing(q), NEW j \in Slots, mem'[s].sequence[j] # NONE
        PROVE  mem'[s].sequence[j] # loc[q].pos /\ mem'[s].sequence[j] < loc[q].pos + SIZE
    <3>1. CASE j = k
      <4>1. n # loc[q].pos /\ n < loc[q].pos + SIZE
        BY <1>6, <2>1, <2>2 DEF PairOK
      <4> QED
        BY <1>5, <3>1, <4>1
    <3>2. CASE j # k
      <4> HIDE DEF k
      <4> QED BY <1>5, <2>1, <2>2, <3>2 DEF ActorOK, M
    <3> QED
      BY <3>1, <3>2
  <2>3. ActorOK(q)'
    BY <1>5, <2>1, <2>2 DEF ActorOK, Unmoved, M, seg, Writing, Computing
  <2>4. Enrolled(q) => Cursor(q)' = Cursor(q) /\ Cursor(q) \in Nat
    BY <1>1, <2>1
  <2>5. ASSUME Enrolled(q), NEW j \in Slots, mem'[s].sequence[j] # NONE
        PROVE  \/ mem[s].data[j] = mem'[s].sequence[j] + 1
               \/ mem'[s].sequence[j] < Cursor(q)
    <3>1. CASE j = k
      BY <1>5, <1>7, <3>1
    <3>2. CASE j # k
      <4> HIDE DEF k
      <4> QED BY <1>5, <2>1, <2>5, <3>2 DEF ReaderOK, M
    <3> QED
      BY <3>1, <3>2
  <2>6. ReaderOK(q)'
    <3> SUFFICES ASSUME Enrolled(q)'
                 PROVE  ReaderOK(q)'
      BY DEF ReaderOK
    <3>1. Enrolled(q)
      BY <2>1 DEF Unmoved, Enrolled, Registering, Joined
    <3>2. M(q) = mem[s] /\ M(q)' = mem'[s] /\ got'[q] = got[q] /\ loc'[q].start = loc[q].start
      BY <1>10, <2>1 DEF M, Unmoved
    <3>3. /\ mem[s].min_tail <= Cursor(q)
          /\ \A i \in 1 .. Len(got[q]) : got[q][i] = loc[q].start + i
      BY <2>1, <3>1, <3>2 DEF ReaderOK
    <3>4. \A j \in Slots : mem'[s].sequence[j] # NONE =>
            mem'[s].data[j] = mem'[s].sequence[j] + 1 \/ mem'[s].sequence[j] < Cursor(q)
      BY <1>5, <2>5, <3>1
    <3>5. mem'[s].min_tail = mem[s].min_tail /\ Cursor(q)' = Cursor(q)
      BY <1>5, <2>4, <3>1
    <3> QED
      BY <3>2, <3>3, <3>4, <3>5 DEF ReaderOK
  <2> QED
    BY <2>3, <2>6
<1> QED
  BY <1>8, <1>9, <1>10, InertOwesNothingNext DEF Around

\* The steps that leave a process inert and the rings alone.
LEMMA RestingRing ==
  ASSUME Ring, NEW p \in Procs, Step(p), NEW s \in Segments, seg(p) = s,
         Good(s), Good(s)',
         Construct(p) \/ Destruct(p) \/ RegTakeId(p) \/ DelConsumer(p) \/ PushCasFails(p)
  PROVE  Around(p, s)'
<1>1. /\ Typed /\ ShmTypeOK /\ ShmTypeOK' /\ OwnsStep(p) /\ IdOwned(p)
  BY StepStarts DEF Ring, Entries, Held
<1>2. Leave(p) => pc'[p] = "idle" /\ loc'[p] = NoLocals
  BY <1>1, LeaveType
<1>3. CASE Construct(p)
  <2>1. pc[p] \notin {"new_members", "new_body", "new_slots"}
    BY <1>1 DEF OwnsStep, Ring, Entries, Held, BuildsFresh, Good
  <2>2. RingKept(s)
    BY <1>1, <1>3, <2>1, RingTouched
    DEF Construct, Create, OpenNew, Truncate, Attach, OpenOld, AttachFails, MapSegment,
        SystemCallFails, NewMembers, NewBody, NewSlots, Goto, Storing
  <2>3. pc'[p] \in {"open", "truncate", "map", "attach", "idle", "new_members", "run"}
    BY <1>1, <1>2, <1>3, <2>1
    DEF Construct, Create, OpenNew, Truncate, Attach, OpenOld, AttachFails, MapSegment,
        SystemCallFails, NewMembers, NewBody, NewSlots, Goto, ShmTypeOK
  <2>4. pc'[p] = "run" => loc'[p].id = NONE
    <3>1. pc'[p] = "run" => pc[p] = "map"
      BY <1>1, <1>2, <1>3, <2>1
      DEF Construct, Create, OpenNew, Truncate, Attach, OpenOld, AttachFails, MapSegment,
          SystemCallFails, NewMembers, NewBody, NewSlots, Goto, ShmTypeOK
    <3>2. loc'[p].id \in {NONE, loc[p].id}
      BY <1>1, <1>3, NoIdGiven
    <3> QED
      BY <1>1, <3>1, <3>2 DEF IdOwned
  <2>5. Inert(p)'
    BY <2>3, <2>4 DEF Inert
  <2> QED
    BY <2>2, <2>5, QuietStep
<1>4. CASE Destruct(p)
  <2>1. mem' = mem /\ pc'[p] \in {"idle", "unlink"}
    BY <1>1, <1>2, <1>4 DEF Destruct, Unmap, UnlinkName, Crash, Sigbus, Goto, ShmTypeOK
  <2>2. RingKept(s)
    BY <2>1, Zenon DEF RingKept
  <2>3. Inert(p)'
    BY <2>1 DEF Inert
  <2> QED
    BY <2>2, <2>3, QuietStep
<1>5. CASE RegTakeId(p) \/ DelConsumer(p)
  <2>1. RingKept(s)
    BY <1>1, <1>5, RingTouched DEF RegTakeId, DelConsumer, Storing, Goto
  <2>2. pc'[p] \in {"idle", "reg_head"}
    BY <1>1, <1>2, <1>5 DEF RegTakeId, DelConsumer, ShmTypeOK
  <2>3. Inert(p)'
    BY <2>2 DEF Inert
  <2> QED
    BY <2>1, <2>3, QuietStep
<1>6. CASE PushCasFails(p)
  <2>1. mem' = mem /\ pc'[p] = "push_head"
    BY <1>1, <1>6 DEF PushCasFails, Goto, ShmTypeOK
  <2>2. RingKept(s)
    BY <2>1, Zenon DEF RingKept
  <2>3. Inert(p)'
    BY <2>1 DEF Inert
  <2> QED
    BY <2>2, <2>3, QuietStep
<1> QED
  BY <1>3, <1>4, <1>5, <1>6

\* Every step on a segment that stays good.
LEMMA AroundStep ==
  ASSUME Ring, NEW p \in Procs, Step(p), NEW s \in Segments, seg(p) = s, Good(s), Good(s)'
  PROVE  Around(p, s)'
<1>1. CASE Construct(p) \/ Destruct(p)
  BY <1>1, RestingRing
<1>2. CASE Consume(p)
  BY <1>2, RestingRing, RegHeadRing, RegTailRing, RegActivateRing, PopLoadRing, PopCopyRing,
     PopAdvanceRing DEF Consume
<1>3. CASE Push(p)
  BY <1>3, RestingRing, PushHeadRing, PushMinRing, ScanActiveRing, ScanTailRing,
     ScanStoreRing, PushRecheckRing, RefreshRing, RefreshStoreRing, PushCasRing,
     PushCopyRing, PushPublishRing DEF Push
<1> QED
  BY <1>1, <1>2, <1>3 DEF Step

\* Scans begin with nothing found, and pushes run where they may.
LEMMA PusherKeptStep ==
  ASSUME Ring, NEW p \in Procs, Step(p)
  PROVE  PusherKept(p)'
<1>1. /\ Typed /\ ShmTypeOK /\ OwnsStep(p) /\ PusherKept(p)
  BY DEF Ring, Entries, Held, Typed, StepsOwned
<1>2. ShmTypeOK' /\ built \subseteq built' /\ misused \subseteq misused'
  BY <1>1, StepKeeps
<1>3. ASSUME Leave(p)
      PROVE  PusherKept(p)'
  <2>1. pc'[p] = "idle" /\ loc'[p] = NoLocals
    BY <1>1, <1>3, LeaveType
  <2> QED
    BY <2>1 DEF PusherKept, Pushing, Computing, NoLocals
<1>4. ASSUME NEW n \in Nat \cup {NONE}, loc' = Forget(p, n), Pushing(p)' => Pushing(p)
      PROVE  PusherKept(p)'
  <2>1. loc'[p].seg = loc[p].seg /\ loc'[p].i = 0 /\ loc'[p].mini = NONE
    BY <1>1, <1>4, LocFields, ForgetType
  <2> QED
    BY <1>1, <1>2, <1>4, <2>1 DEF PusherKept, seg
<1>5. ASSUME ~Computing(p), ~Pushing(p)',
             loc'[p].i = loc[p].i, loc'[p].mini = loc[p].mini
      PROVE  PusherKept(p)'
  BY <1>1, <1>5 DEF PusherKept
<1>6. ASSUME Pushing(p), loc'[p].seg = loc[p].seg,
             loc'[p].i = loc[p].i /\ loc'[p].mini = loc[p].mini,
             Computing(p) => Computing(p)'
      PROVE  PusherKept(p)'
  BY <1>1, <1>2, <1>6 DEF PusherKept, seg
<1>7. CASE Construct(p)
  <2>1. CASE AttachFails(p) \/ SystemCallFails(p)
    BY <1>3, <2>1 DEF AttachFails, SystemCallFails
  <2>2. CASE OpenNew(p)
    BY <1>1, <1>5, <2>2 DEF OpenNew, Goto, ShmTypeOK, Locals, Computing, Pushing
  <2>3. CASE OpenOld(p)
    BY <1>1, <1>5, <2>3 DEF OpenOld, Goto, ShmTypeOK, Locals, Computing, Pushing
  <2>4. CASE loc' = loc
    BY <1>1, <1>5, <1>7, <2>1, <2>2, <2>3, <2>4
    DEF Construct, Create, Truncate, Attach, MapSegment, NewMembers, NewBody, NewSlots,
        Goto, ShmTypeOK, Computing, Pushing
  <2> QED
    BY <1>7, <2>1, <2>2, <2>3, <2>4
    DEF Construct, Create, Truncate, Attach, MapSegment, NewMembers, NewBody, NewSlots
<1>8. CASE Destruct(p)
  <2>1. CASE Unmap(p)
    <3>1. pc'[p] \in {"unlink", "idle"} /\ loc'[p] = NoLocals
      BY <1>1, <2>1, LeaveType DEF Unmap, ShmTypeOK
    <3> QED
      BY <3>1 DEF PusherKept, Pushing, Computing, NoLocals
  <2>2. CASE UnlinkName(p)
    BY <1>1, <1>5, <2>2 DEF UnlinkName, Goto, ShmTypeOK, Computing, Pushing
  <2>3. CASE Crash(p) \/ Sigbus(p)
    BY <1>3, <2>3 DEF Crash, Sigbus
  <2> QED
    BY <1>8, <2>1, <2>2, <2>3 DEF Destruct
<1>9. CASE Consume(p)
  <2>1. CASE RegTakeId(p)
    <3>1. CASE Leave(p)
      BY <1>3, <3>1
    <3>2. CASE ~Leave(p)
      BY <1>1, <1>5, <2>1, <3>2 DEF RegTakeId, ShmTypeOK, Locals, Computing, Pushing
    <3> QED
      BY <3>1, <3>2
  <2>2. CASE RegHead(p)
    BY <1>1, <1>5, <2>2 DEF RegHead, Goto, ShmTypeOK, Locals, Computing, Pushing
  <2>3. CASE RegTail(p) \/ PopAdvance(p)
    <3>1. 0 \in Nat \cup {NONE} /\ loc' = Forget(p, 0)
      BY <2>3 DEF RegTail, PopAdvance
    <3>2. ~Pushing(p)'
      BY <1>1, <2>3 DEF RegTail, PopAdvance, Goto, ShmTypeOK, Pushing
    <3> QED
      BY <1>4, <3>1, <3>2
  <2>4. CASE RegActivate(p) \/ PopCopy(p)
    BY <1>1, <1>5, <2>4 DEF RegActivate, PopCopy, Goto, ShmTypeOK, Computing, Pushing
  <2>5. CASE PopLoad(p)
    BY <1>1, <1>5, <2>5 DEF PopLoad, Goto, ShmTypeOK, Locals, Computing, Pushing
  <2>6. CASE DelConsumer(p)
    BY <1>3, <2>6 DEF DelConsumer
  <2> QED
    BY <1>9, <2>1, <2>2, <2>3, <2>4, <2>5, <2>6 DEF Consume
<1>10. CASE Push(p)
  <2>1. CASE PushHead(p)
    <3>1. pc'[p] = "push_min" /\ loc' = [loc EXCEPT ![p].pos = M(p).head]
          /\ p \in Pushers /\ ~Computing(p)
      BY <1>1, <2>1 DEF PushHead, ShmTypeOK, Computing
    <3>2. seg(p) \in built' \cup misused'
      BY <2>1 DEF PushHead, Touch
    <3>3. loc'[p].seg = loc[p].seg /\ loc'[p].i = loc[p].i /\ loc'[p].mini = loc[p].mini
      BY <1>1, <3>1 DEF ShmTypeOK, Locals
    <3> QED
      BY <1>1, <3>1, <3>2, <3>3 DEF PusherKept, seg
  <2>2. CASE PushMin(p)
    <3>1. loc'[p].seg = loc[p].seg /\ loc'[p].i = loc[p].i /\ loc'[p].mini = loc[p].mini
      BY <1>1, <2>2 DEF PushMin, ShmTypeOK, Locals
    <3>2. Pushing(p) /\ ~Computing(p)
      BY <2>2 DEF PushMin, Pushing, Computing
    <3> QED
      BY <1>6, <3>1, <3>2
  <2>3. CASE ScanActive(p) \/ ScanTail(p) \/ ScanStore(p)
    <3>1. Pushing(p) /\ Computing(p)'
      BY <1>1, <2>3 DEF ScanActive, ScanTail, ScanStore, Goto, Pushing, Computing, ShmTypeOK
    <3>2. loc'[p].seg = loc[p].seg
      BY <1>1, <2>3 DEF ScanActive, ScanTail, ScanStore, ShmTypeOK, Locals
    <3> QED
      BY <1>1, <1>2, <3>1, <3>2 DEF PusherKept, seg
  <2>4. CASE PushRecheck(p)
    <3>1. pc[p] = "push_recheck" /\ loc[p].pos \in Nat
      BY <1>1, <2>4 DEF PushRecheck, OwnsStep
    <3>2. Pushing(p)
      BY <3>1 DEF Pushing
    <3>3. loc' = Forget(p, 0) \/ loc' = Forget(p, loc[p].pos)
      BY <2>4 DEF PushRecheck
    <3>4. 0 \in Nat \cup {NONE} /\ loc[p].pos \in Nat \cup {NONE}
      BY <3>1
    <3> QED
      BY <1>4, <3>2, <3>3, <3>4
  <2>5. CASE Refresh(p)
    <3>1. pc'[p] = "scan" /\ loc' = Forget(p, NONE) /\ p \in Pushers
          /\ seg(p) \in built' \cup misused'
      BY <1>1, <2>5, ShmAssumption DEF Refresh, StartScan, ShmTypeOK
    <3>2. NONE \in Nat \cup {NONE}
      OBVIOUS
    <3>3. loc'[p].seg = loc[p].seg
      BY <1>1, <3>1, <3>2, LocFields, ForgetType
    <3> QED
      BY <3>1, <3>3 DEF PusherKept, Computing, seg
  <2>6. CASE RefreshStore(p) \/ PushCasFails(p) \/ PushPublish(p)
    <3>1. Pushing(p) /\ loc' = Forget(p, 0)
      BY <2>6 DEF RefreshStore, PushCasFails, PushPublish, Goto, Pushing
    <3>2. 0 \in Nat \cup {NONE}
      OBVIOUS
    <3> QED
      BY <1>4, <3>1, <3>2
  <2>7. CASE PushCas(p) \/ PushCopy(p)
    <3>1. Pushing(p) /\ ~Computing(p) /\ loc' = loc
      BY <2>7 DEF PushCas, PushCopy, Goto, Pushing, Computing
    <3> QED
      BY <1>6, <3>1
  <2> QED
    BY <1>10, <2>1, <2>2, <2>3, <2>4, <2>5, <2>6, <2>7 DEF Push
<1> QED
  BY <1>7, <1>8, <1>9, <1>10 DEF Step

\* What the constructor has prepared stays.
LEMMA FreshKeptStep ==
  ASSUME OneCreator, Ring, NEW p \in Procs, Step(p), NEW q \in Procs
  PROVE  FreshKept(q)'
<1>1. /\ Typed /\ ShmTypeOK /\ OwnsStep(p) /\ OwnsStep(q) /\ FreshKept(q)
  BY DEF Ring, Entries, Held, Typed, StepsOwned
<1>2. ShmTypeOK' /\ misused \subseteq misused' /\ OthersStay(p) /\ Spares(p)
  BY <1>1, StepKeeps
<1>3. CASE q = p
  <2>1. SUFFICES ASSUME pc'[p] \in {"new_body", "new_slots"}, seg(p)' \notin misused'
                 PROVE  /\ mem'[seg(p)'].head = 0 /\ mem'[seg(p)'].min_tail = 0
                        /\ \A i \in Ids : mem'[seg(p)'].tail[i] = 0
    BY <1>3 DEF FreshKept, M, seg
  <2>2. NewMembers(p) \/ NewBody(p)
    <3>1. ~Consume(p) /\ ~Push(p)
      BY <1>1, <2>1, UserStays
    <3>2. Leave(p) => pc'[p] = "idle"
      BY <1>1, LeaveType
    <3> QED
      BY <1>1, <2>1, <3>1, <3>2
      DEF Step, Construct, Create, OpenNew, Truncate, Attach, OpenOld, AttachFails,
          MapSegment, SystemCallFails, NewSlots, Destruct, Unmap, UnlinkName,
          Crash, Sigbus, Goto, ShmTypeOK
  <2>3. loc' = loc /\ seg(p) \in Segments /\ pc[p] \in {"new_members", "new_body"}
    BY <1>1, <2>2, Own DEF NewMembers, NewBody, Goto
  <2>4. CASE NewMembers(p)
    <3>1. mem'[seg(p)] = [Zeroed EXCEPT !.sized = TRUE]
      BY <1>1, <2>3, <2>4 DEF NewMembers, ShmTypeOK
    <3> QED
      BY <2>3, <3>1 DEF Zeroed, seg
  <2>5. CASE NewBody(p)
    <3>1. pc[p] = "new_body"
      BY <2>5 DEF NewBody, Goto
    <3>2. mem[seg(p)].head = 0
      BY <1>2, <1>1, <1>3, <2>1, <2>3, <3>1 DEF FreshKept, M, seg
    <3>3. /\ mem'[seg(p)].head = mem[seg(p)].head /\ mem'[seg(p)].min_tail = 0
          /\ mem'[seg(p)].tail = Zeroed.tail
      <4> DEFINE Z == Zeroed.tail
                 A == Zeroed.active
      <4>1. mem' = [mem EXCEPT ![seg(p)].num_consumers = 0, ![seg(p)].min_tail = 0,
                               ![seg(p)].tail = Z, ![seg(p)].active = A]
        BY <2>5 DEF NewBody
      <4> HIDE DEF Z, A
      <4>2. /\ mem'[seg(p)].head = mem[seg(p)].head /\ mem'[seg(p)].min_tail = 0
            /\ mem'[seg(p)].tail = Z
        BY <1>1, <2>3, <4>1 DEF ShmTypeOK, Memory
      <4> QED
        BY <4>2 DEF Z
    <3>4. \A i \in Ids : Zeroed.tail[i] = 0
      BY DEF Zeroed
    <3>5. seg(p)' = seg(p)
      BY <2>3 DEF seg
    <3> QED
      BY <3>2, <3>3, <3>4, <3>5
  <2> QED
    BY <2>2, <2>4, <2>5
<1>4. CASE q # p
  <2>1. SUFFICES ASSUME pc[q] \in {"new_body", "new_slots"}, seg(q) \notin misused'
                 PROVE  FreshKept(q)'
    BY <1>2, <1>4 DEF FreshKept, OthersStay, seg
  <2>2. q \in Creators /\ seg(q) \in Segments
    BY <1>1, <2>1, Own DEF OwnsStep
  <2>3. seg(q) \notin built \cup misused
    BY <1>2, <2>1, <2>2 DEF Ring, Entries, Held, BuildsFresh
  <2>4. RingKept(seg(q))
    <3>1. CASE seg(p) = seg(q) /\ pc[p] \in Storing
      <4>1. pc[p] \notin {"new_members", "new_body", "new_slots"}
        BY <1>1, <1>4, <2>2 DEF OneCreator, OwnsStep
      <4>2. ~Inert(p)
        BY <3>1, <4>1 DEF Inert, Storing
      <4> QED
        BY <2>3, <3>1, <4>2, ActsInBuilt
    <3> QED
      BY <1>1, <2>2, <3>1, RingTouched
  <2>5. loc'[q] = loc[q] /\ pc'[q] = pc[q]
    BY <1>2, <1>4 DEF OthersStay
  <2>6. /\ M(q).head = 0 /\ M(q).min_tail = 0 /\ \A i \in Ids : M(q).tail[i] = 0
    BY <1>1, <2>1, <2>3 DEF FreshKept
  <2> QED
    BY <2>4, <2>5, <2>6 DEF FreshKept, RingKept, M, seg
<1> QED
  BY <1>3, <1>4

\* The constructor has finished: a ring in order, and nobody in it yet.
LEMMA NewSlotsRing ==
  ASSUME OneCreator, Ring, NEW p \in Procs, Step(p), NEW s \in Segments, ~Good(s), Good(s)'
  PROVE  RingOK(s)' /\ \A q \in Procs : seg(q)' = s => Inert(q)'
<1>1. /\ Typed /\ ShmTypeOK /\ OwnsStep(p) /\ FreshKept(p) /\ IdOwned(p)
  BY DEF Ring, Entries, Held, Typed, StepsOwned
<1>2. /\ ShmTypeOK' /\ misused \subseteq misused' /\ OthersStay(p)
      /\ pc[p] # "new_slots" => built' = built
      /\ pc[p] = "new_slots" => built' \subseteq built \cup {seg(p)}
  BY <1>1, StepKeeps
<1>3. s = seg(p) /\ s \notin built \cup misused /\ s \in built' /\ pc[p] = "new_slots"
  BY <1>2 DEF Good
<1>4. NewSlots(p)
  BY <1>3 DEF Step, Construct, Create, OpenNew, Truncate, Attach, OpenOld, AttachFails,
       MapSegment, SystemCallFails, NewMembers, NewBody, Destruct, Unmap, UnlinkName,
       Crash, Sigbus, Goto, Consume, RegTakeId, RegHead, RegTail, RegActivate, PopLoad,
       PopCopy, PopAdvance, DelConsumer, Push, PushHead, PushMin, ScanActive, ScanTail,
       ScanStore, PushRecheck, Refresh, RefreshStore, PushCas, PushCasFails, PushCopy,
       PushPublish
<1>5. pc'[p] = "run" /\ loc' = loc
      /\ mem' = [mem EXCEPT ![s].sequence = [k \in Slots |-> NONE]]
  BY <1>1, <1>3, <1>4 DEF NewSlots, Goto, ShmTypeOK, Fresh
<1>6. /\ mem'[s].sequence = [k \in Slots |-> NONE] /\ mem'[s].head = mem[s].head
      /\ mem'[s].min_tail = mem[s].min_tail /\ mem'[s].tail = mem[s].tail
  BY <1>1, <1>5 DEF ShmTypeOK, Memory
<1>7. /\ mem[s].head = 0 /\ mem[s].min_tail = 0 /\ \A i \in Ids : mem[s].tail[i] = 0
  BY <1>1, <1>3 DEF FreshKept, M
<1>8. RingOK(s)'
  BY <1>6, <1>7 DEF RingOK
<1>9. ASSUME NEW q \in Procs, seg(q)' = s
      PROVE  Inert(q)'
  <2>1. CASE q = p
    BY <1>1, <1>3, <1>5, <2>1 DEF Inert, IdOwned
  <2>2. CASE q # p
    <3>1. pc'[q] = pc[q] /\ loc'[q] = loc[q] /\ seg(q) = s
      BY <1>2, <1>9, <2>2 DEF OthersStay, seg
    <3>2. Inert(q)
      BY <1>3, <3>1, ActsInBuilt
    <3> QED
      BY <3>1, <3>2 DEF Inert
  <2> QED
    BY <2>1, <2>2
<1> QED
  BY <1>8, <1>9

\* A process that changes its segment is inert then.
LEMMA SegmentStays ==
  ASSUME Ring, NEW p \in Procs, Step(p)
  PROVE  seg(p)' = seg(p) \/ Inert(p)'
<1>1. Typed /\ ShmTypeOK
  BY DEF Ring, Entries, Held, Typed
<1>2. Leave(p) => pc'[p] = "idle"
  BY <1>1, LeaveType
<1>3. CASE Consume(p) \/ Push(p)
  BY <1>1, <1>3, UserStays DEF Inert, seg
<1>4. CASE Construct(p)
  BY <1>1, <1>2, <1>4
  DEF Construct, Create, OpenNew, Truncate, Attach, OpenOld, AttachFails, MapSegment,
      SystemCallFails, NewMembers, NewBody, NewSlots, Goto, ShmTypeOK, Inert, seg
<1>5. CASE Destruct(p)
  BY <1>1, <1>2, <1>5
  DEF Destruct, Unmap, UnlinkName, Crash, Sigbus, Goto, ShmTypeOK, Inert, seg
<1> QED
  BY <1>3, <1>4, <1>5 DEF Step

\* What two processes mean to each other is up to them.
LEMMA PairKept ==
  ASSUME NEW q \in Procs, NEW r \in Procs, Unmoved(q), Unmoved(r), PairOK(q, r),
         Enrolled(r) => Cursor(r)' = Cursor(r)
  PROVE  PairOK(q, r)'
<1>1. /\ Writing(q)' = Writing(q) /\ Claiming(q)' = Claiming(q) /\ Holding(q)' = Holding(q)
      /\ Scanning(q)' = Scanning(q) /\ Computing(q)' = Computing(q) /\ loc'[q] = loc[q]
      /\ Writing(r)' = Writing(r) /\ Enrolled(r)' = Enrolled(r) /\ Joined(r)' = Joined(r)
      /\ Registering(r)' = Registering(r) /\ loc'[r] = loc[r] /\ pc'[r] = pc[r]
  BY DEF Unmoved, Writing, Claiming, Holding, Scanning, Computing, Enrolled, Joined,
         Registering
<1>2. Joined(r) => Enrolled(r)
  BY DEF Enrolled
<1> QED
  BY <1>1, <1>2 DEF PairOK

\* Ring is inductive for one creator.
LEMMA RingStep ==
  ASSUME OneCreator, Ring, [Next]_vars
  PROVE  Ring'
<1>1. CASE UNCHANGED vars
  <2>1. Entries'
    BY EntriesStep DEF Ring
  <2>2. /\ mem' = mem /\ pc' = pc /\ loc' = loc /\ got' = got /\ built' = built
        /\ misused' = misused
    BY <1>1 DEF vars
  <2>3. \A p \in Procs : PusherKept(p)' /\ FreshKept(p)'
    BY <2>2 DEF Ring, PusherKept, FreshKept, Pushing, Computing, M, seg
  <2>4. \A s \in Segments : Good(s)' => RingOK(s)'
    BY <2>2 DEF Ring, Good, RingOK
  <2>5. ASSUME NEW p \in Procs, Good(seg(p))'
        PROVE  ActorOK(p)' /\ ReaderOK(p)'
    <3>1. seg(p)' = seg(p) /\ Unmoved(p) /\ Good(seg(p)) /\ ActorOK(p) /\ ReaderOK(p)
      BY <2>2, <2>5 DEF Ring, Good, seg, Unmoved
    <3>2. ShmTypeOK /\ seg(p) \in Segments
      BY <3>1 DEF Ring, Entries, Held, Typed, ShmTypeOK, Good
    <3>3. RingKept(seg(p))
      BY <2>2, Zenon DEF RingKept
    <3> QED
      BY <3>1, <3>2, <3>3, OthersKept
  <2>6. ASSUME NEW p \in Procs, NEW q \in Procs, p # q, seg(p)' = seg(q)', Good(seg(p))'
        PROVE  PairOK(p, q)'
    <3>1. Unmoved(p) /\ Unmoved(q) /\ PairOK(p, q)
      BY <2>2, <2>6 DEF Ring, Good, seg, Unmoved
    <3>2. Cursor(q)' = Cursor(q)
      BY <2>2 DEF Cursor, M, seg
    <3> QED
      BY <3>1, <3>2, PairKept
  <2> QED
    BY <2>1, <2>3, <2>4, <2>5, <2>6 DEF Ring
<1>2. ASSUME NEW p \in Procs, Step(p)
      PROVE  Ring'
  <2>1. Entries'
    BY EntriesStep DEF Ring
  <2>2. /\ Typed /\ ShmTypeOK /\ OthersStay(p) /\ misused \subseteq misused' /\ ShmTypeOK'
    BY <1>2, StepKeeps DEF Ring, Entries, Held, Typed
  <2>3. ASSUME NEW q \in Procs, q # p
        PROVE  Unmoved(q) /\ seg(q)' = seg(q)
    BY <2>2, <2>3 DEF OthersStay, Unmoved, seg
  <2>4. ASSUME NEW q \in Procs
        PROVE  PusherKept(q)' /\ FreshKept(q)'
    <3>1. FreshKept(q)'
      BY <1>2, FreshKeptStep
    <3>2. CASE q = p
      BY <1>2, <3>1, <3>2, PusherKeptStep
    <3>3. CASE q # p
      <4>1. Unmoved(q) /\ seg(q)' = seg(q) /\ PusherKept(q)
        BY <2>3, <3>3 DEF Ring
      <4>2. built \subseteq built'
        BY <1>2, <2>2, StepKeeps
      <4> QED
        BY <2>2, <3>1, <4>1, <4>2 DEF PusherKept, Unmoved, Pushing, Computing
    <3> QED
      BY <3>2, <3>3
  <2>5. ASSUME NEW s \in Segments, Good(s)', ~Good(s)
        PROVE  RingOK(s)' /\ \A q \in Procs : seg(q)' = s => Inert(q)'
    BY <1>2, <2>5, NewSlotsRing
  <2>6. ASSUME NEW s \in Segments, Good(s)', Good(s), s = seg(p)
        PROVE  Around(p, s)'
    BY <1>2, <2>6, AroundStep
  <2>7. ASSUME NEW s \in Segments, Good(s)', Good(s), s # seg(p)
        PROVE  /\ RingOK(s)' /\ (seg(p)' = s => Inert(p)')
               /\ \A q \in Procs \ {p} : seg(q) = s => ActorOK(q)' /\ ReaderOK(q)'
    <3>1. RingKept(s)
      BY <1>2, <2>2, <2>7, RingTouched
    <3>2. RingOK(s)'
      BY <2>7, <3>1 DEF Ring, RingOK, RingKept
    <3>3. seg(p)' = s => Inert(p)'
      BY <1>2, <2>7, SegmentStays
    <3>4. \A q \in Procs \ {p} : seg(q) = s => ActorOK(q)' /\ ReaderOK(q)'
      BY <2>2, <2>3, <2>7, <3>1, OthersKept DEF Ring
    <3> QED
      BY <3>2, <3>3, <3>4
  <2>8. \A s \in Segments : Good(s)' => RingOK(s)'
    BY <2>5, <2>6, <2>7 DEF Around
  <2>9. ASSUME NEW q \in Procs, NEW s \in Segments, seg(q)' = s, Good(s)'
        PROVE  ActorOK(q)' /\ ReaderOK(q)'
    <3>1. CASE ~Good(s)
      BY <2>5, <2>9, <3>1, InertOwesNothingNext
    <3>2. CASE Good(s) /\ s = seg(p)
      BY <2>6, <2>9, <3>2 DEF Around
    <3>3. CASE Good(s) /\ s # seg(p)
      <4>1. CASE q = p
        BY <2>7, <2>9, <3>3, <4>1, InertOwesNothingNext
      <4>2. CASE q # p
        BY <2>3, <2>7, <2>9, <3>3, <4>2
      <4> QED
        BY <4>1, <4>2
    <3> QED
      BY <3>1, <3>2, <3>3
  <2>10. ASSUME NEW q \in Procs, NEW r \in Procs, q # r, NEW s \in Segments,
                seg(q)' = s, seg(r)' = s, Good(s)'
         PROVE  PairOK(q, r)'
    <3>1. CASE ~Good(s)
      BY <2>5, <2>10, <3>1, InertOwesNothingNext
    <3>2. CASE Good(s) /\ q # p /\ r # p
      <4>1. Unmoved(q) /\ Unmoved(r) /\ seg(q) = s /\ seg(r) = s
        BY <2>3, <2>10, <3>2
      <4>2. PairOK(q, r)
        BY <2>10, <3>2, <4>1 DEF Ring
      <4>3. Enrolled(r) => Cursor(r)' = Cursor(r)
        BY <1>2, <2>10, <3>2, <4>1, CursorsStay
      <4> QED
        BY <4>1, <4>2, <4>3, PairKept
    <3>3. CASE Good(s) /\ s = seg(p) /\ (q = p \/ r = p)
      BY <2>6, <2>10, <3>3 DEF Around
    <3>4. CASE Good(s) /\ s # seg(p) /\ (q = p \/ r = p)
      <4>1. Inert(p)'
        BY <2>7, <2>10, <3>4
      <4> QED
        BY <2>10, <3>4, <4>1, InertOwesNothingNext
    <3> QED
      BY <3>1, <3>2, <3>3, <3>4
  <2>11. \A q \in Procs : Good(seg(q))' => seg(q)' \in Segments
    BY <2>2 DEF Good, ShmTypeOK
  <2>12. \A q \in Procs : Good(seg(q))' => ActorOK(q)' /\ ReaderOK(q)'
    BY <2>9, <2>11 DEF Good
  <2>13. \A q, r \in Procs : q # r /\ seg(q)' = seg(r)' /\ Good(seg(q))' => PairOK(q, r)'
    BY <2>10, <2>11 DEF Good
  <2> QED
    BY <2>1, <2>4, <2>8, <2>12, <2>13 DEF Ring
<1> QED
  BY <1>1, <1>2 DEF Next, Step

\* Nothing is built yet.
LEMMA RingInit == Init => Ring
<1> SUFFICES ASSUME Init PROVE Ring
  OBVIOUS
<1>1. Entries
  BY HeldInit DEF Init, Entries, IdOwned, EntryKept, IdsDiffer, NoLocals
<1>2. \A p \in Procs : pc[p] = "idle" /\ loc[p] = NoLocals
  BY DEF Init
<1>3. \A p \in Procs : PusherKept(p) /\ FreshKept(p)
  BY <1>2 DEF PusherKept, FreshKept, Pushing, Computing, NoLocals
<1>4. \A s : ~Good(s)
  BY DEF Init, Good
<1> QED
  BY <1>1, <1>3, <1>4 DEF Ring

\* Nobody touches the slot another process is copying into, with one creator, on
\* a segment used and joined in time (push, pop).
THEOREM NoRaceForOneCreator ==
  ASSUME OneCreator
  PROVE  Spec => []NoSlotRace
<1>1. Init => Ring
  BY RingInit
<1>2. Ring /\ [Next]_vars => Ring'
  BY RingStep
<1>3. Ring => NoSlotRace
  <2> SUFFICES ASSUME Ring, NEW p \in Procs, NEW q \in Procs, p # q, seg(p) = seg(q),
                      Sound(p), pc[p] = "push_copy", pc[q] \in {"push_copy", "pop_copy"}
               PROVE  loc[p].pos % SIZE # loc[q].pos % SIZE
    BY DEF NoSlotRace
  <2>1. ~Inert(p)
    BY DEF Inert
  <2>2. Good(seg(p))
    BY <2>1, ActsInBuilt DEF Good, Sound
  <2> QED
    BY <2>2, WriterAlone DEF Writing
<1> QED
  BY <1>1, <1>2, <1>3, PTL DEF Spec

\* A joined consumer reads in a constructed segment.
LEMMA JoinedInGood ==
  ASSUME Ring, NEW p \in Procs, Joined(p), Sound(p)
  PROVE  Good(seg(p)) /\ Enrolled(p) /\ ReaderOK(p) /\ Cursor(p) = M(p).tail[loc[p].id]
<1>1. IdOwned(p) /\ loc[p].id # NONE
  BY DEF Ring, Entries, Joined
<1>2. Good(seg(p))
  BY <1>1 DEF IdOwned, Sound, Good
<1> QED
  BY <1>2 DEF Ring, Enrolled, Joined, Cursor

\* A consumer gets what was claimed since it registered, each entry once and in
\* order, with one creator, on a segment used and joined in time (pop).
THEOREM DeliveryForOneCreator ==
  ASSUME OneCreator
  PROVE  Spec => []DeliveredFromStart
<1>1. Init => Ring
  BY RingInit
<1>2. Ring /\ [Next]_vars => Ring'
  BY RingStep
<1>3. Ring => DeliveredFromStart
  <2> SUFFICES ASSUME Ring, NEW p \in Procs, Joined(p) /\ Sound(p)
               PROVE  \A n \in DOMAIN got[p] : got[p][n] = loc[p].start + n
    BY DEF DeliveredFromStart
  <2>1. \A n \in 1 .. Len(got[p]) : got[p][n] = loc[p].start + n
    BY JoinedInGood DEF ReaderOK
  <2>2. got[p] \in Seq(Nat)
    BY DEF Ring, Entries, Held, Typed, ShmTypeOK
  <2> QED
    BY <2>1, <2>2
<1> QED
  BY <1>1, <1>2, <1>3, PTL DEF Spec

\* No scan stores a minimum past a consumer that is reading, with one creator,
\* on a segment used and joined in time (computeMinTail, push).
THEOREM CacheBehindForOneCreator ==
  ASSUME OneCreator
  PROVE  Spec => []CacheBehindReader
<1>1. Init => Ring
  BY RingInit
<1>2. Ring /\ [Next]_vars => Ring'
  BY RingStep
<1>3. Ring => CacheBehindReader
  BY JoinedInGood DEF ReaderOK, CacheBehindReader
<1> QED
  BY <1>1, <1>2, <1>3, PTL DEF Spec
===============================================================================
