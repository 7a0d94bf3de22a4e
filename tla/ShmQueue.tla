------------------------------- MODULE ShmQueue -------------------------------
(***************************************************************************)
(* The queue of the legacy headers, in a shared-memory segment that        *)
(* processes create, attach to and leave (mpmc_queue.hpp at the root of    *)
(* the repository; its five siblings differ in spelling).                  *)
(*                                                                         *)
(* What is new against MpmcQueue is the segment.  It has a name that       *)
(* denotes one segment after the other, it exists, zero-filled, before the *)
(* queue in it is constructed, and it outlives the processes that use it.  *)
(* And the scan of push stores min_tail itself, push then once more.       *)
(*                                                                         *)
(* One action is one system call, one access to a shared atomic or one     *)
(* copy of an entry.  A process runs one thread.  The entry pushed at      *)
(* position n has the value n + 1; zero-filled memory holds 0.             *)
(***************************************************************************)
EXTENDS Integers, Sequences

CONSTANTS
  Pushers, Poppers,  \* processes, by what they do with the queue
  Creators,          \* those that pass create = true
  Refreshers,        \* those that call recomputeAndStoreMinTail
  SIZE,
  MAX_CONSUMERS,
  NONE,              \* invalid_pos, and "not registered"
  Crashes,           \* processes that may die at any point
  Fails,             \* whether shm_open, ftruncate and mmap may fail
  MaxSegments,       \* bound: segments created
  MaxLives,          \* bound: managers constructed, over all processes
  MaxHead            \* bound: positions claimed in a segment

Procs    == Pushers \cup Poppers
Segments == 1 .. MaxSegments
Ids      == 0 .. MAX_CONSUMERS - 1
Slots    == 0 .. SIZE - 1

ASSUME ShmAssumption ==
  /\ Pushers \cap Poppers = {} /\ Creators \subseteq Procs
  /\ Refreshers \subseteq Pushers /\ Crashes \subseteq Procs
  /\ SIZE \in Nat \ {0} /\ MAX_CONSUMERS \in Nat \ {0}
  /\ NONE \notin Nat /\ Fails \in BOOLEAN
  /\ MaxSegments \in Nat /\ MaxLives \in Nat /\ MaxHead \in Nat

VARIABLES
  name,    \* the segment shm_name_ denotes, 0 for none
  made,    \* segments created so far
  mem,     \* their contents
  pc, loc, \* each process: its next step, its variables
  lives,   \* history: managers constructed
  built,   \* history: segments whose constructor has finished
  misused, \* history: segments used before that, or joined at a bad time
  got      \* history: what each consumer popped since it registered

vars == <<name, made, mem, pc, loc, lives, built, misused, got>>

Zeroed == [sized |-> FALSE, head |-> 0, min_tail |-> 0, num_consumers |-> 0,
           tail |-> [i \in Ids |-> 0], active |-> [i \in Ids |-> FALSE],
           sequence |-> [k \in Slots |-> 0], data |-> [k \in Slots |-> 0]]

\* seg: the mapped segment; pos: head_ or tail; min: min_tail; i: a loop index;
\* mini: of the scan; id: consumer id; start: the tail it registered with
NoLocals == [seg |-> 0, pos |-> 0, min |-> 0, i |-> 0, mini |-> NONE,
             id |-> NONE, start |-> 0]

Init ==
  /\ name = 0 /\ made = 0
  /\ mem = [s \in Segments |-> Zeroed]
  /\ pc = [p \in Procs |-> "idle"]
  /\ loc = [p \in Procs |-> NoLocals]
  /\ lives = 0
  /\ built = {} /\ misused = {}
  /\ got = [p \in Procs |-> <<>>]

seg(p) == loc[p].seg
M(p)   == mem[seg(p)]

Goto(p, from, to) == pc[p] = from /\ pc' = [pc EXCEPT ![p] = to]

\* The process keeps nothing of the segment: it detached, threw or died.
Leave(p) ==
  /\ pc' = [pc EXCEPT ![p] = "idle"]
  /\ loc' = [loc EXCEPT ![p] = NoLocals]
  /\ got' = [got EXCEPT ![p] = <<>>]

\* Locals that are not read again are reset, which merges states.
Forget(p, pos) ==
  [loc EXCEPT ![p] = [@ EXCEPT !.pos = pos, !.min = 0, !.i = 0, !.mini = NONE]]

-----------------------------------------------------------------------------
(***************************************************************************)
(* ShmQueueManager: constructor and destructor.                            *)
(***************************************************************************)
UnlinkOld_Forgotten == name
\* what shm_unlink leaves of the name
UnlinkOld == 0

Create(p) ==
  /\ p \in Creators
  /\ lives < MaxLives
  /\ Goto(p, "idle", "open")
  /\ lives' = lives + 1
  /\ name' = UnlinkOld
  /\ UNCHANGED <<made, mem, loc, built, misused, got>>

\* shm_open(O_CREAT) opens whatever has the name by now.
OpenNew(p) ==
  /\ Goto(p, "open", "truncate")
  /\ IF name = 0 THEN made < MaxSegments /\ made' = made + 1 /\ name' = made + 1
                 ELSE UNCHANGED <<made, name>>
  /\ loc' = [loc EXCEPT ![p].seg = name']
  /\ UNCHANGED <<mem, lives, built, misused, got>>

Truncate(p) ==
  /\ Goto(p, "truncate", "map")
  /\ mem' = [mem EXCEPT ![seg(p)].sized = TRUE]
  /\ UNCHANGED <<name, made, loc, lives, built, misused, got>>

Attach(p) ==
  /\ p \notin Creators
  /\ lives < MaxLives
  /\ Goto(p, "idle", "attach")
  /\ lives' = lives + 1
  /\ UNCHANGED <<name, made, mem, loc, built, misused, got>>

OpenOld(p) ==
  /\ name # 0
  /\ Goto(p, "attach", "map")
  /\ loc' = [loc EXCEPT ![p].seg = name]
  /\ UNCHANGED <<name, made, mem, lives, built, misused, got>>

\* 50 attempts, 10 ms apart, at whatever pace: the last one fails too.
AttachFails(p) ==
  /\ pc[p] = "attach" /\ name = 0
  /\ Leave(p)
  /\ UNCHANGED <<name, made, mem, lives, built, misused>>

\* mmap maps a segment of size 0 as well.
MapSegment(p) ==
  /\ Goto(p, "map", IF p \in Creators THEN "new_members" ELSE "run")
  /\ UNCHANGED <<name, made, mem, loc, lives, built, misused, got>>

\* shm_open, ftruncate or mmap fails and the constructor throws; no destructor
\* runs, so the name stays.
SystemCallFails(p) ==
  /\ Fails
  /\ pc[p] \in {"open", "attach", "truncate", "map"}
  /\ Leave(p)
  /\ UNCHANGED <<name, made, mem, lives, built, misused>>

\* new (queue_) QueueType(): the members' initialisers, then the body.
NewMembers(p) ==
  /\ Goto(p, "new_members", "new_body")
  /\ mem' = [mem EXCEPT ![seg(p)] = [Zeroed EXCEPT !.sized = TRUE]]
  /\ UNCHANGED <<name, made, loc, lives, built, misused, got>>

NewBody(p) ==
  /\ Goto(p, "new_body", "new_slots")
  /\ mem' = [mem EXCEPT ![seg(p)].num_consumers = 0, ![seg(p)].min_tail = 0,
                        ![seg(p)].tail = Zeroed.tail, ![seg(p)].active = Zeroed.active]
  /\ UNCHANGED <<name, made, loc, lives, built, misused, got>>

Fresh_Zero == 0
\* the sequence of a slot nobody has written
Fresh == NONE

NewSlots(p) ==
  /\ Goto(p, "new_slots", "run")
  /\ mem' = [mem EXCEPT ![seg(p)].sequence = [k \in Slots |-> Fresh]]
  /\ built' = built \cup {seg(p)}
  /\ UNCHANGED <<name, made, loc, lives, misused, got>>

Unlinks_Everyone(p) == TRUE
\* is_creator_
Unlinks(p) == p \in Creators

\* munmap and close, then, for the creator, shm_unlink of the name.
Unmap(p) ==
  /\ pc[p] = "run"
  /\ IF Unlinks(p)
     THEN /\ pc' = [pc EXCEPT ![p] = "unlink"]
          /\ loc' = [loc EXCEPT ![p] = NoLocals]
          /\ got' = [got EXCEPT ![p] = <<>>]
     ELSE Leave(p)
  /\ UNCHANGED <<name, made, mem, lives, built, misused>>

UnlinkName(p) ==
  /\ Goto(p, "unlink", "idle")
  /\ name' = 0
  /\ UNCHANGED <<made, mem, loc, lives, built, misused, got>>

\* The process dies: nothing is unlinked, nothing deactivated.
Crash(p) ==
  /\ p \in Crashes
  /\ pc[p] # "idle"
  /\ Leave(p)
  /\ UNCHANGED <<name, made, mem, lives, built, misused>>

-----------------------------------------------------------------------------
\* The first access of a process: SIGBUS ends it if the segment has no bytes.
Touch(p) ==
  /\ M(p).sized
  /\ misused' = IF seg(p) \in built THEN misused ELSE misused \cup {seg(p)}

Sigbus(p) ==
  /\ pc[p] = "run"
  /\ ~M(p).sized
  /\ Leave(p)
  /\ UNCHANGED <<name, made, mem, lives, built, misused>>

(***************************************************************************)
(* reg_consumer, pop, del_consumer.                                        *)
(***************************************************************************)
IdsLeft(n) == n < MAX_CONSUMERS

RegTakeId(p) ==
  /\ p \in Poppers /\ pc[p] = "run" /\ loc[p].id = NONE
  /\ Touch(p)
  /\ mem' = [mem EXCEPT ![seg(p)].num_consumers = @ + 1]
  /\ IF IdsLeft(M(p).num_consumers)
     THEN /\ pc' = [pc EXCEPT ![p] = "reg_head"]
          /\ loc' = [loc EXCEPT ![p].id = M(p).num_consumers]
          /\ UNCHANGED got
     ELSE Leave(p)                                             \* it throws
  /\ UNCHANGED <<name, made, lives, built>>

\* q has claimed a position and not yet published it.
Writing(q) == pc[q] \in {"push_copy", "push_publish"}

\* q is computing the minimum.
Scanning(q) == pc[q] \in {"scan", "scan_tail"}

\* q has read its start and no scan sees it yet.
Registering(q) == pc[q] \in {"reg_tail", "reg_active"}

RegHead(p) ==
  /\ Goto(p, "reg_head", "reg_tail")
  /\ loc' = [loc EXCEPT ![p].pos = M(p).head, ![p].start = M(p).head]
  /\ misused' = IF \E q \in Procs : seg(q) = seg(p) /\ (Writing(q) \/ Scanning(q))
                THEN misused \cup {seg(p)} ELSE misused
  /\ UNCHANGED <<name, made, mem, lives, built, got>>

RegTail(p) ==
  /\ Goto(p, "reg_tail", "reg_active")
  /\ mem' = [mem EXCEPT ![seg(p)].tail[loc[p].id] = loc[p].pos]
  /\ loc' = Forget(p, 0)
  /\ UNCHANGED <<name, made, lives, built, misused, got>>

RegActivate(p) ==
  /\ Goto(p, "reg_active", "run")
  /\ mem' = [mem EXCEPT ![seg(p)].active[loc[p].id] = TRUE]
  /\ UNCHANGED <<name, made, loc, lives, built, misused, got>>

\* Active and tail are the caller's own; what is shared is the sequence.
PopLoad(p) ==
  LET t == M(p).tail[loc[p].id] IN
  /\ p \in Poppers /\ loc[p].id # NONE
  /\ Goto(p, "run", "pop_copy")
  /\ M(p).active[loc[p].id]
  /\ M(p).sequence[t % SIZE] = t
  /\ loc' = [loc EXCEPT ![p].pos = t]
  /\ UNCHANGED <<name, made, mem, lives, built, misused, got>>

PopCopy(p) ==
  /\ Goto(p, "pop_copy", "pop_advance")
  /\ got' = [got EXCEPT ![p] = Append(@, M(p).data[loc[p].pos % SIZE])]
  /\ UNCHANGED <<name, made, mem, loc, lives, built, misused>>

PopAdvance(p) ==
  /\ Goto(p, "pop_advance", "run")
  /\ mem' = [mem EXCEPT ![seg(p)].tail[loc[p].id] = loc[p].pos + 1]
  /\ loc' = Forget(p, 0)
  /\ UNCHANGED <<name, made, lives, built, misused, got>>

\* The process then detaches.
DelConsumer(p) ==
  /\ p \in Poppers /\ loc[p].id # NONE
  /\ pc[p] = "run"
  /\ mem' = [mem EXCEPT ![seg(p)].active[loc[p].id] = FALSE]
  /\ Leave(p)
  /\ UNCHANGED <<name, made, lives, built, misused>>

-----------------------------------------------------------------------------
(***************************************************************************)
(* push and computeMinTail.                                                *)
(***************************************************************************)
Full_OffByOne(h, min) == h > min + SIZE
Full(h, min) == h >= min + SIZE

PushHead(p) ==
  /\ p \in Pushers
  /\ pc[p] = "push_head" \/ (pc[p] = "run" /\ M(p).head < MaxHead)
  /\ Touch(p)
  /\ pc' = [pc EXCEPT ![p] = "push_min"]
  /\ loc' = [loc EXCEPT ![p].pos = M(p).head]
  /\ UNCHANGED <<name, made, mem, lives, built, got>>

\* A scan begins.
StartScan(p) ==
  /\ pc' = [pc EXCEPT ![p] = "scan"]
  /\ misused' = IF seg(p) \in built /\ \A q \in Procs : seg(q) = seg(p) => ~Registering(q)
                THEN misused ELSE misused \cup {seg(p)}

PushMin(p) ==
  /\ pc[p] = "push_min"
  /\ IF Full(loc[p].pos, M(p).min_tail)
     THEN /\ StartScan(p)
          /\ loc' = [loc EXCEPT ![p].min = M(p).min_tail]
     ELSE /\ pc' = [pc EXCEPT ![p] = "push_cas"]
          /\ UNCHANGED <<loc, misused>>
  /\ UNCHANGED <<name, made, mem, lives, built, got>>

ScanActive(p) ==
  /\ pc[p] = "scan" /\ loc[p].i < MAX_CONSUMERS
  /\ IF M(p).active[loc[p].i]
     THEN pc' = [pc EXCEPT ![p] = "scan_tail"] /\ UNCHANGED loc
     ELSE loc' = [loc EXCEPT ![p].i = @ + 1] /\ UNCHANGED pc
  /\ UNCHANGED <<name, made, mem, lives, built, misused, got>>

Smaller_Last(t, m) == t
Smaller(t, m) == IF m = NONE \/ t < m THEN t ELSE m

ScanTail(p) ==
  /\ Goto(p, "scan_tail", "scan")
  /\ loc' = [loc EXCEPT ![p].mini = Smaller(M(p).tail[loc[p].i], @), ![p].i = @ + 1]
  /\ UNCHANGED <<name, made, mem, lives, built, misused, got>>

\* the minimum when no consumer is active
NobodyActive(p) == 0

ScanResult_Unchecked(p) == loc[p].mini
ScanResult(p) == IF loc[p].mini = NONE THEN NobodyActive(p) ELSE loc[p].mini

\* recomputeAndStoreMinTail; pos is NONE while it runs.
Refresh(p) ==
  /\ p \in Refreshers /\ pc[p] = "run"
  /\ M(p).sized
  /\ StartScan(p)
  /\ loc' = Forget(p, NONE)
  /\ UNCHANGED <<name, made, mem, lives, built, got>>

\* computeMinTail stores its result before it returns it.
ScanStore(p) ==
  /\ loc[p].i = MAX_CONSUMERS
  /\ Goto(p, "scan", IF loc[p].pos = NONE THEN "refresh_store" ELSE "push_recheck")
  /\ mem' = [mem EXCEPT ![seg(p)].min_tail = ScanResult(p)]
  /\ loc' = [loc EXCEPT ![p].mini = ScanResult(p)]
  /\ UNCHANGED <<name, made, lives, built, misused, got>>

\* push stores it again unless it equals the value it had read.
PushRecheck(p) ==
  LET new_min == loc[p].mini IN
  /\ pc[p] = "push_recheck"
  /\ IF Full(loc[p].pos, new_min)
     THEN pc' = [pc EXCEPT ![p] = "run"] /\ loc' = Forget(p, 0)
     ELSE pc' = [pc EXCEPT ![p] = "push_cas"] /\ loc' = Forget(p, loc[p].pos)
  /\ mem' = IF new_min # loc[p].min THEN [mem EXCEPT ![seg(p)].min_tail = new_min]
                                    ELSE mem
  /\ UNCHANGED <<name, made, lives, built, misused, got>>

RefreshStore(p) ==
  /\ Goto(p, "refresh_store", "run")
  /\ mem' = [mem EXCEPT ![seg(p)].min_tail = loc[p].mini]
  /\ loc' = Forget(p, 0)
  /\ UNCHANGED <<name, made, lives, built, misused, got>>

PushCas(p) ==
  /\ Goto(p, "push_cas", "push_copy")
  /\ M(p).head = loc[p].pos
  /\ mem' = [mem EXCEPT ![seg(p)].head = @ + 1]
  /\ UNCHANGED <<name, made, loc, lives, built, misused, got>>

\* Another push was faster, or the weak exchange fails for no reason.
PushCasFails(p) ==
  /\ Goto(p, "push_cas", "push_head")
  /\ loc' = Forget(p, 0)
  /\ UNCHANGED <<name, made, mem, lives, built, misused, got>>

PushCopy(p) ==
  /\ Goto(p, "push_copy", "push_publish")
  /\ mem' = [mem EXCEPT ![seg(p)].data[loc[p].pos % SIZE] = loc[p].pos + 1]
  /\ UNCHANGED <<name, made, loc, lives, built, misused, got>>

PushPublish(p) ==
  /\ Goto(p, "push_publish", "run")
  /\ mem' = [mem EXCEPT ![seg(p)].sequence[loc[p].pos % SIZE] = loc[p].pos]
  /\ loc' = Forget(p, 0)
  /\ UNCHANGED <<name, made, lives, built, misused, got>>

-----------------------------------------------------------------------------
Construct(p) ==
  \/ Create(p) \/ OpenNew(p) \/ Truncate(p)
  \/ Attach(p) \/ OpenOld(p) \/ AttachFails(p)
  \/ MapSegment(p) \/ SystemCallFails(p)
  \/ NewMembers(p) \/ NewBody(p) \/ NewSlots(p)

Destruct(p) == Unmap(p) \/ UnlinkName(p) \/ Crash(p) \/ Sigbus(p)

Consume(p) ==
  \/ RegTakeId(p) \/ RegHead(p) \/ RegTail(p) \/ RegActivate(p)
  \/ PopLoad(p) \/ PopCopy(p) \/ PopAdvance(p) \/ DelConsumer(p)

Push(p) ==
  \/ PushHead(p) \/ PushMin(p)
  \/ ScanActive(p) \/ ScanTail(p) \/ ScanStore(p) \/ PushRecheck(p)
  \/ Refresh(p) \/ RefreshStore(p)
  \/ PushCas(p) \/ PushCasFails(p) \/ PushCopy(p) \/ PushPublish(p)

Next == \E p \in Procs : Construct(p) \/ Destruct(p) \/ Consume(p) \/ Push(p)

Spec == Init /\ [][Next]_vars

-----------------------------------------------------------------------------
(***************************************************************************)
(* Properties.  They speak of segments nobody used before their            *)
(* constructor had finished (attachers do not wait for it, and what they   *)
(* did is then wiped out), and nobody joined over a push under way (the    *)
(* consumer skips the claimed slot, and the next push may claim it too) or *)
(* over a scan (which misses it, and may find the tail of a consumer that  *)
(* is ahead of it: the next push overwrites what it has yet to read).      *)
(***************************************************************************)
Sound(p) == seg(p) # 0 /\ seg(p) \notin misused

Pcs == {"idle", "open", "truncate", "attach", "map", "new_members", "new_body",
        "new_slots", "run", "unlink", "reg_head", "reg_tail", "reg_active",
        "pop_copy", "pop_advance", "push_head", "push_min", "scan", "scan_tail",
        "push_recheck", "refresh_store", "push_cas", "push_copy", "push_publish"}

Memory ==
  [sized : BOOLEAN, head : Nat, min_tail : Nat, num_consumers : Nat,
   tail : [Ids -> Nat], active : [Ids -> BOOLEAN],
   sequence : [Slots -> Nat \cup {NONE}], data : [Slots -> Nat]]

Locals ==
  [seg : 0 .. MaxSegments, pos : Nat \cup {NONE}, min : Nat, i : Nat,
   mini : Nat \cup {NONE}, id : Ids \cup {NONE}, start : Nat]

\* Every member, local and segment has the range its declaration suggests.
ShmTypeOK ==
  /\ name \in 0 .. made /\ made \in 0 .. MaxSegments
  /\ mem \in [Segments -> Memory]
  /\ pc \in [Procs -> Pcs] /\ loc \in [Procs -> Locals]
  /\ lives \in 0 .. MaxLives
  /\ built \subseteq Segments /\ misused \subseteq Segments
  /\ got \in [Procs -> Seq(Nat)]

\* The consumer p has registered and not left.
Joined(p) ==
  p \in Poppers /\ loc[p].id # NONE /\ pc[p] \in {"run", "pop_copy", "pop_advance"}

\* Nobody touches a slot another process is copying into, though min_tail is
\* stored twice and goes back to 0 when a consumer leaves (push, pop).
NoSlotRace ==
  \A p, q \in Procs :
    /\ p # q /\ seg(p) = seg(q) /\ Sound(p)
    /\ pc[p] = "push_copy" /\ pc[q] \in {"push_copy", "pop_copy"}
    => loc[p].pos % SIZE # loc[q].pos % SIZE

\* A consumer gets the entries claimed from the head it registered at, each
\* once, in order: none of an earlier segment, no zero-filled one, even if it
\* replaces a consumer that left or died, and even if the creator was restarted
\* meanwhile (reg_consumer, pop, shm_unlink in the constructor).
DeliveredFromStart ==
  \A p \in Procs : Joined(p) /\ Sound(p) =>
    \A n \in DOMAIN got[p] : got[p][n] = loc[p].start + n

\* The id of a consumer is its own: what it stored in tail and active stays
\* until it changes it, though ids outlive the processes they were given to
\* (reg_consumer).
CursorIsOwn ==
  \A p \in Procs : Joined(p) /\ Sound(p) =>
    /\ M(p).active[loc[p].id]
    /\ M(p).tail[loc[p].id] =
         loc[p].start + Len(got[p]) - (IF pc[p] = "pop_advance" THEN 1 ELSE 0)

\* The cached minimum never passes a consumer that is reading, whichever scan
\* stored it last (computeMinTail, push).
CacheBehindReader ==
  \A p \in Procs : Joined(p) /\ Sound(p) => M(p).min_tail <= M(p).tail[loc[p].id]

InUse(p) == pc[p] \in {"new_members", "new_body", "new_slots", "run", "push_head",
                       "push_min", "scan", "scan_tail", "push_recheck", "refresh_store",
                       "push_cas", "push_copy", "push_publish"}

\* While the only creator uses its segment, the name denotes it: nobody else
\* unlinks the name or gives it to another segment (constructor, destructor).
SegmentReachable ==
  \A p \in Creators : InUse(p) => name = seg(p) /\ M(p).sized
=============================================================================
