----------------------------- MODULE MpmcQueueInv -----------------------------
(***************************************************************************)
(* The inductive invariant of MpmcQueue under the usage the repository     *)
(* follows (LateJoiners = {}), and the mapping to BroadcastQueue.  TLC     *)
(* checks both on an instance; MpmcQueueProofs proves them.                *)
(***************************************************************************)
EXTENDS MpmcQueue

\* Consumer c owns entry cid[c] of consumers_.
Enrolled(c) == pc[c] \in {"reg_head", "reg_tail", "reg_active"} \/ Attached(c)

\* Entries are owned by one consumer each; only an owned entry is active.
EntriesOwned ==
  /\ \A c \in Consumers : Enrolled(c) => cid[c] < num_consumers
  /\ \A c, d \in Consumers :
       c # d /\ Enrolled(c) /\ Enrolled(d) => cid[c] # cid[d]
  /\ \A i \in Ids : active[i] =>
       \E c \in Consumers : Attached(c) /\ cid[c] = i
  /\ \A c \in Consumers : pc[c] \in {"pop_copy", "pop_adv"} => active[cid[c]]

\* Until every consumer has registered, nothing has been pushed or refreshed.
StartUp ==
  /\ ~ Ready =>
       /\ head = 0
       /\ min_tail = 0
       /\ \A i \in Ids : tail[i] = 0
       /\ \A t \in Scanners : pc[t] = "idle"
  /\ \A c \in Consumers : pc[c] = "reg_tail" => pos[c] = 0

\* Every bound b a thread may hold on the tails is one of these.
SafeBound(b) ==
  /\ b <= head
  /\ \A p \in Producers : Claimed(p) => b <= pos[p]

BelowActive(b) == \A i \in Ids : active[i] => b <= tail[i]

\* No tail has passed head or a position still being written.
TailsBehind == \A i \in Ids : SafeBound(tail[i])

\* The cached minimum is a lower bound, however stale.
CacheSafe == SafeBound(min_tail) /\ BelowActive(min_tail)

\* So is the bound a producer is about to rely on.
CasSafe ==
  \A p \in Producers : pc[p] = "cas" =>
    /\ SafeBound(lmin[p])
    /\ BelowActive(lmin[p])
    /\ pos[p] < lmin[p] + SIZE

\* And the minimum a scan has gathered, for the entries it has passed.
Scanning(t) == pc[t] \in {"scan", "scan_tail"}
ScanSafe ==
  /\ \A t \in Scanners : Scanning(t) =>
       /\ scan_min[t] # INVALID_POS => SafeBound(scan_min[t])
       /\ \A i \in Ids : i < scan_i[t] /\ active[i] =>
            scan_min[t] # INVALID_POS /\ scan_min[t] <= tail[i]
  /\ \A t \in Scanners : ~ Scanning(t) =>
       scan_i[t] = 0 /\ scan_min[t] = INVALID_POS

\* Positions that are unread or being written span at most the ring.
Window ==
  /\ \A i \in Ids : active[i] => head <= tail[i] + SIZE
  /\ \A p \in Producers : Claimed(p) => head <= pos[p] + SIZE

\* A claimed position has one owner and is not readable.
ClaimsOwned ==
  /\ \A p \in Producers : Claimed(p) =>
       pos[p] < head /\ sequence[Slot(pos[p])] # pos[p]
  /\ \A p, q \in Producers :
       p # q /\ Claimed(p) /\ Claimed(q) => pos[p] # pos[q]

\* A slot's sequence is a position of that slot, below head.
SequenceOK ==
  \A s \in Slots : sequence[s] # INVALID_POS =>
    sequence[s] < head /\ Slot(sequence[s]) = s

\* What is being written is what was claimed.
Writing ==
  /\ Len(log) = head
  /\ \A p \in Producers : Claimed(p) => log[pos[p] + 1] = Item(p)
  /\ \A p \in Producers : pc[p] = "publish" => data[Slot(pos[p])] = Item(p)

\* A consumer has been given the log up to its tail, and the slot a pop has
\* found ready stays ready until the tail moves.
Reading ==
  /\ \A c \in Consumers : ~ Attached(c) => got[c] = <<>>
  /\ \A c \in Consumers : Attached(c) =>
       /\ Len(got[c]) = tail[cid[c]] + (IF pc[c] = "pop_adv" THEN 1 ELSE 0)
       /\ \A n \in 1 .. Len(got[c]) : got[c][n] = log[n]
  /\ \A c \in Consumers : pc[c] \in {"pop_copy", "pop_adv"} => SlotReady(c)

\* The inductive invariant: together these survive every step of every thread
\* (mpmc_queue.hpp:162-299) when consumers register before the pushes.
IInv ==
  /\ TypeOK
  /\ EntriesOwned
  /\ StartUp
  /\ TailsBehind
  /\ CacheSafe
  /\ CasSafe
  /\ ScanSafe
  /\ Window
  /\ ClaimsOwned
  /\ SequenceOK
  /\ Writing
  /\ RingHoldsUnread
  /\ Reading

-----------------------------------------------------------------------------
(***************************************************************************)
(* The refinement mapping.  An entry is published when the push that       *)
(* claimed its position is done with it.                                   *)
(***************************************************************************)
readable ==
  {n \in 1 .. head : ~ \E p \in Producers : Claimed(p) /\ pos[p] = n - 1}

attached == {c \in Consumers : Attached(c) /\ active[cid[c]]}

Broadcast == INSTANCE BroadcastQueue
               WITH Entries <- Items, published <- readable,
                    members <- attached

\* Every behaviour of the ring buffer is one of the bounded log: claims wait
\* for room, every member is handed the log in order, nothing is handed out
\* before it is published (mpmc_queue.hpp:181-247).
ImplementsBroadcast == Broadcast!BSpec
=============================================================================
