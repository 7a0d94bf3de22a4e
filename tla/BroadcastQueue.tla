---------------------------- MODULE BroadcastQueue ----------------------------
(***************************************************************************)
(* What MPMCQueue promises its callers, without slots, cursors or caches:  *)
(* a bounded log that every member reads from its start, in order and      *)
(* without gaps.  An entry is appended first (its place is fixed) and      *)
(* becomes readable later; nobody is ever more than SIZE entries behind.   *)
(***************************************************************************)
EXTENDS Integers, Sequences

CONSTANTS
  Consumers,   \* the readers
  Entries,     \* what may be appended
  SIZE         \* how far the slowest member may be behind

VARIABLES
  log,         \* every entry ever appended, in order
  published,   \* the indices of log that are readable
  got,         \* what each reader has been given
  members      \* the readers that are attached

bvars == <<log, published, got, members>>

BInit ==
  /\ log = <<>>
  /\ published = {}
  /\ got = [c \in Consumers |-> <<>>]
  /\ members = {}

\* Readers attach before the first entry.
Join(c) ==
  /\ log = <<>>
  /\ members' = members \cup {c}
  /\ UNCHANGED <<log, published, got>>

Leave(c) ==
  /\ members' = members \ {c}
  /\ UNCHANGED <<log, published, got>>

\* An entry takes the next place when every member leaves room for it.
Claim(e) ==
  /\ \A c \in members : Len(log) < Len(got[c]) + SIZE
  /\ log' = Append(log, e)
  /\ UNCHANGED <<published, got, members>>

\* Entries become readable in any order.
Publish(n) ==
  /\ n \in 1 .. Len(log)
  /\ n \notin published
  /\ published' = published \cup {n}
  /\ UNCHANGED <<log, got, members>>

\* A member is given the next entry, which must be readable.
Deliver(c) ==
  /\ c \in members
  /\ Len(got[c]) + 1 \in published
  /\ got' = [got EXCEPT ![c] = Append(@, log[Len(@) + 1])]
  /\ UNCHANGED <<log, published, members>>

BNext ==
  \/ \E c \in Consumers : Join(c) \/ Leave(c) \/ Deliver(c)
  \/ \E e \in Entries : Claim(e)
  \/ \E n \in 1 .. Len(log) : Publish(n)

BSpec == BInit /\ [][BNext]_bvars
=============================================================================
