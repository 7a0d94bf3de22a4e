------------------------------ MODULE RecordLog ------------------------------
(***************************************************************************)
(* What MMapSink promises the thread that writes and whoever reads the     *)
(* files, without files, regions or system calls: a log of records that    *)
(* grows at its new end, one write at a time, and is cut at its old one.   *)
(*                                                                         *)
(* A write takes the record, refuses it, or does not come back, in which   *)
(* case the record is in no file, or in one only in part.  Old records go  *)
(* only while a write is under way, never when a sink is opened, flushed,  *)
(* or dies, and they go oldest first until room could not be made in the   *)
(* orderly way.                                                            *)
(***************************************************************************)
EXTENDS Integers

VARIABLES
  asked,      \* records passed to write, which number them
  busy,       \* a write is under way, of record `asked`
  accepted,   \* records whose write returned their length
  refused,    \* records whose write returned 0
  kept,       \* records that can be read whole
  orderly     \* records went oldest first so far

rvars == <<asked, busy, accepted, refused, kept, orderly>>

RInit ==
  /\ asked = 0 /\ busy = FALSE
  /\ accepted = {} /\ refused = {} /\ kept = {}
  /\ orderly = TRUE

Ask ==
  /\ ~busy
  /\ asked' = asked + 1
  /\ busy' = TRUE
  /\ UNCHANGED <<accepted, refused, kept, orderly>>

RefuseAtOnce ==
  /\ ~busy
  /\ asked' = asked + 1
  /\ refused' = refused \cup {asked + 1}
  /\ UNCHANGED <<busy, accepted, kept, orderly>>

Accept ==
  /\ busy
  /\ busy' = FALSE
  /\ accepted' = accepted \cup {asked}
  /\ kept' = kept \cup {asked}
  /\ UNCHANGED <<asked, refused, orderly>>

Refuse ==
  /\ busy
  /\ busy' = FALSE
  /\ refused' = refused \cup {asked}
  /\ UNCHANGED <<asked, accepted, kept, orderly>>

\* The process is gone.
Abandon ==
  /\ busy
  /\ busy' = FALSE
  /\ UNCHANGED <<asked, accepted, refused, kept, orderly>>

\* Room is made: what goes is older than what stays.
DropOldest ==
  /\ busy
  /\ kept' \subseteq kept
  /\ \A i \in kept \ kept', j \in kept' : i < j
  /\ UNCHANGED <<asked, busy, accepted, refused, orderly>>

\* Room could not be made that way: from now on any record may go.
DropAny ==
  /\ busy
  /\ kept' \subseteq kept
  /\ orderly' = FALSE
  /\ UNCHANGED <<asked, busy, accepted, refused>>

RNext == Ask \/ RefuseAtOnce \/ Accept \/ Refuse \/ Abandon \/ DropOldest \/ DropAny

RSpec == RInit /\ [][RNext]_rvars
=============================================================================
