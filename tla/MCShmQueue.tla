------------------------------ MODULE MCShmQueue ------------------------------
(***************************************************************************)
(* Instances of ShmQueue for TLC: a creator that pushes, a second pusher   *)
(* and two consumers that attach.  The consumers are interchangeable.      *)
(***************************************************************************)
EXTENDS ShmQueue, TLC

Symmetry == Permutations(Poppers)

\* A run ends with the step that misuses a segment.  Of what that segment then
\* holds the properties state no more than the type, and what it holds decides
\* nothing elsewhere: a process that left it could have left it untouched.
NoMisuse == misused = {}
=============================================================================
