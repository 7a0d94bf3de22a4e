------------------------------ MODULE MCMMapSink ------------------------------
(***************************************************************************)
(* Instances of MMapSink for TLC.  Record and region sizes are in cells of *)
(* which a page has PAGE: binary records all have one length, which        *)
(* divides a page; text records have any.                                  *)
(***************************************************************************)
EXTENDS MMapSink
=============================================================================
