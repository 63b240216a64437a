---------------------------- MODULE MCLocalFiles ----------------------------
(***************************************************************************)
(* Three commands, all kinds of files; the commands are interchangeable.   *)
(***************************************************************************)
EXTENDS LocalFiles, TLC

ProcSymmetry == Permutations(Procs)
=============================================================================
