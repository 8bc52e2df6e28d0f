---------------------------- MODULE MCSessionRun ----------------------------
(***************************************************************************)
(* SessionRun for TLC.  Messages of one kind are interchangeable.          *)
(***************************************************************************)
EXTENDS SessionRun, TLC

Interchangeable ==
    Permutations(Inputs) \cup Permutations(Adds) \cup Permutations(Interrupts)
=============================================================================
