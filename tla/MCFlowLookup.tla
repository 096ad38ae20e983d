---------------------------- MODULE MCFlowLookup ----------------------------
(* Small instances of FlowLookup for TLC.                                  *)
EXTENDS FlowLookup, TLC

\* The objects are interchangeable: every operator treats them alike.
MCSymmetry == Permutations(Objects)
=============================================================================
