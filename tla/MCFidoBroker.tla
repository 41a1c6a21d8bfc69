---------------------------- MODULE MCFidoBroker ----------------------------
(* Instances of FidoBroker; the callers are interchangeable.               *)
EXTENDS FidoBroker, TLC

ThreadSymmetry == Permutations(Threads)

==============================================================================
