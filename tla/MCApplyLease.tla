---------------------------- MODULE MCApplyLease ----------------------------
(* ApplyLease for TLC.  Workers, pids, tokens and proposals are each           *)
(* interchangeable in every definition and in every property of the run, so   *)
(* TLC may explore one representative per permutation.                        *)
EXTENDS ApplyLease, TLC

Symmetry == Permutations(Worker) \cup Permutations(Pid) \cup Permutations(Proposal)
            \cup Permutations(Token)
=============================================================================
