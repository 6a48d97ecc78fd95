--------------------------- MODULE MCDurableRuns ---------------------------
(***************************************************************************)
(* Instances of DurableRuns for TLC.  Job, worker and request identities   *)
(* are interchangeable, so safety runs use them up to permutation; runs    *)
(* that check liveness use no symmetry.                                    *)
(***************************************************************************)
EXTENDS DurableRuns, TLC

Symmetry ==
    Permutations(Runs) \cup Permutations(Jobs) \cup Permutations(Workers)
        \cup Permutations(Requests)

=============================================================================
