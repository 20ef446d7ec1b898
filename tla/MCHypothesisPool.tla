-------------------------- MODULE MCHypothesisPool --------------------------
(* Small instances of HypothesisPool: model values for candidates. *)
EXTENDS HypothesisPool, TLC

\* Seeds are interchangeable: Init and Next name none.  Used only where no
\* liveness property is checked.
PoolSymmetry == Permutations(SeedIds)

=============================================================================
