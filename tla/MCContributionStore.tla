-------------------------- MODULE MCContributionStore --------------------------
(* Contribution ids are only compared: they can be permuted. *)
EXTENDS ContributionStore, TLC

Symmetry == Permutations(Cids)

================================================================================
