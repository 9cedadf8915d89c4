---------------------------- MODULE MCAdminFeed ----------------------------
(* Small instances of AdminFeed for TLC. *)
EXTENDS AdminFeed, TLC

Symmetry == Permutations(Conns)

============================================================================
