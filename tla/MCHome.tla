------------------------------ MODULE MCHome --------------------------------
(* Three homes, two migrators, a snapshot, a cleanup, an export, an import.  *)
EXTENDS Home, TLC

CONSTANTS a, b, c, x, y, m1, m2, w1

MCHomes == {a, b, c}
MCContents == {x, y}
MCInitial == {x}
MCMigrators == {m1, m2}
MCWriters == {w1}
Symmetry == Permutations({m1, m2}) \cup Permutations({b, c})
=============================================================================
