----------------------------- MODULE MCWindows ------------------------------
(* Small instances of Windows.                                             *)
EXTENDS Windows, TLC
CONSTANTS w1, w2, i1, i2, s1, s2
Windows2 == {w1, w2}
Ids2 == {i1, i2}
Threads2 == {s1, s2}
Symmetry ==
  Permutations(Windows2) \cup Permutations(Ids2) \cup Permutations(Threads2)

(* The properties are about the time before windows are recycled, requests *)
(* cross or cleanups overlap, so what follows is not explored.             *)
BeforeDisorder == ~recycled /\ ~crossed /\ ~overlap
=============================================================================
