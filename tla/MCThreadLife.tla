----------------------------- MODULE MCThreadLife -----------------------------
(* Instances of ThreadLife for TLC. *)
EXTENDS ThreadLife, TLC

CONSTANTS j1, j2, j3

OneSpawned == {j1}
TwoSpawned == {j1, j2}
ThreeSpawned == {j1, j2, j3}

===============================================================================
