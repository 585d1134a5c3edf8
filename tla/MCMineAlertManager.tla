------------------------ MODULE MCMineAlertManager ------------------------
(* An instance of MineAlertManager for TLC: a row of points with gaps on   *)
(* both sides of the radius, one off the row, and one that add() skips.    *)
EXTENDS MineAlertManager

At(x, y) == [lon |-> x, lat |-> y]

MCPoints == {At(1, 1), At(3, 1), At(4, 1), At(6, 1), At(5, 3), At(0, 2)}
MCDelays == {3}
=============================================================================
