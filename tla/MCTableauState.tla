--------------------------- MODULE MCTableauState ---------------------------
(***************************************************************************)
(* MonitorPage for TLC: the users are interchangeable model values.         *)
(***************************************************************************)
EXTENDS MonitorPage, TLC

Symmetry == Permutations(Users)

=============================================================================
