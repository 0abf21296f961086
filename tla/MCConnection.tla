---------------------------- MODULE MCConnection ----------------------------
(* Connection.tla for model checking: its bounds are given in the .cfg files *)
(* and the users are interchangeable where only safety is checked.           *)
EXTENDS Connection, TLC

UserSymmetry == Permutations(Users)

=============================================================================
