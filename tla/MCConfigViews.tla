--------------------------- MODULE MCConfigViews ---------------------------
(* ConfigViews.tla for model checking: channel indices, and the bounds in   *)
(* the .cfg files; refreshes are interchangeable.                           *)
EXTENDS ConfigViews, TLC

OneChannel == {0}
Symmetry == Permutations(Values) \cup Permutations(Radios)

=============================================================================
