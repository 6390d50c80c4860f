--------------------------- MODULE MCSimplePower ---------------------------
(* Bounds for SimplePower: three slaves, a capacitor of nine levels.       *)
EXTENDS SimplePower

MCLeaks(s) == FALSE
=============================================================================
