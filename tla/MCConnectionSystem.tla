------------------------- MODULE MCConnectionSystem -------------------------
(* ConnectionSystem between "x", which sends two bytes, and "y", which sends one. *)
EXTENDS ConnectionSystem

MCSide == {"x", "y"}
MCIsn == [ s \in MCSide |-> IF s = "x" THEN 3 ELSE 9 ]
MCData == [ s \in MCSide |-> IF s = "x" THEN <<1, 2>> ELSE <<11>> ]

=============================================================================
