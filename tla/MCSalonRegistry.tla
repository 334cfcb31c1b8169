--------------------------- MODULE MCSalonRegistry ---------------------------
(* SalonRegistry on a small instance.                                      *)
EXTENDS SalonRegistry, TLC

CONSTANTS cut, dye

\* The service that is known and one that is new, in either order.
FormsDef == {<<cut, dye>>, <<dye, cut>>}

Symmetry == Permutations(Req) \cup Permutations(Browsers)
=============================================================================
