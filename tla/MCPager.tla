------------------------------ MODULE MCPager ------------------------------
(* Pager and its invariant on small instances.                             *)
EXTENDS PagerInvariant

Symmetry == Permutations(Conn)
=============================================================================
