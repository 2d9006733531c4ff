----------------------------- MODULE MCLazyLoad -----------------------------
(* Model checking of LazyLoad: slots and queries are interchangeable.      *)
EXTENDS LazyLoad, TLC

Symmetry == Permutations(Slot) \cup Permutations(Loader)
=============================================================================
