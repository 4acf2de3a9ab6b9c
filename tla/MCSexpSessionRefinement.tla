---------------------- MODULE MCSexpSessionRefinement ----------------------
(* The refinement check under the literals of MCSexpSession.               *)
EXTENDS SexpSessionRefinement, MCSexpSession

=============================================================================
