-------------------------- MODULE MCSessionService --------------------------
(* Model values and symmetry for SessionService.                           *)
EXTENDS SessionService, TLC

Symmetry == Permutations(Calls) \cup Permutations(Users)
=============================================================================
