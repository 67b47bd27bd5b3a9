-------------------------- MODULE MCAuthController --------------------------
(* Symmetry of the model values of AuthController.                         *)
EXTENDS AuthController, TLC

Symmetry == Permutations(Requests) \cup Permutations(Users)
=============================================================================
