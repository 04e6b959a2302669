----------------------------- MODULE MCCLILogin -----------------------------
(* CLILogin on a small instance.  No symmetry: LoginEnds is a liveness
   property. *)
EXTENDS CLILogin
=============================================================================
