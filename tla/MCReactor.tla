----------------------------- MODULE MCReactor ------------------------------
(* Reactor on small instances.                                             *)
EXTENDS Reactor
=============================================================================
