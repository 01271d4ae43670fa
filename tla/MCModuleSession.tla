-------------------------- MODULE MCModuleSession ----------------------------
(* One Module with one slot of reusable outputs and two outputs its ports admit. *)
EXTENDS ModuleSession
=============================================================================
