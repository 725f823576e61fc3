---------------------------- MODULE MCProbeConfig ----------------------------
(* ProbeConfig with every kind of writer. *)
EXTENDS ProbeConfig

Everything == Kind
=============================================================================
