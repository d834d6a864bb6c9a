-------------------------- MODULE MCProviderAccess --------------------------
(***************************************************************************)
(* An instance of ProviderAccess: a slice that two worker processes may    *)
(* claim, two seconds for the minute, a lease that is shorter than that,   *)
(* and an answer for each kind of outcome: collected, retried, given up,   *)
(* given up with the binding.                                              *)
(***************************************************************************)
EXTENDS ProviderAccess

MCBindingOf == [s \in Slices |-> CHOOSE b \in Bindings : TRUE]
Says(topics) == [kind |-> "error", says |-> topics]
Is(kind) == [kind |-> kind, says |-> {}]
MCAnswers ==
  {Is("rows"), Is("full"), Says({"frequency"}), Says({"permission", "frequency"})}
=============================================================================
