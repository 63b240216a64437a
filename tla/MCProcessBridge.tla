-------------------------- MODULE MCProcessBridge ---------------------------
(***************************************************************************)
(* Instance of ProcessBridge: one command whose input file is checked and  *)
(* one that has none; the bounds are in the configurations.                *)
(***************************************************************************)
EXTENDS ProcessBridge

MCArguments ==
    {[command |-> "present", flags |-> [flag \in {"--proof"} |-> "proof.json"]],
     [command |-> "token", flags |-> [flag \in {} |-> "none"]]}
=============================================================================
