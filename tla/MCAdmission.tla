---------------------------- MODULE MCAdmission -----------------------------
(***************************************************************************)
(* Instance of Admission: every member holds one proof, issued at time 0   *)
(* under the trusted root.                                                 *)
(***************************************************************************)
EXTENDS Admission, TLC

CONSTANTS owner, token, verifierId

MCContext ==
    [application_id |-> "chat", gate_id |-> "gate", token_program_owner |-> owner,
     token_definition_id |-> token, threshold |-> 1, verifier_id |-> verifierId,
     expires_at_unix_ms |-> None]

MCGate ==
    [well_formed |-> TRUE, context |-> MCContext,
     token |-> [token_program_owner |-> owner, definition_account_id |-> token]]

MCProofs ==
    {LET journal == new_journal(MCContext, Root, m, 0)
     IN  [journal |-> journal, receipt |-> [image |-> IMAGE_ID, journal |-> journal]] :
       m \in Members}

Symmetry == Permutations(Groups) \cup Permutations(Members) \cup Permutations(Nonces)
              \cup Permutations(Invocations)
=============================================================================
