------------------------- MODULE MCReplayVerifier --------------------------
(***************************************************************************)
(* Instance of ReplayVerifier: proofs of the presenters in Presenters, all *)
(* issued at time 0 under the trusted root.                                *)
(***************************************************************************)
EXTENDS ReplayVerifier, TLC

CONSTANTS owner, token, verifierId, Presenters

MCContext ==
    [application_id |-> "app", gate_id |-> "gate", token_program_owner |-> owner,
     token_definition_id |-> token, threshold |-> 1, verifier_id |-> verifierId,
     expires_at_unix_ms |-> None]

MCGate ==
    [well_formed |-> TRUE, context |-> MCContext,
     token |-> [token_program_owner |-> owner, definition_account_id |-> token]]

MCProofs ==
    {LET journal == new_journal(MCContext, Root, k, 0)
     IN  [journal |-> journal,
          receipt |-> [image |-> IMAGE_ID, journal |-> journal]] : k \in Presenters}
\* Invocations and nonces are interchangeable.
Symmetry == Permutations(Procs) \cup Permutations(Nonces)
=============================================================================
