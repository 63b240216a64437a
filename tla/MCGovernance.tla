---------------------------- MODULE MCGovernance ----------------------------
(***************************************************************************)
(* Instance of Governance: proofs of the presenters in Presenters for      *)
(* every proposal, issued at time 0.                                       *)
(***************************************************************************)
EXTENDS Governance, TLC

CONSTANTS owner, token, Presenters, treasury, other

MCContext(proposal) ==
    [application_id |-> "proofgate-governance", gate_id |-> <<"proposal", proposal>>,
     token_program_owner |-> owner, token_definition_id |-> token, threshold |-> 1,
     verifier_id |-> <<"proofgate-governance", proposal>>,
     expires_at_unix_ms |-> None]

MCGateOf(proposal) ==
    [well_formed |-> TRUE, context |-> MCContext(proposal),
     token |-> [token_program_owner |-> owner, definition_account_id |-> token]]

MCProofs ==
    {LET journal == new_journal(MCContext(x), Root, k, 0)
     IN  [journal |-> journal, receipt |-> [image |-> IMAGE_ID, journal |-> journal]] :
       x \in Proposals, k \in Presenters}

\* Matching arguments only, or also the other proposal and a mixed-up gate file.
OneProposal == {<<treasury, treasury>>}
MixedUp == {<<treasury, treasury>>, <<other, other>>, <<treasury, other>>}

Symmetry == Permutations(Procs) \cup Permutations(Presenters) \cup Permutations(Choices)
=============================================================================
