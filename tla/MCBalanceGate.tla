--------------------------- MODULE MCBalanceGate ----------------------------
(***************************************************************************)
(* Instances of BalanceGate.  In a race time stands still and the claimants *)
(* of Racers hold one proof each; in a vigil one claimant holds proofs of   *)
(* several issue times and gate files and time passes up to Horizon; in a   *)
(* retry one claimant has two proofs for the same gate.                     *)
(***************************************************************************)
EXTENDS BalanceGate, TLC

CONSTANTS owner, token, verifierId, root, nonce, Racers, Horizon, MaxAge

MCContext(expiry) ==
    [application_id |-> "app", gate_id |-> "gate", token_program_owner |-> owner,
     token_definition_id |-> token, threshold |-> 1, verifier_id |-> verifierId,
     expires_at_unix_ms |-> expiry]

MCGate(expiry) ==
    [well_formed |-> TRUE, context |-> MCContext(expiry),
     token |-> [token_program_owner |-> owner, definition_account_id |-> token]]

MCInitArguments ==
    {[root |-> root, nonce |-> nonce, max_proof_age |-> a] : a \in {0, MaxAge}}

\* Proofs the circuit accepts: it refuses one issued after the gate's expiry.
MCProofs(holders, expiries, times) ==
    {LET journal == new_journal(MCContext(e), root, c, t)
     IN  [journal |-> journal, receipt |-> [image |-> IMAGE_ID, journal |-> journal]] :
       <<c, e, t>> \in {<<c, e, t>> \in holders \X expiries \X times :
                          \A x \in e : t <= x}}

Race == [claimants |-> Racers, horizon |-> 0, gates |-> {MCGate(None)},
         proofs |-> MCProofs(Racers, {None}, {0})]

\* Some(0) is never in the future; Some(1) expires before the horizon.
Expiries == {None, Some(0), Some(1)}

Vigil(c) == [claimants |-> {c}, horizon |-> Horizon,
             gates |-> {MCGate(e) : e \in Expiries},
             proofs |-> MCProofs({c}, Expiries, {0, 1, 2})]

RaceOrVigil == {Race} \cup {Vigil(c) : c \in Racers}

\* A holder with two proofs for one gate, while time stands still.
Retry(c) == [claimants |-> {c}, horizon |-> 0, gates |-> {MCGate(None)},
             proofs |-> MCProofs({c}, {None}, {0, 1})]

Retries == {Retry(c) : c \in Racers}

Symmetry == Permutations(Racers)
=============================================================================
