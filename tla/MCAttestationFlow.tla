------------------------- MODULE MCAttestationFlow -------------------------
(***************************************************************************)
(* Instance of AttestationFlow: a tree of four leaves that starts with the *)
(* sequencer's default anchor, an account below the threshold and one of   *)
(* another token; the last leaf is free for a qualifying account.          *)
(***************************************************************************)
EXTENDS AttestationFlow

CONSTANTS owner, tokenA, tokenB, verifierId

MCToken == [token_program_owner |-> owner, definition_account_id |-> tokenA]

MCContext(gate_id) ==
    [application_id |-> "app", gate_id |-> gate_id, token_program_owner |-> owner,
     token_definition_id |-> tokenA, threshold |-> 2, verifier_id |-> verifierId,
     expires_at_unix_ms |-> Some(2)]

MCGate == [well_formed |-> TRUE, token |-> MCToken, context |-> MCContext("gate")]
MCOtherGate == [MCGate EXCEPT !.context = MCContext("other")]

MCAccount(token, balance) ==
    [program_owner |-> owner,
     holding |-> Some([definition_id |-> token, balance |-> balance])]

MCAnchor == [program_owner |-> ZeroDigest, holding |-> None]
MCInitialLeaves == <<MCAnchor, MCAccount(tokenA, 1), MCAccount(tokenB, 2)>>
MCAccounts == {MCAnchor, MCAccount(tokenA, 1), MCAccount(tokenA, 2), MCAccount(tokenB, 2)}
MCNewAccounts == {MCAccount(tokenA, 2)}
=============================================================================
