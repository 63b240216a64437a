---------------------------- MODULE BalanceGate -----------------------------
(***************************************************************************)
(* The on-chain gate: the operator that writes the gate file, deploys and  *)
(* initializes the gate; the claimants that fetch the gate state, sign a   *)
(* claim, try it offline, prove it for a long time and send it; and the    *)
(* balance_gate program whose proved output the LEZ sequencer includes.    *)
(*                                                                         *)
(* Every claimant runs its own commands and owns one presenter key and one *)
(* private badge account, both named by the claimant.  The sequencer and   *)
(* the PPE circuit are external: a private transaction is included when    *)
(* the public pre-state it was proved for is the current one, the block's  *)
(* timestamp lies in its validity window and its badge account is new.     *)
(*                                                                         *)
(* A behaviour plays in one of Instances, chosen in the initial state.     *)
(***************************************************************************)
EXTENDS Attestation, FiniteSets

CONSTANTS
    PROGRAM_ID,                     \* BALANCE_GATE_ID
    MIN_ON_CHAIN_PROOF_AGE_MS,
    MAX_ON_CHAIN_PROOF_AGE_MS,
    MAX_ON_CHAIN_CLOCK_SKEW_MS,
    InitArguments,                  \* root, nonce and maximum proof age of an init
    Instances                       \* [claimants, horizon, gates, proofs]: who takes
                                    \* part, the bound on the clock, the gate files
                                    \* that are asked for, the proofs claimants hold

\* At most one u64 time.
IsTime(option) == option \subseteq Nat /\ \A e, f \in option : e = f

\* The proofs claimants hold are outcomes of attestation_prover::prove.
ASSUME BalanceGateAssumption ==
    /\ {MIN_ON_CHAIN_PROOF_AGE_MS, MAX_ON_CHAIN_PROOF_AGE_MS,
        MAX_ON_CHAIN_CLOCK_SKEW_MS} \subseteq Nat
    /\ \A i \in Instances :
         /\ i.horizon \in Nat
         /\ \A g \in i.gates : IsTime(g.context.expires_at_unix_ms)
         /\ \A p \in i.proofs : /\ verify_receipt(p)
                               /\ p.journal.issued_at_unix_ms \in Nat
                               /\ IsTime(p.journal.expires_at_unix_ms)

VARIABLES
    instance,    \* the element of Instances this behaviour plays in
    clock,
    deployed,    \* whether the balance_gate program is on chain
    gate,        \* the gate account: None, or the set of one GateState
    badges,      \* the private badge accounts on chain
    pool,        \* transactions that reached the sequencer, once or more often
    gateFile,    \* the operator's gate file
    initFile,    \* the operator's initial gate state
    stateFile,   \* each claimant's copy of the gate state
    claimFile,   \* each claimant's signed ClaimAccess
    badgeFile,   \* each claimant's plaintext badge; None also when truncated
    rewritten,   \* whether a badge file was written again after a claim was sent
    session,     \* what a running compose or claim-submit has in memory
    pc

vars == <<instance, clock, deployed, gate, badges, pool, gateFile, initFile,
          stateFile, claimFile, badgeFile, rewritten, session, pc>>
onChain == <<deployed, gate, badges>>
operator == <<gateFile, initFile>>
client == <<stateFile, claimFile, badgeFile, rewritten, session, pc>>

---------------------------------------------------------------------------
(* GateState.                                                              *)

\* new_with_max_proof_age and from_public_inputs.
from_public_inputs(context, root, nonce, max_proof_age) ==
    [context_hash        |-> context_hash(context),
     token_program_owner |-> context.token_program_owner,
     token_definition_id |-> context.token_definition_id,
     threshold           |-> context.threshold,
     commitment_root     |-> root,
     expires_at_unix_ms  |-> context.expires_at_unix_ms,
     max_proof_age_ms    |-> max_proof_age,
     challenge_nonce     |-> nonce,
     claim_counter       |-> 0]

\* Mutant: the proof age is not bounded from below.
validate_any_age(state) ==
    /\ state.threshold # 0
    /\ state.commitment_root # ZeroDigest
    /\ state.challenge_nonce # ZeroDigest
    /\ state.max_proof_age_ms <= MAX_ON_CHAIN_PROOF_AGE_MS

validate(state) ==
    /\ state.threshold # 0
    /\ state.commitment_root # ZeroDigest
    /\ state.challenge_nonce # ZeroDigest
    /\ state.max_proof_age_ms \in MIN_ON_CHAIN_PROOF_AGE_MS .. MAX_ON_CHAIN_PROOF_AGE_MS

\* Mutant: the challenge does not name the badge account.
challenge_for_anyone(state, program, account) ==
    [program_id        |-> program,
     gate_context_hash |-> state.context_hash,
     nonce             |-> state.challenge_nonce,
     claim_counter     |-> state.claim_counter]

challenge(state, program, account) ==
    [program_id        |-> program,
     claim_account_id  |-> account,
     gate_context_hash |-> state.context_hash,
     nonce             |-> state.challenge_nonce,
     claim_counter     |-> state.claim_counter]

on_chain_presentation_message(c, journal) ==
    sha256("OnChainPresentation", <<c, IMAGE_ID, journal>>)

\* Mutant: the counter does not move.
next_gate_state_uncounted(state, signature) ==
    [state EXCEPT !.challenge_nonce = sha256("OnChainNonce", <<@, signature>>)]

next_gate_state(state, signature) ==
    [state EXCEPT !.challenge_nonce = sha256("OnChainNonce", <<@, signature>>),
                  !.claim_counter = @ + 1]

\* evaluate_claim: on success the next gate state and the badge.
evaluate_claim(state, program, account, claim) ==
    LET journal == claim.journal
        code == first_failure(<<
          <<~validate(state), "InvalidGateState">>,
          <<journal.version # JOURNAL_VERSION, "InvalidJournal">>,
          <<\/ journal.context_hash # state.context_hash
            \/ journal.expires_at_unix_ms # state.expires_at_unix_ms, "WrongContext">>,
          <<\/ journal.token_program_owner # state.token_program_owner
            \/ journal.token_definition_id # state.token_definition_id, "WrongToken">>,
          <<journal.threshold # state.threshold, "WrongThreshold">>,
          <<journal.commitment_root # state.commitment_root, "UntrustedCommitmentRoot">>,
          <<journal.presenter_public_key \in InvalidKeys, "BadPresenter">>,
          <<claim.presenter_signature = MalformedSignature, "MalformedClaim">>,
          <<claim.presenter_signature #
              sign(journal.presenter_public_key,
                   on_chain_presentation_message(
                     challenge(state, program, account), journal)), "BadPresenter">>,
          <<state.claim_counter + 1 > U64_MAX, "CounterOverflow">> >>)
    IN  IF code = "Ok"
        THEN Ok([next_gate_state |-> next_gate_state(state, claim.presenter_signature),
                 badge |->
                   [context_hash            |-> state.context_hash,
                    presenter_public_key    |-> journal.presenter_public_key,
                    claim_number            |-> state.claim_counter + 1,
                    proof_issued_at_unix_ms |-> journal.issued_at_unix_ms]])
        ELSE Err(code)

---------------------------------------------------------------------------
(* The balance_gate guest program.                                         *)

\* gate_initialization_transaction: the instruction carries a plain u64 expiry,
\* expires_at_unix_ms.unwrap_or(0) ...
gate_initialization_transaction(state) ==
    [kind |-> "initialize",
     instruction |-> [state EXCEPT !.expires_at_unix_ms =
                        IF @ = None THEN 0 ELSE CHOOSE e \in @ : TRUE]]

\* ... and Initialize reads 0 as no expiry.
initialize(instruction) ==
    [instruction EXCEPT !.expires_at_unix_ms = IF @ # 0 THEN Some(@) ELSE None]

\* valid_from .. valid_until - 1 are the block timestamps a claim may have.
valid_from(journal) ==
    saturating_sub(journal.issued_at_unix_ms, MAX_ON_CHAIN_CLOCK_SKEW_MS)

\* Mutant: an inclusive bound is made exclusive twice.
freshness_end_late(state, journal) ==
    journal.issued_at_unix_ms + state.max_proof_age_ms + 2

freshness_end(state, journal) == journal.issued_at_unix_ms + state.max_proof_age_ms + 1

valid_until(state, journal) ==
    LET ends == {freshness_end(state, journal)} \cup
                {e + 1 : e \in {x \in journal.expires_at_unix_ms : x + 1 <= U64_MAX}}
    IN  CHOOSE e \in ends : \A f \in ends : e <= f

\* Claim: a panic is an Err, otherwise the transition and its window.
claim_program(pre_states, claim) ==
    LET state == pre_states.gate
        result == evaluate_claim(state, PROGRAM_ID, pre_states.badge, claim)
        code == IF result.code # "Ok" THEN result.code
                ELSE first_failure(<<
                  <<freshness_end(state, claim.journal) > U64_MAX, "ExpiredProof">>,
                  <<valid_from(claim.journal) >= valid_until(state, claim.journal),
                    "ExpiredProof">> >>)
    IN  IF code = "Ok"
        THEN Ok([pre_states  |-> pre_states,
                 post_states |-> [gate  |-> result.value.next_gate_state,
                                  badge |-> result.value.badge],
                 claim       |-> claim,
                 window      |-> valid_from(claim.journal) ..
                                 (valid_until(state, claim.journal) - 1)])
        ELSE Err(code)

---------------------------------------------------------------------------
(* lez-gate-sdk.  Proving, in the gate and in the PPE circuit, is external *)
(* and returns what the program returned.                                  *)

\* demo_pre_states: the gate account as the state file has it, and a new badge.
demo_pre_states(state, account) == [gate |-> state, badge |-> account]

\* execute_gate_claim_conditionally runs the guest on the mere assumption that
\* the journal has a receipt.
simulate_demo_claim(state, account, claim) ==
    claim_program(demo_pre_states(state, account), claim)

\* prove_gate_claim: the balance receipt must be genuine and must commit to the
\* journal in the claim; then the guest runs.
prove_gate_claim(pre_states, claim, proof) ==
    LET code == first_failure(<<
          <<~verify_receipt(proof), "InvalidProof">>,
          <<proof.journal # claim.journal, "JournalMismatch">> >>)
    IN  IF code = "Ok" THEN claim_program(pre_states, claim) ELSE Err(code)

\* compose_private_execution: the gate account stays public, the badge account
\* leaves as one commitment, one nullifier and one ciphertext.
compose_private_execution(execution) ==
    [public_post_states   |-> <<execution.post_states.gate>>,
     private_post_states  |-> <<[account |-> execution.pre_states.badge,
                                 badge   |-> execution.post_states.badge]>>,
     execution            |-> execution]

validate_private_claim_shape(composed) ==
    Len(composed.public_post_states) = 1 /\ Len(composed.private_post_states) = 1

private_gate_claim_transaction(composed) ==
    [kind    |-> "claim",
     pre     |-> composed.execution.pre_states.gate,
     post    |-> composed.public_post_states[1],
     account |-> composed.private_post_states[1].account,
     badge   |-> composed.private_post_states[1].badge,
     claim   |-> composed.execution.claim,
     window  |-> composed.execution.window]

gate_deployment_transaction == [kind |-> "deploy"]

---------------------------------------------------------------------------

Claimants == UNION {i.claimants : i \in Instances}

Init ==
    /\ instance \in Instances
    /\ clock = 0
    /\ deployed = FALSE
    /\ gate = None
    /\ badges = [c \in Claimants |-> None]
    /\ pool = {}
    /\ gateFile = None
    /\ initFile = None
    /\ stateFile = [c \in Claimants |-> None]
    /\ claimFile = [c \in Claimants |-> None]
    /\ badgeFile = [c \in Claimants |-> None]
    /\ rewritten = [c \in Claimants |-> FALSE]
    /\ session = [c \in Claimants |-> None]
    /\ pc = [c \in Claimants |-> "idle"]

Tick ==
    /\ clock < instance.horizon
    /\ clock' = clock + 1
    /\ UNCHANGED <<instance, onChain, pool, operator, client>>

---------------------------------------------------------------------------
(* The sequencer (external).                                               *)

IncludeDeployment(tx) ==
    /\ tx.kind = "deploy"
    /\ deployed' = TRUE
    /\ UNCHANGED <<instance, clock, gate, badges, pool, operator, client>>

\* The account constraint `init` of Initialize: the gate account must be unused.
IncludeInitialization(tx) ==
    /\ tx.kind = "initialize"
    /\ deployed
    /\ gate = None
    /\ validate(initialize(tx.instruction))
    /\ gate' = Some(initialize(tx.instruction))
    /\ gateFile' = None
    /\ initFile' = None
    /\ UNCHANGED <<instance, clock, deployed, badges, pool, client>>

\* A private transaction is executed; a copy of it may arrive again later.
IncludeClaim(tx) ==
    /\ tx.kind = "claim"
    /\ gate = Some(tx.pre)
    /\ clock \in tx.window
    /\ badges[tx.account] = None
    /\ gate' = Some(tx.post)
    /\ badges' = [badges EXCEPT ![tx.account] = Some(tx.badge)]
    /\ UNCHANGED <<instance, clock, deployed, pool, operator, client>>

fetch_public_account == gate

send_lez_transaction(tx) == pool' = pool \cup {tx}

---------------------------------------------------------------------------
(* The operator's commands.  Once the gate account is in use init-submit   *)
(* refuses, so nothing in the operator's files reaches the chain any more: *)
(* the operator is left to rest and its files are forgotten.               *)

\* Mutant: an expiry in the past is taken.
GateInitAnyExpiry(config) ==
    /\ gate = None
    /\ validate_gate(config)
    /\ gateFile' = Some(config)
    /\ UNCHANGED <<instance, clock, onChain, pool, initFile, client>>

\* gate init: an expiry must lie in the future.
GateInit(config) ==
    /\ gate = None
    /\ \A expiry \in config.context.expires_at_unix_ms : expiry > clock
    /\ validate_gate(config)
    /\ gateFile' = Some(config)
    /\ UNCHANGED <<instance, clock, onChain, pool, initFile, client>>

\* on-chain deploy.
Deploy ==
    /\ gate = None
    /\ send_lez_transaction(gate_deployment_transaction)
    /\ UNCHANGED <<instance, clock, onChain, operator, client>>

\* on-chain init.
InitState(args) ==
    /\ gate = None
    /\ \E config \in gateFile :
         LET state == from_public_inputs(config.context, args.root, args.nonce,
                                         args.max_proof_age)
         IN  /\ validate_gate(config)
             /\ validate(state)
             /\ initFile' = Some(state)
    /\ UNCHANGED <<instance, clock, onChain, pool, gateFile, client>>

\* on-chain init-submit: refused once the gate account is in use.
SubmitInitialization ==
    /\ fetch_public_account = None
    /\ \E state \in initFile :
         /\ validate(state)
         /\ send_lez_transaction(gate_initialization_transaction(state))
    /\ UNCHANGED <<instance, clock, onChain, operator, client>>

---------------------------------------------------------------------------
(* A claimant's commands, in the documented order.  Before each round it   *)
(* fetches the state file anew: submitting with an older file is the same  *)
(* as waiting between the two commands.                                    *)

Goto(c, label) == pc' = [pc EXCEPT ![c] = label]

\* Between two commands.
AtPrompt == {"idle", "fetched", "claimed", "checked"}

\* The end of a round.
GoIdle(c) ==
    /\ Goto(c, "idle")
    /\ stateFile' = [stateFile EXCEPT ![c] = None]
    /\ session' = [session EXCEPT ![c] = None]

validated_gate_state(account) == {state \in account : validate(state)}

\* on-chain state-fetch.
FetchState(c) ==
    /\ pc[c] \in AtPrompt
    /\ validated_gate_state(fetch_public_account) # None
    /\ stateFile' = [stateFile EXCEPT ![c] = validated_gate_state(fetch_public_account)]
    /\ Goto(c, "fetched")
    /\ UNCHANGED <<instance, clock, onChain, pool, operator,
                   claimFile, badgeFile, rewritten, session>>

\* on-chain claim-create: sign the challenge of the state in the state file.
CreateClaim(c, proof) ==
    /\ pc[c] \in AtPrompt
    /\ \E state \in stateFile[c] :
         /\ validate(state)
         /\ proof.journal.commitment_root = state.commitment_root
         /\ proof.journal.presenter_public_key = c
         /\ claimFile' = [claimFile EXCEPT ![c] =
              Some([journal |-> proof.journal,
                    presenter_signature |->
                      sign(c, on_chain_presentation_message(
                                challenge(state, PROGRAM_ID, c), proof.journal))])]
    /\ Goto(c, "claimed")
    /\ UNCHANGED <<instance, clock, onChain, pool, operator,
                   stateFile, badgeFile, rewritten, session>>

\* on-chain simulate: the claim is tried on the state file.
Simulate(c) ==
    /\ pc[c] = "claimed"
    /\ \E state \in stateFile[c], claim \in claimFile[c] :
         simulate_demo_claim(state, c, claim).code = "Ok"
    /\ Goto(c, "checked")
    /\ UNCHANGED <<instance, clock, onChain, pool, operator,
                   stateFile, claimFile, badgeFile, rewritten, session>>

\* on-chain compose: prove offline, for the gate of the state file.
Compose(c, proof, dev_mode) ==
    /\ pc[c] \in AtPrompt
    /\ parse_dev_mode(dev_mode) = "Disabled"
    /\ \E state \in stateFile[c], claim \in claimFile[c] :
         session' = [session EXCEPT ![c] =
           Some([pre_states |-> demo_pre_states(state, c), claim |-> claim,
                 proof |-> proof, checked |-> pc[c] = "checked", send |-> FALSE])]
    /\ Goto(c, "proving")
    /\ UNCHANGED <<instance, clock, onChain, pool, operator,
                   stateFile, claimFile, badgeFile, rewritten>>

\* Mutant: the gate account is not compared with the state file.
SubmitUncompared(c, proof, dev_mode) ==
    /\ pc[c] \in AtPrompt
    /\ parse_dev_mode(dev_mode) = "Disabled"
    /\ \E state \in validated_gate_state(fetch_public_account), claim \in claimFile[c] :
         session' = [session EXCEPT ![c] =
           Some([pre_states |-> [gate |-> state, badge |-> c], claim |-> claim,
                 proof |-> proof, checked |-> pc[c] = "checked", send |-> TRUE])]
    /\ Goto(c, "proving")
    /\ UNCHANGED <<instance, clock, onChain, pool, operator,
                   stateFile, claimFile, badgeFile, rewritten>>

\* on-chain claim-submit refetches the gate account and compares it with the
\* state file; the claim file may be one of an earlier state.  A refusal ends the
\* round.
Submit(c, proof, dev_mode) ==
    /\ pc[c] \in AtPrompt
    /\ stateFile[c] # None
    /\ parse_dev_mode(dev_mode) = "Disabled"
    /\ \E claim \in claimFile[c] :
         IF validated_gate_state(fetch_public_account) = stateFile[c]
         THEN /\ \E state \in gate :
                   session' = [session EXCEPT ![c] =
                     Some([pre_states |-> [gate |-> state, badge |-> c],
                           claim |-> claim, proof |-> proof,
                           checked |-> pc[c] = "checked", send |-> TRUE])]
              /\ Goto(c, "proving")
              /\ UNCHANGED stateFile
         ELSE GoIdle(c)
    /\ UNCHANGED <<instance, clock, onChain, pool, operator,
                   claimFile, badgeFile, rewritten>>

\* prove_gate_claim, compose_private_execution and the check of its shape, from
\* the accounts read above.
Prove(c) ==
    /\ pc[c] = "proving"
    /\ \E s \in session[c] :
         LET result == prove_gate_claim(s.pre_states, s.claim, s.proof)
             composed == compose_private_execution(result.value)
         IN  IF result.code = "Ok" /\ validate_private_claim_shape(composed)
             THEN /\ session' = [session EXCEPT ![c] =
                       Some([composed |-> composed, send |-> s.send])]
                  /\ Goto(c, "proved")
                  /\ UNCHANGED stateFile
             ELSE GoIdle(c)
    /\ UNCHANGED <<instance, clock, onChain, pool, operator,
                   claimFile, badgeFile, rewritten>>

Sent(c) == \E tx \in pool : tx.kind = "claim" /\ tx.account = c

\* write_private_json of the badge: the file is truncated ...
TruncateBadge(c) ==
    /\ pc[c] = "proved"
    /\ badgeFile' = [badgeFile EXCEPT ![c] = None]
    /\ rewritten' = [rewritten EXCEPT ![c] = Sent(c)]
    /\ Goto(c, "writing")
    /\ UNCHANGED <<instance, clock, onChain, pool, operator,
                   stateFile, claimFile, session>>

\* ... then written; compose ends here.
WriteBadge(c) ==
    /\ pc[c] = "writing"
    /\ \E s \in session[c] :
         /\ badgeFile' = [badgeFile EXCEPT ![c] =
                            Some(s.composed.private_post_states[1].badge)]
         /\ IF s.send
            THEN Goto(c, "ready") /\ UNCHANGED <<stateFile, session>>
            ELSE GoIdle(c)
    /\ UNCHANGED <<instance, clock, onChain, pool, operator, claimFile, rewritten>>

\* sendTransaction; the command then ends whether or not the reply arrives.
Send(c) ==
    /\ pc[c] = "ready"
    /\ \E s \in session[c] :
         send_lez_transaction(private_gate_claim_transaction(s.composed))
    /\ GoIdle(c)
    /\ UNCHANGED <<instance, clock, onChain, operator, claimFile, badgeFile, rewritten>>

\* Mutant: a failing write of the badge does not stop the submission.
AbortSends(c) ==
    /\ pc[c] \in {"writing", "ready"}
    /\ \E s \in session[c] :
         send_lez_transaction(private_gate_claim_transaction(s.composed))
    /\ GoIdle(c)
    /\ UNCHANGED <<instance, clock, onChain, operator, claimFile, badgeFile, rewritten>>

\* The command is killed, or a write or the request fails.
Abort(c) ==
    /\ pc[c] \notin AtPrompt
    /\ GoIdle(c)
    /\ UNCHANGED <<instance, clock, onChain, pool, operator, claimFile, badgeFile, rewritten>>

Held(c) == {proof \in instance.proofs : proof.journal.presenter_public_key = c}

Next ==
    \/ Tick
    \/ \E config \in instance.gates : GateInit(config)
    \/ \E args \in InitArguments : InitState(args)
    \/ Deploy
    \/ SubmitInitialization
    \/ \E tx \in pool :
         IncludeDeployment(tx) \/ IncludeInitialization(tx) \/ IncludeClaim(tx)
    \/ \E c \in instance.claimants :
         \/ FetchState(c) \/ Simulate(c) \/ Prove(c) \/ TruncateBadge(c)
         \/ WriteBadge(c) \/ Send(c) \/ Abort(c)
         \/ \E proof \in Held(c) :
              \/ CreateClaim(c, proof)
              \/ \E dev_mode \in DevModeValues :
                   Compose(c, proof, dev_mode) \/ Submit(c, proof, dev_mode)

Spec == Init /\ [][Next]_vars

---------------------------------------------------------------------------
(* Properties.                                                             *)

Badge(c) == CHOOSE b \in badges[c] : TRUE
Badged == {c \in Claimants : badges[c] # None}
Counter == IF gate = None THEN 0 ELSE (CHOOSE state \in gate : TRUE).claim_counter

\* Types, that the proof age of the gate on chain is within its limits, and which
\* files a claimant has at each point of its commands.
TypeOK ==
    /\ clock \in 0 .. instance.horizon
    /\ \A state \in gate :
         /\ state.max_proof_age_ms \in MIN_ON_CHAIN_PROOF_AGE_MS .. MAX_ON_CHAIN_PROOF_AGE_MS
         /\ state.claim_counter \in 0 .. U64_MAX
    /\ \A tx \in pool : tx.kind \in {"deploy", "initialize", "claim"}
    /\ \A c \in Claimants :
         /\ pc[c] \in AtPrompt \cup {"proving", "proved", "writing", "ready"}
         /\ pc[c] # "idle" <=> stateFile[c] # None
         /\ pc[c] \notin {"idle", "fetched"} => claimFile[c] # None
         /\ pc[c] \notin AtPrompt <=> session[c] # None

\* Claim numbers are given out without gap or repetition, one badge for each.
ClaimsNumbered ==
    /\ {Badge(c).claim_number : c \in Badged} = 1 .. Counter
    /\ Cardinality(Badged) = Counter

\* A signed claim is worth nothing to anyone else and nothing twice: it is refused
\* for another badge account, and for every account once the claim number it was
\* signed for has been given out.
ClaimIsBound ==
    \A state \in gate, tx \in {t \in pool : t.kind = "claim"}, a \in Claimants :
      evaluate_claim(state, PROGRAM_ID, a, tx.claim).code = "Ok" =>
        /\ a = tx.account
        /\ tx.badge.claim_number = state.claim_counter + 1

\* The holder of a badge on chain has its plaintext: it is complete on disk before
\* the transaction is sent, so no crash can lose it, unless the holder runs
\* compose or claim-submit into the same file again.
HolderHasBadge == \A c \in Badged : ~rewritten[c] => badgeFile[c] = badges[c]

\* A claim that simulate accepted is not proved in vain: the gate, the claim and
\* the proof the long proving run starts from still fit together.
NoProvingInVain ==
    \A c \in Claimants : pc[c] = "proving" =>
      \A s \in session[c] : s.checked /\ s.proof.journal = s.claim.journal =>
        prove_gate_claim(s.pre_states, s.claim, s.proof).code = "Ok"

\* A badge is created while its proof is fresh by the gate's policy and the gate
\* has not expired, both ends inclusive, however long proving and inclusion take.
IncludedInTime ==
    [][\A c \in Claimants : badges'[c] # badges[c] =>
         \A state \in gate, b \in badges'[c] :
           /\ b.proof_issued_at_unix_ms <= clock + MAX_ON_CHAIN_CLOCK_SKEW_MS
           /\ clock - b.proof_issued_at_unix_ms <= state.max_proof_age_ms
           /\ \A e \in state.expires_at_unix_ms : clock <= e]_badges

\* The gate, its claimants and the sequencer together implement AccessLedger: the
\* policy that opens it is that of a gate file, the expiry included.
Policy(state) == [state EXCEPT !.challenge_nonce = ZeroDigest, !.claim_counter = 0]
GatePolicies ==
    {Policy(from_public_inputs(g.context, a.root, a.nonce, a.max_proof_age)) :
       g \in UNION {i.gates : i \in Instances}, a \in InitArguments}
Opened == {Policy(state) : state \in gate}
Entries == [n \in 1 .. Counter |-> CHOOSE c \in Badged : Badge(c).claim_number = n]
Abstract ==
    INSTANCE AccessLedger WITH
        Accounts   <- Claimants,
        Policies   <- GatePolicies,
        MaxEntries <- U64_MAX,
        policy     <- Opened,
        ledger     <- Entries

ImplementsLedger == Abstract!Spec

\* "Transaction inclusion plus the PPE proof binds that local badge artifact to the
\* committed private output": when a claim is included and its holder runs no command,
\* a badge in his file is the badge that is now on chain.
LocalBadgeIsCommitted ==
    [][\A c \in Claimants :
         badges'[c] # badges[c] /\ pc[c] \in AtPrompt =>
           badgeFile[c] \subseteq badges'[c]]_badges
=============================================================================
