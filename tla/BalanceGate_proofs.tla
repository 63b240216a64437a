------------------------- MODULE BalanceGate_proofs -------------------------
(***************************************************************************)
(* Proofs about the on-chain gate, for any claimants, gate files, proofs,  *)
(* clocks and limits: claim numbers are given out without gap, a signed    *)
(* claim is worth nothing to others and nothing twice, no crash loses the  *)
(* plaintext of a badge that may come on chain, badges are made in time,   *)
(* and the whole implements AccessLedger.                                  *)
(*                                                                         *)
(* What is proved of a transaction is proved of what the program returned  *)
(* for the gate it was run on, hours before it is included; it reaches the *)
(* chain through the command's memory and the pool, so the invariant says  *)
(* the same of a composed claim at each of these places.                   *)
(***************************************************************************)
EXTENDS BalanceGate, Attestation_proofs, FiniteSetTheorems, SequenceTheorems, TLAPS

---------------------------------------------------------------------------
(* The inductive invariant.                                                *)

GateFields ==
    {"context_hash", "token_program_owner", "token_definition_id", "threshold",
     "commitment_root", "expires_at_unix_ms", "max_proof_age_ms", "challenge_nonce",
     "claim_counter"}

\* A gate state the program may have written.
IsGate(state) ==
    /\ state = [f \in GateFields |-> state[f]]
    /\ state.claim_counter \in 0 .. U64_MAX
    /\ state.max_proof_age_ms \in MIN_ON_CHAIN_PROOF_AGE_MS .. MAX_ON_CHAIN_PROOF_AGE_MS

HasTimes(journal) ==
    journal.issued_at_unix_ms \in Nat /\ IsTime(journal.expires_at_unix_ms)

\* The state the operator's init makes of one of its gate files.
IsInitial(state) ==
    IsGate(state) /\ state.claim_counter = 0 /\ Policy(state) \in GatePolicies

Fresh(badge, state, t) ==
    /\ badge.proof_issued_at_unix_ms <= t + MAX_ON_CHAIN_CLOCK_SKEW_MS
    /\ t - badge.proof_issued_at_unix_ms <= state.max_proof_age_ms
    /\ \A e \in state.expires_at_unix_ms : t <= e

SignedFor(claim, state, account) ==
    claim.presenter_signature =
      sign(claim.journal.presenter_public_key,
           on_chain_presentation_message(challenge(state, PROGRAM_ID, account),
                                         claim.journal))

\* A claim the program accepted for the gate tx.pre.
IsClaim(tx) ==
    /\ tx.kind = "claim"
    /\ tx.account \in Claimants
    /\ IsGate(tx.pre) /\ IsGate(tx.post)
    /\ tx.post.claim_counter = tx.pre.claim_counter + 1
    /\ Policy(tx.post) = Policy(tx.pre)
    /\ tx.badge.claim_number = tx.pre.claim_counter + 1
    /\ SignedFor(tx.claim, tx.pre, tx.account)
    /\ \A t \in tx.window : Fresh(tx.badge, tx.pre, t)

World ==
    /\ instance \in Instances
    /\ clock \in 0 .. instance.horizon

Operator ==
    /\ \A config \in gateFile :
         config \in instance.gates /\ \A e \in config.context.expires_at_unix_ms : e > 0
    /\ \A state \in initFile :
         /\ IsInitial(state)
         /\ IsTime(state.expires_at_unix_ms) /\ 0 \notin state.expires_at_unix_ms

Pool ==
    \A tx \in pool : \/ tx.kind = "deploy"
                     \/ tx.kind = "initialize" /\ IsInitial(initialize(tx.instruction))
                     \/ IsClaim(tx)

\* What compose or claim-submit starts from.
IsJob(c, s) ==
    /\ s.pre_states.badge = c /\ IsGate(s.pre_states.gate)
    /\ HasTimes(s.claim.journal)
    /\ verify_receipt(s.proof)
    /\ s.checked => claim_program(s.pre_states, s.claim).code = "Ok"

ComposedBadge(s) == s.composed.private_post_states[1].badge

\* What it has in memory once it has proved.
IsComposed(c, s) ==
    /\ IsClaim(private_gate_claim_transaction(s.composed))
    /\ private_gate_claim_transaction(s.composed).account = c

Alone(option) == \A x, y \in option : x = y

Labels == AtPrompt \cup {"proving", "proved", "writing", "ready"}

\* A claimant's files and commands.
Round(c) ==
    /\ pc[c] \in Labels
    /\ pc[c] # "idle" <=> stateFile[c] # None
    /\ pc[c] \notin {"idle", "fetched"} => claimFile[c] # None
    /\ pc[c] \notin AtPrompt <=> session[c] # None
    /\ Alone(stateFile[c]) /\ Alone(claimFile[c]) /\ Alone(session[c])
    /\ \A state \in stateFile[c] : IsGate(state)
    /\ \A claim \in claimFile[c] : HasTimes(claim.journal)
    /\ pc[c] = "checked" =>
         \A state \in stateFile[c], claim \in claimFile[c] :
           simulate_demo_claim(state, c, claim).code = "Ok"
    /\ pc[c] = "proving" => \A s \in session[c] : IsJob(c, s)
    /\ pc[c] \in {"proved", "writing", "ready"} => \A s \in session[c] : IsComposed(c, s)

\* A badge file is overwritten only before the first claim is sent, or knowingly.
BadgeKept(c) ==
    /\ pc[c] \in {"writing", "ready"} => rewritten[c] \/ ~Sent(c)
    /\ pc[c] = "ready" => \A s \in session[c] : badgeFile[c] = Some(ComposedBadge(s))
    /\ \A tx \in pool : tx.kind = "claim" /\ tx.account = c /\ ~rewritten[c] =>
         badgeFile[c] = Some(tx.badge)
    /\ badges[c] # None =>
         \E tx \in pool : tx.kind = "claim" /\ tx.account = c /\ badges[c] = Some(tx.badge)

Shapes ==
    /\ pc \in [Claimants -> Labels]
    /\ rewritten \in [Claimants -> BOOLEAN]
    /\ DOMAIN badges = Claimants /\ DOMAIN stateFile = Claimants
    /\ DOMAIN claimFile = Claimants /\ DOMAIN badgeFile = Claimants
    /\ DOMAIN session = Claimants

Ledger ==
    /\ Alone(gate) /\ \A state \in gate : IsGate(state)
    /\ IsFiniteSet(Badged)
    /\ ClaimsNumbered
    /\ \A c, d \in Badged : Badge(c).claim_number = Badge(d).claim_number => c = d

IInv ==
    /\ World /\ Operator /\ Pool /\ Shapes /\ Ledger
    /\ \A c \in Claimants : Round(c) /\ BadgeKept(c)

---------------------------------------------------------------------------
(* The gate program.                                                       *)

\* Two gate states with the same fields are the same.
LEMMA GateFunction ==
    ASSUME NEW state, IsGate(state)
    PROVE  DOMAIN state = GateFields
BY DEF IsGate

\* next_gate_state counts and keeps everything but the nonce.
LEMMA NextGate ==
    ASSUME NEW state, NEW signature, IsGate(state), state.claim_counter + 1 <= U64_MAX
    PROVE  /\ IsGate(next_gate_state(state, signature))
           /\ next_gate_state(state, signature).claim_counter = state.claim_counter + 1
           /\ Policy(next_gate_state(state, signature)) = Policy(state)
<1> DEFINE next == next_gate_state(state, signature)
<1>1. DOMAIN state = GateFields /\ state = [f \in GateFields |-> state[f]]
  BY DEF IsGate
<1>2. next = [f \in GateFields |->
                IF f = "challenge_nonce"
                THEN sha256("OnChainNonce", <<state.challenge_nonce, signature>>)
                ELSE IF f = "claim_counter" THEN state.claim_counter + 1 ELSE state[f]]
  BY <1>1 DEF next_gate_state, GateFields
<1>3. IsGate(next) /\ next.claim_counter = state.claim_counter + 1
  BY <1>1, <1>2, TimeAssumption, BalanceGateAssumption DEF IsGate, GateFields
<1>4. Policy(next) = Policy(state)
  BY <1>1, <1>2 DEF Policy, GateFields
<1>5. QED
  BY <1>3, <1>4

\* An accepted claim is one of this gate, signed for it and for this account.
LEMMA EvaluateAccepts ==
    ASSUME NEW state, NEW account, NEW claim,
           evaluate_claim(state, PROGRAM_ID, account, claim).code = "Ok"
    PROVE  /\ claim.journal.expires_at_unix_ms = state.expires_at_unix_ms
           /\ SignedFor(claim, state, account)
           /\ ~(state.claim_counter + 1 > U64_MAX)
           /\ LET value == evaluate_claim(state, PROGRAM_ID, account, claim).value
              IN  /\ value.next_gate_state =
                       next_gate_state(state, claim.presenter_signature)
                  /\ value.badge.claim_number = state.claim_counter + 1
                  /\ value.badge.proof_issued_at_unix_ms = claim.journal.issued_at_unix_ms
<1> DEFINE journal == claim.journal
           checks == <<
             <<~validate(state), "InvalidGateState">>,
             <<journal.version # JOURNAL_VERSION, "InvalidJournal">>,
             <<\/ journal.context_hash # state.context_hash
               \/ journal.expires_at_unix_ms # state.expires_at_unix_ms, "WrongContext">>,
             <<\/ journal.token_program_owner # state.token_program_owner
               \/ journal.token_definition_id # state.token_definition_id, "WrongToken">>,
             <<journal.threshold # state.threshold, "WrongThreshold">>,
             <<journal.commitment_root # state.commitment_root, "UntrustedCommitmentRoot">>,
             <<journal.presenter_public_key \in InvalidKeys, "BadPresenter">>,
             <<claim.presenter_signature = MalformedSignature, "MalformedClaim">>,
             <<claim.presenter_signature #
                 sign(journal.presenter_public_key,
                      on_chain_presentation_message(
                        challenge(state, PROGRAM_ID, account), journal)), "BadPresenter">>,
             <<state.claim_counter + 1 > U64_MAX, "CounterOverflow">> >>
           made == [next_gate_state |-> next_gate_state(state, claim.presenter_signature),
                    badge |->
                      [context_hash            |-> state.context_hash,
                       presenter_public_key    |-> journal.presenter_public_key,
                       claim_number            |-> state.claim_counter + 1,
                       proof_issued_at_unix_ms |-> journal.issued_at_unix_ms]]
<1>1. evaluate_claim(state, PROGRAM_ID, account, claim) =
        IF first_failure(checks) = "Ok" THEN Ok(made) ELSE Err(first_failure(checks))
  BY DEF evaluate_claim
<1>2. first_failure(checks) = "Ok"
  <2> HIDE DEF checks, made
  <2>1. QED
    BY <1>1 DEF Err
<1>3. DOMAIN checks = 1 .. 10 /\ \A i \in 1 .. 10 : checks[i][1] => checks[i][2] # "Ok"
  OBVIOUS
<1>4. \A i \in 1 .. 10 : ~checks[i][1]
  <2> HIDE DEF checks
  <2>1. QED
    BY <1>2, <1>3, FirstFailureOk
<1>5. /\ ~checks[3][1] /\ ~checks[9][1] /\ ~checks[10][1]
  BY <1>4
<1>6. /\ claim.journal.expires_at_unix_ms = state.expires_at_unix_ms
      /\ SignedFor(claim, state, account)
      /\ ~(state.claim_counter + 1 > U64_MAX)
  BY <1>5 DEF SignedFor
<1>7. evaluate_claim(state, PROGRAM_ID, account, claim).value = made
  <2> HIDE DEF checks, made
  <2>1. QED
    BY <1>1, <1>2 DEF Ok
<1>8. QED
  BY <1>6, <1>7

\* The window of a claim ends with the freshness of its proof and with the gate.
LEMMA WindowEnds ==
    ASSUME NEW state, NEW journal, IsGate(state), HasTimes(journal)
    PROVE  /\ freshness_end(state, journal) \in Nat
           /\ valid_until(state, journal) \in Nat
           /\ valid_until(state, journal) <= freshness_end(state, journal)
           /\ \A e \in journal.expires_at_unix_ms :
                e + 1 <= U64_MAX => valid_until(state, journal) <= e + 1
<1> DEFINE ends == {freshness_end(state, journal)} \cup
                   {e + 1 : e \in {x \in journal.expires_at_unix_ms : x + 1 <= U64_MAX}}
<1>1. freshness_end(state, journal) \in Nat
  BY BalanceGateAssumption DEF freshness_end, IsGate, HasTimes
<1>2. ends \subseteq Nat /\ ends # {}
  BY <1>1 DEF HasTimes, IsTime
<1>3. /\ valid_until(state, journal) \in ends
      /\ \A f \in ends : valid_until(state, journal) <= f
  <2>1. valid_until(state, journal) = CHOOSE e \in ends : \A f \in ends : e <= f
    BY DEF valid_until
  <2> HIDE DEF ends
  <2>2. \E e \in ends : \A f \in ends : e <= f
    BY <1>2, LeastIndex
  <2>3. QED
    BY <2>1, <2>2
<1>4. QED
  BY <1>1, <1>2, <1>3

\* Whatever the program accepts becomes a claim that is true of its gate.
LEMMA ProgramAccepts ==
    ASSUME NEW pre_states, NEW claim, pre_states.badge \in Claimants,
           IsGate(pre_states.gate), HasTimes(claim.journal),
           claim_program(pre_states, claim).code = "Ok"
    PROVE  LET composed == compose_private_execution(claim_program(pre_states, claim).value)
               tx == private_gate_claim_transaction(composed)
           IN  /\ IsClaim(tx) /\ tx.account = pre_states.badge
               /\ tx.badge = composed.private_post_states[1].badge
<1> DEFINE state == pre_states.gate
           journal == claim.journal
           result == evaluate_claim(state, PROGRAM_ID, pre_states.badge, claim)
           checks == <<
             <<freshness_end(state, journal) > U64_MAX, "ExpiredProof">>,
             <<valid_from(journal) >= valid_until(state, journal), "ExpiredProof">> >>
           code == IF result.code # "Ok" THEN result.code ELSE first_failure(checks)
           window == valid_from(journal) .. (valid_until(state, journal) - 1)
           output == [pre_states  |-> pre_states,
                      post_states |-> [gate  |-> result.value.next_gate_state,
                                       badge |-> result.value.badge],
                      claim       |-> claim,
                      window      |-> window]
           tx == private_gate_claim_transaction(compose_private_execution(output))
<1>1. claim_program(pre_states, claim) = IF code = "Ok" THEN Ok(output) ELSE Err(code)
  BY DEF claim_program
<1>2. code = "Ok" /\ claim_program(pre_states, claim).value = output
  <2> HIDE DEF code, output
  <2>1. QED
    BY <1>1 DEF Ok, Err
<1>3. result.code = "Ok" /\ first_failure(checks) = "Ok"
  <2> HIDE DEF result, checks
  <2>1. QED
    BY <1>2
<1>4. ~(freshness_end(state, journal) > U64_MAX)
  <2>1. DOMAIN checks = 1 .. 2 /\ \A i \in 1 .. 2 : checks[i][1] => checks[i][2] # "Ok"
    OBVIOUS
  <2>2. \A i \in 1 .. 2 : ~checks[i][1]
    <3> HIDE DEF checks
    <3>1. QED
      BY <1>3, <2>1, FirstFailureOk
  <2>3. ~checks[1][1]
    BY <2>2
  <2>4. QED
    BY <2>3
<1>5. /\ tx.kind = "claim" /\ tx.pre = state /\ tx.account = pre_states.badge
      /\ tx.post = result.value.next_gate_state /\ tx.badge = result.value.badge
      /\ tx.claim = claim /\ tx.window = window
      /\ tx.badge = compose_private_execution(output).private_post_states[1].badge
  <2> HIDE DEF result, window
  <2>1. QED
    BY DEF private_gate_claim_transaction, compose_private_execution
<1>6. /\ journal.expires_at_unix_ms = state.expires_at_unix_ms
      /\ SignedFor(claim, state, pre_states.badge)
      /\ state.claim_counter + 1 <= U64_MAX
      /\ tx.post = next_gate_state(state, claim.presenter_signature)
      /\ tx.badge.claim_number = state.claim_counter + 1
      /\ tx.badge.proof_issued_at_unix_ms = journal.issued_at_unix_ms
  <2>1. /\ journal.expires_at_unix_ms = state.expires_at_unix_ms
        /\ SignedFor(claim, state, pre_states.badge)
        /\ ~(state.claim_counter + 1 > U64_MAX)
        /\ result.value.next_gate_state = next_gate_state(state, claim.presenter_signature)
        /\ result.value.badge.claim_number = state.claim_counter + 1
        /\ result.value.badge.proof_issued_at_unix_ms = journal.issued_at_unix_ms
    BY <1>3, EvaluateAccepts
  <2>2. state.claim_counter \in Nat
    BY TimeAssumption DEF IsGate
  <2>3. state.claim_counter + 1 <= U64_MAX
    <3> DEFINE k == state.claim_counter
    <3>1. k \in Nat /\ ~(k + 1 > U64_MAX)
      BY <2>1, <2>2
    <3> HIDE DEF k
    <3>2. k + 1 <= U64_MAX
      BY <3>1, TimeAssumption
    <3>3. QED
      BY <3>2 DEF k
  <2> HIDE DEF tx, result
  <2>4. QED
    BY <1>5, <2>1, <2>3
<1>7. ASSUME NEW t \in window
      PROVE  Fresh(tx.badge, state, t)
  <2>0. /\ freshness_end(state, journal) \in Nat
        /\ valid_until(state, journal) \in Nat
        /\ valid_until(state, journal) <= freshness_end(state, journal)
        /\ \A e \in journal.expires_at_unix_ms :
             e + 1 <= U64_MAX => valid_until(state, journal) <= e + 1
    BY WindowEnds
  <2>1. t \in Int /\ t < valid_until(state, journal) /\ valid_from(journal) <= t
    BY <1>7, <2>0, BalanceGateAssumption DEF valid_from, saturating_sub, HasTimes
  <2>2. journal.issued_at_unix_ms <= t + MAX_ON_CHAIN_CLOCK_SKEW_MS
    BY <2>1, BalanceGateAssumption DEF valid_from, saturating_sub, HasTimes
  <2>3. t - journal.issued_at_unix_ms <= state.max_proof_age_ms
    BY <2>0, <2>1, BalanceGateAssumption DEF freshness_end, HasTimes, IsGate
  <2>4. \A e \in state.expires_at_unix_ms : t <= e
    BY <1>4, <1>6, <2>0, <2>1, TimeAssumption DEF HasTimes, IsTime
  <2>5. QED
    BY <1>6, <2>2, <2>3, <2>4 DEF Fresh
<1>8. IsClaim(tx)
  <2>1. /\ IsGate(tx.post) /\ tx.post.claim_counter = state.claim_counter + 1
        /\ Policy(tx.post) = Policy(state)
    <3> HIDE DEF tx
    <3>1. QED
      BY <1>6, NextGate
  <2> HIDE DEF tx, window
  <2>2. QED
    BY <1>5, <1>6, <1>7, <2>1 DEF IsClaim
<1>9. QED
  <2> HIDE DEF output
  <2>1. QED
    BY <1>2, <1>5, <1>8

\* Proving answers what the program answers, once the balance proof is checked.
LEMMA ProvingRuns ==
    ASSUME NEW pre_states, NEW claim, NEW proof,
           prove_gate_claim(pre_states, claim, proof).code = "Ok"
    PROVE  prove_gate_claim(pre_states, claim, proof) = claim_program(pre_states, claim)
<1> DEFINE code == first_failure(<<
             <<~verify_receipt(proof), "InvalidProof">>,
             <<proof.journal # claim.journal, "JournalMismatch">> >>)
<1>1. prove_gate_claim(pre_states, claim, proof) =
        IF code = "Ok" THEN claim_program(pre_states, claim) ELSE Err(code)
  BY DEF prove_gate_claim
<1> HIDE DEF code
<1>2. QED
  BY <1>1 DEF Err

\* With a genuine proof of the claim's journal it always runs the program.
LEMMA GenuineProofRuns ==
    ASSUME NEW pre_states, NEW claim, NEW proof,
           verify_receipt(proof), proof.journal = claim.journal
    PROVE  prove_gate_claim(pre_states, claim, proof) = claim_program(pre_states, claim)
<1> DEFINE checks == <<
             <<~verify_receipt(proof), "InvalidProof">>,
             <<proof.journal # claim.journal, "JournalMismatch">> >>
<1>1. prove_gate_claim(pre_states, claim, proof) =
        IF first_failure(checks) = "Ok" THEN claim_program(pre_states, claim)
        ELSE Err(first_failure(checks))
  BY DEF prove_gate_claim
<1>2. {i \in DOMAIN checks : checks[i][1]} = {}
  <2>1. DOMAIN checks = {1, 2}
    OBVIOUS
  <2>2. ~checks[1][1] /\ ~checks[2][1]
    OBVIOUS
  <2> HIDE DEF checks
  <2>3. QED
    BY <2>1, <2>2
<1>3. first_failure(checks) = "Ok"
  <2> HIDE DEF checks
  <2>1. QED
    BY <1>2 DEF first_failure
<1> HIDE DEF checks
<1>4. QED
  BY <1>1, <1>3

\* on-chain init makes an initial state that has the expiry of the gate file.
LEMMA InitMakes ==
    ASSUME World, NEW config \in instance.gates, NEW args \in InitArguments,
           validate(from_public_inputs(config.context, args.root, args.nonce,
                                       args.max_proof_age))
    PROVE  LET state == from_public_inputs(config.context, args.root, args.nonce,
                                           args.max_proof_age)
           IN  /\ IsInitial(state)
               /\ state.expires_at_unix_ms = config.context.expires_at_unix_ms
<1> DEFINE state == from_public_inputs(config.context, args.root, args.nonce,
                                       args.max_proof_age)
<1>1. /\ DOMAIN state = GateFields /\ state = [f \in GateFields |-> state[f]]
      /\ state.claim_counter = 0
      /\ state.expires_at_unix_ms = config.context.expires_at_unix_ms
  BY DEF from_public_inputs, GateFields
<1>2. IsGate(state)
  <2>1. validate(state)
    OBVIOUS
  <2> HIDE DEF state
  <2>2. QED
    BY <1>1, <2>1, TimeAssumption DEF IsGate, validate
<1>3. config \in UNION {i.gates : i \in Instances}
  BY DEF World
<1> HIDE DEF state
<1>4. Policy(state) \in GatePolicies
  BY <1>3 DEF state, GatePolicies
<1>5. IsInitial(state)
  BY <1>1, <1>2, <1>4 DEF IsInitial
<1>6. QED
  BY <1>1, <1>5 DEF state

\* The instruction's plain expiry is read back as the optional one it came from.
LEMMA ExpirySurvives ==
    ASSUME NEW state, IsGate(state), IsTime(state.expires_at_unix_ms),
           0 \notin state.expires_at_unix_ms
    PROVE  initialize(gate_initialization_transaction(state).instruction) = state
<1> DEFINE expiry == state.expires_at_unix_ms
           plain == IF expiry = None THEN 0 ELSE CHOOSE e \in expiry : TRUE
           instruction == [state EXCEPT !.expires_at_unix_ms = plain]
<1>1. DOMAIN state = GateFields /\ state = [f \in GateFields |-> state[f]]
  BY DEF IsGate
<1>2. (IF plain # 0 THEN Some(plain) ELSE None) = expiry
  <2>1. CASE expiry = None
    BY <2>1
  <2>2. CASE expiry # None
    <3>1. plain \in expiry
      BY <2>2 DEF None
    <3>2. expiry = Some(plain)
      BY <3>1 DEF IsTime, Some
    <3>3. QED
      BY <3>1, <3>2
  <2>3. QED
    BY <2>1, <2>2
<1> HIDE DEF plain
<1>3. gate_initialization_transaction(state).instruction = instruction
  BY DEF gate_initialization_transaction, plain
<1>4. /\ instruction = [f \in GateFields |->
                          IF f = "expires_at_unix_ms" THEN plain ELSE state[f]]
      /\ instruction.expires_at_unix_ms = plain
  BY <1>1 DEF GateFields
<1> HIDE DEF instruction
<1>5. initialize(instruction) =
        [f \in GateFields |-> IF f = "expires_at_unix_ms"
                              THEN IF plain # 0 THEN Some(plain) ELSE None
                              ELSE state[f]]
  BY <1>4 DEF initialize
<1>6. initialize(instruction) = [f \in GateFields |-> state[f]]
  BY <1>2, <1>5
<1>7. QED
  BY <1>1, <1>3, <1>6

---------------------------------------------------------------------------
(* Time, the operator and the sequencer.                                   *)

\* A round is a matter of the claimant's own files and command.
LEMMA RoundStays ==
    ASSUME NEW c \in Claimants, Round(c),
           pc'[c] = pc[c], stateFile'[c] = stateFile[c], claimFile'[c] = claimFile[c],
           session'[c] = session[c]
    PROVE  Round(c)'
BY DEF Round

\* Nothing happens to a badge while the claimant rests and no claim of it is sent.
LEMMA BadgeStays ==
    ASSUME NEW c \in Claimants, BadgeKept(c), pool \subseteq pool',
           \A tx \in pool' \ pool : ~(tx.kind = "claim" /\ tx.account = c),
           pc'[c] = pc[c], session'[c] = session[c], badgeFile'[c] = badgeFile[c],
           rewritten'[c] = rewritten[c], badges'[c] = badges[c]
    PROVE  BadgeKept(c)'
<1>1. Sent(c)' => Sent(c)
  BY DEF Sent
<1>2. QED
  BY <1>1 DEF BadgeKept, ComposedBadge

\* The ledger rests while the gate account and the badges do.
LEMMA LedgerStays ==
    ASSUME Ledger, UNCHANGED <<gate, badges>>
    PROVE  Ledger'
<1>1. Badged' = Badged /\ Counter' = Counter
  BY DEF Badged, Counter
<1>2. \A c : Badge(c)' = Badge(c)
  BY DEF Badge
<1>3. ClaimsNumbered'
  BY <1>1, <1>2 DEF Ledger, ClaimsNumbered
<1>4. QED
  BY <1>1, <1>2, <1>3 DEF Ledger

\* Whatever leaves the claimants alone leaves their rounds and badges alone.
LEMMA ClientsRest ==
    ASSUME IInv, UNCHANGED client, UNCHANGED badges, pool \subseteq pool',
           \A tx \in pool' \ pool : tx.kind # "claim"
    PROVE  Shapes' /\ \A c \in Claimants : Round(c)' /\ BadgeKept(c)'
<1>1. Shapes'
  BY DEF IInv, Shapes, client
<1>2. ASSUME NEW c \in Claimants
      PROVE  Round(c)' /\ BadgeKept(c)'
  BY RoundStays, BadgeStays DEF IInv, client
<1>3. QED
  BY <1>1, <1>2

\* Time and the operator's commands.
LEMMA OperatorStep ==
    ASSUME IInv,
           \/ Tick \/ Deploy \/ SubmitInitialization
           \/ \E config \in instance.gates : GateInit(config)
           \/ \E args \in InitArguments : InitState(args)
    PROVE  IInv'
<1>1. UNCHANGED <<client, badges, gate, instance>>
  BY DEF Tick, Deploy, SubmitInitialization, GateInit, InitState, onChain
<1>2. CASE Tick
  <2>1. World'
    BY <1>1, <1>2, BalanceGateAssumption DEF Tick, IInv, World
  <2>2. Operator' /\ Pool'
    BY <1>1, <1>2 DEF Tick, operator, IInv, Operator, Pool
  <2>3. QED
    BY <1>1, <1>2, <2>1, <2>2, ClientsRest, LedgerStays DEF IInv, Tick
<1>3. CASE Deploy
  <2>1. pool' = pool \cup {gate_deployment_transaction}
    BY <1>3 DEF Deploy, send_lez_transaction
  <2>2. gate_deployment_transaction.kind = "deploy"
    BY DEF gate_deployment_transaction
  <2>3. World' /\ Operator'
    BY <1>1, <1>3 DEF Deploy, operator, IInv, World, Operator
  <2>4. Pool'
    BY <2>1, <2>2 DEF IInv, Pool
  <2>5. QED
    BY <1>1, <2>1, <2>2, <2>3, <2>4, ClientsRest, LedgerStays DEF IInv
<1>4. CASE SubmitInitialization
  <2>1. PICK state \in initFile : pool' = pool \cup {gate_initialization_transaction(state)}
    BY <1>4 DEF SubmitInitialization, send_lez_transaction
  <2> DEFINE tx == gate_initialization_transaction(state)
  <2>2. tx.kind = "initialize"
    BY DEF gate_initialization_transaction
  <2>3. IsInitial(initialize(tx.instruction))
    BY ExpirySurvives DEF IInv, Operator, IsInitial
  <2> HIDE DEF tx
  <2>4. World' /\ Operator'
    BY <1>1, <1>4 DEF SubmitInitialization, operator, IInv, World, Operator
  <2>5. pool' = pool \cup {tx}
    BY <2>1 DEF tx
  <2>6. Pool'
    BY <2>2, <2>3, <2>5 DEF IInv, Pool
  <2>7. QED
    BY <1>1, <2>2, <2>4, <2>5, <2>6, ClientsRest, LedgerStays DEF IInv
<1>5. ASSUME NEW config \in instance.gates, GateInit(config)
      PROVE  IInv'
  <2>1. clock \in Nat /\ IsTime(config.context.expires_at_unix_ms)
    BY BalanceGateAssumption DEF IInv, World
  <2>2. \A e \in config.context.expires_at_unix_ms : e > 0
    BY <1>5, <2>1 DEF GateInit, IsTime
  <2>3. World' /\ Operator' /\ Pool' /\ pool' = pool
    BY <1>1, <1>5, <2>2 DEF GateInit, Some, IInv, World, Operator, Pool
  <2>4. QED
    BY <1>1, <2>3, ClientsRest, LedgerStays DEF IInv
<1>6. ASSUME NEW args \in InitArguments, InitState(args)
      PROVE  IInv'
  <2> DEFINE made(g) == from_public_inputs(g.context, args.root, args.nonce,
                                           args.max_proof_age)
  <2>1. PICK config \in gateFile : validate(made(config)) /\ initFile' = Some(made(config))
    BY <1>6 DEF InitState
  <2>2. /\ config \in instance.gates
        /\ \A e \in config.context.expires_at_unix_ms : e > 0
        /\ IsTime(config.context.expires_at_unix_ms)
    BY BalanceGateAssumption DEF IInv, Operator, World
  <2>3. /\ IsInitial(made(config))
        /\ made(config).expires_at_unix_ms = config.context.expires_at_unix_ms
    BY <2>1, <2>2, InitMakes DEF IInv
  <2> HIDE DEF made
  <2>4. Operator'
    BY <1>1, <1>6, <2>1, <2>2, <2>3 DEF InitState, Some, IInv, Operator
  <2>5. World' /\ Pool' /\ pool' = pool
    BY <1>1, <1>6 DEF InitState, IInv, World, Pool
  <2>6. QED
    BY <1>1, <2>4, <2>5, ClientsRest, LedgerStays DEF IInv
<1>7. QED
  BY <1>2, <1>3, <1>4, <1>5, <1>6

\* The gate that an initialization opens has given out no number yet.
LEMMA InitializationOpens ==
    ASSUME IInv, NEW tx \in pool, IncludeInitialization(tx)
    PROVE  /\ IsInitial(initialize(tx.instruction))
           /\ gate = None /\ gate' = Some(initialize(tx.instruction))
           /\ Badged' = Badged /\ \A c : Badge(c)' = Badge(c)
           /\ Counter' = Counter
<1> DEFINE state == initialize(tx.instruction)
<1>1. IsInitial(state)
  BY DEF IInv, Pool, IncludeInitialization, IsClaim
<1> HIDE DEF state
<1>2. gate = None /\ gate' = Some(state) /\ UNCHANGED badges
  BY DEF IncludeInitialization, state
<1>3. Badged' = Badged /\ \A c : Badge(c)' = Badge(c)
  BY <1>2 DEF Badged, Badge
<1>4. Counter = 0
  BY <1>2 DEF Counter
<1>5. (CHOOSE s \in gate' : TRUE) = state
  BY <1>2 DEF Some
<1>6. Counter' = Counter
  BY <1>1, <1>2, <1>4, <1>5 DEF Counter, IsInitial, Some, None
<1>7. QED
  BY <1>1, <1>2, <1>3, <1>6 DEF state

\* Opening the gate preserves the invariant.
LEMMA InitializationStep ==
    ASSUME IInv, NEW tx \in pool, IncludeInitialization(tx)
    PROVE  IInv'
<1>1. /\ gateFile' = None /\ initFile' = None
      /\ UNCHANGED <<instance, clock, badges, pool, client>>
  BY DEF IncludeInitialization
<1>2. World' /\ Operator' /\ Pool'
  BY <1>1 DEF IInv, World, Operator, Pool, None
<1>3. ClaimsNumbered'
  BY InitializationOpens DEF IInv, Ledger, ClaimsNumbered
<1>4. Ledger'
  BY <1>3, InitializationOpens DEF IInv, Ledger, IsInitial, Alone, Some
<1>5. QED
  BY <1>1, <1>2, <1>4, ClientsRest DEF IInv

\* A claim that is included gets the next number, and its account the only badge
\* with it.
LEMMA ClaimGetsNumber ==
    ASSUME IInv, NEW tx \in pool, IncludeClaim(tx)
    PROVE  /\ IsClaim(tx)
           /\ Counter \in Nat /\ Counter = tx.pre.claim_counter
           /\ Counter' = Counter + 1
           /\ tx.account \notin Badged /\ Badged' = Badged \cup {tx.account}
           /\ \A c \in Badged : Badge(c)' = Badge(c)
           /\ Badge(tx.account)' = tx.badge
           /\ tx.badge.claim_number = Counter + 1
<1>1. IsClaim(tx)
  BY DEF IInv, Pool, IncludeClaim
<1>2. /\ gate = Some(tx.pre) /\ gate' = Some(tx.post)
      /\ badges[tx.account] = None
      /\ badges' = [badges EXCEPT ![tx.account] = Some(tx.badge)]
  BY DEF IncludeClaim
<1>3. tx.account \in Claimants /\ DOMAIN badges = Claimants
  BY <1>1 DEF IsClaim, IInv, Shapes
<1>4. Counter = tx.pre.claim_counter /\ Counter' = tx.post.claim_counter
  BY <1>2 DEF Counter, Some, None
<1>5. Counter \in Nat /\ Counter' = Counter + 1 /\ tx.badge.claim_number = Counter + 1
  BY <1>1, <1>4, TimeAssumption DEF IsClaim, IsGate
<1>6. tx.account \notin Badged /\ Badged' = Badged \cup {tx.account}
  BY <1>2, <1>3 DEF Badged, Some, None
<1>7. \A c \in Badged : Badge(c)' = Badge(c)
  BY <1>2, <1>3, <1>6 DEF Badge, Badged
<1>8. Badge(tx.account)' = tx.badge
  BY <1>2, <1>3 DEF Badge, Some
<1>9. QED
  BY <1>1, <1>4, <1>5, <1>6, <1>7, <1>8

\* Including a claim preserves the invariant.
LEMMA ClaimStep ==
    ASSUME IInv, NEW tx \in pool, IncludeClaim(tx)
    PROVE  IInv'
<1> DEFINE a == tx.account
<1>1. /\ IsClaim(tx) /\ a \in Claimants
      /\ Counter \in Nat /\ Counter' = Counter + 1
      /\ a \notin Badged /\ Badged' = Badged \cup {a}
      /\ \A c \in Badged : Badge(c)' = Badge(c)
      /\ Badge(a)' = tx.badge /\ tx.badge.claim_number = Counter + 1
  BY ClaimGetsNumber DEF IsClaim
<1>2. /\ gate' = Some(tx.post) /\ tx.kind = "claim"
      /\ badges' = [badges EXCEPT ![a] = Some(tx.badge)]
      /\ DOMAIN badges = Claimants
      /\ UNCHANGED <<instance, clock, pool, operator, client>>
  BY DEF IncludeClaim, IInv, Shapes
<1>3. World' /\ Operator' /\ Pool'
  BY <1>2 DEF IInv, World, Operator, Pool, operator
<1>4. Shapes'
  BY <1>2 DEF IInv, Shapes, client
<1>5. ASSUME NEW c \in Claimants
      PROVE  Round(c)' /\ BadgeKept(c)'
  <2>1. Round(c)'
    BY <1>2, RoundStays DEF IInv, client
  <2>2. CASE c = a
    <3>1. badges'[c] = Some(tx.badge)
      BY <1>2, <2>2
    <3>2. Sent(c)' = Sent(c)
      BY <1>2 DEF Sent
    <3>3. QED
      BY <1>2, <2>1, <2>2, <3>1, <3>2 DEF IInv, BadgeKept, ComposedBadge, client
  <2>3. CASE c # a
    BY <1>2, <2>1, <2>3, BadgeStays DEF IInv, client
  <2>4. QED
    BY <2>2, <2>3
<1>6. Ledger'
  <2>1. Alone(gate)' /\ \A state \in gate' : IsGate(state)
    BY <1>1, <1>2 DEF Alone, Some, IsClaim
  <2>2. IsFiniteSet(Badged') /\ Cardinality(Badged') = Counter'
    BY <1>1, FS_AddElement DEF IInv, Ledger, ClaimsNumbered
  <2>3. \A c \in Badged : Badge(c).claim_number \in 1 .. Counter
    BY DEF IInv, Ledger, ClaimsNumbered
  <2>4. \A n \in 1 .. Counter : \E c \in Badged : Badge(c).claim_number = n
    BY DEF IInv, Ledger, ClaimsNumbered
  <2>5. \A c \in Badged' : (Badge(c)').claim_number \in 1 .. Counter'
    BY <1>1, <2>3
  <2>6. \A n \in 1 .. Counter' : \E c \in Badged' : (Badge(c)').claim_number = n
    <3> SUFFICES ASSUME NEW n \in 1 .. Counter'
                 PROVE  \E c \in Badged' : (Badge(c)').claim_number = n
      OBVIOUS
    <3>1. CASE n = Counter + 1
      BY <1>1, <3>1
    <3>2. CASE n \in 1 .. Counter
      BY <1>1, <2>4, <3>2
    <3>3. QED
      BY <1>1, <3>1, <3>2
  <2>7. ClaimsNumbered'
    BY <2>2, <2>5, <2>6 DEF ClaimsNumbered
  <2>8. ASSUME NEW c \in Badged', NEW d \in Badged',
               (Badge(c)').claim_number = (Badge(d)').claim_number
        PROVE  c = d
    <3>1. CASE c \in Badged /\ d \in Badged
      BY <1>1, <2>8, <3>1 DEF IInv, Ledger
    <3>2. CASE c = a \/ d = a
      BY <1>1, <2>3, <2>8, <3>2
    <3>3. QED
      BY <1>1, <3>1, <3>2
  <2>9. QED
    BY <2>1, <2>2, <2>7, <2>8 DEF Ledger
<1>7. QED
  BY <1>3, <1>4, <1>5, <1>6 DEF IInv

\* Every step of the sequencer preserves the invariant.
LEMMA SequencerStep ==
    ASSUME IInv, NEW tx \in pool,
           IncludeDeployment(tx) \/ IncludeInitialization(tx) \/ IncludeClaim(tx)
    PROVE  IInv'
<1>1. CASE IncludeDeployment(tx)
  <2>1. UNCHANGED <<instance, clock, gate, badges, pool, operator, client>>
    BY <1>1 DEF IncludeDeployment
  <2>2. World' /\ Operator' /\ Pool'
    BY <2>1 DEF IInv, World, Operator, Pool, operator
  <2>3. QED
    BY <2>1, <2>2, ClientsRest, LedgerStays DEF IInv
<1>2. QED
  BY <1>1, InitializationStep, ClaimStep

---------------------------------------------------------------------------
(* The claimants' commands.                                                *)

\* A step of claimant c touches no file and no command of another claimant.
OnlyOwn(c) ==
    /\ UNCHANGED <<instance, clock, gate, badges, operator>>
    /\ Shapes'
    /\ \A d \in Claimants \ {c} :
         /\ pc'[d] = pc[d] /\ session'[d] = session[d]
         /\ stateFile'[d] = stateFile[d] /\ claimFile'[d] = claimFile[d]
         /\ badgeFile'[d] = badgeFile[d] /\ rewritten'[d] = rewritten[d]

\* A step of one claimant keeps the invariant when it keeps what concerns it.
LEMMA OwnStep ==
    ASSUME IInv, NEW c \in Claimants, OnlyOwn(c), Pool', pool \subseteq pool',
           \A tx \in pool' \ pool : tx.account = c,
           Round(c)', BadgeKept(c)'
    PROVE  IInv'
<1>1. World' /\ Operator' /\ Ledger'
  BY LedgerStays DEF OnlyOwn, IInv, World, Operator, operator
<1>2. ASSUME NEW d \in Claimants \ {c}
      PROVE  Round(d)' /\ BadgeKept(d)'
  <2>1. Round(d)'
    BY RoundStays DEF OnlyOwn, IInv
  <2>2. BadgeKept(d)'
    BY BadgeStays DEF OnlyOwn, IInv
  <2>3. QED
    BY <2>1, <2>2
<1>3. QED
  BY <1>1, <1>2 DEF IInv, OnlyOwn

\* state-fetch, claim-create and simulate leave session, badge file and pool alone.
LEMMA PrepareStep ==
    ASSUME IInv, NEW c \in Claimants, c \in instance.claimants,
           FetchState(c) \/ Simulate(c) \/ \E proof \in Held(c) : CreateClaim(c, proof)
    PROVE  IInv'
<1> USE DEF IInv
<1>1. Shapes /\ Round(c) /\ BadgeKept(c)
  OBVIOUS
<1>2. /\ UNCHANGED <<instance, clock, gate, badges, pool, operator, session, badgeFile,
                     rewritten>>
      /\ pc[c] \in AtPrompt /\ pc'[c] \in AtPrompt
  BY <1>1 DEF FetchState, Simulate, CreateClaim, onChain, Goto, Shapes, AtPrompt
<1>3. Pool'
  BY <1>2 DEF Pool
<1>4. BadgeKept(c)'
  <2>1. Sent(c)' = Sent(c)
    BY <1>2 DEF Sent
  <2>2. QED
    BY <1>1, <1>2, <2>1 DEF BadgeKept, AtPrompt
<1>5. CASE FetchState(c)
  <2>1. /\ pc' = [pc EXCEPT ![c] = "fetched"]
        /\ stateFile' = [stateFile EXCEPT ![c] = validated_gate_state(gate)]
        /\ validated_gate_state(gate) # None
        /\ UNCHANGED claimFile
    BY <1>5 DEF FetchState, Goto, fetch_public_account
  <2>2. OnlyOwn(c)
    BY <1>1, <1>2, <2>1 DEF OnlyOwn, Shapes, Labels, AtPrompt
  <2>3. /\ pc'[c] = "fetched" /\ stateFile'[c] = validated_gate_state(gate)
        /\ claimFile'[c] = claimFile[c] /\ session'[c] = session[c]
    BY <1>1, <1>2, <2>1 DEF Shapes
  <2>4. validated_gate_state(gate) \subseteq gate
    BY DEF validated_gate_state
  <2>5. Alone(validated_gate_state(gate)) /\ \A s \in validated_gate_state(gate) : IsGate(s)
    BY <2>4 DEF Ledger, Alone
  <2>6. Round(c)'
    BY <1>1, <1>2, <2>1, <2>3, <2>5 DEF Round, Labels, AtPrompt
  <2>7. QED
    BY <1>2, <1>3, <1>4, <2>2, <2>6, OwnStep
<1>6. CASE Simulate(c)
  <2>1. /\ pc[c] = "claimed" /\ pc' = [pc EXCEPT ![c] = "checked"]
        /\ UNCHANGED <<stateFile, claimFile>>
    BY <1>6 DEF Simulate, Goto
  <2>2. OnlyOwn(c)
    BY <1>1, <1>2, <2>1 DEF OnlyOwn, Shapes, Labels, AtPrompt
  <2>3. /\ pc'[c] = "checked" /\ stateFile'[c] = stateFile[c]
        /\ claimFile'[c] = claimFile[c] /\ session'[c] = session[c]
    BY <1>1, <1>2, <2>1 DEF Shapes
  <2>4. PICK s0 \in stateFile[c], claim0 \in claimFile[c] :
          simulate_demo_claim(s0, c, claim0).code = "Ok"
    BY <1>6 DEF Simulate
  <2>5. \A s \in stateFile[c], claim \in claimFile[c] : s = s0 /\ claim = claim0
    BY <1>1 DEF Round, Alone
  <2>6. \A s \in stateFile[c], claim \in claimFile[c] :
          simulate_demo_claim(s, c, claim).code = "Ok"
    BY <2>4, <2>5
  <2>7. Round(c)'
    BY <1>1, <1>2, <2>1, <2>3, <2>6 DEF Round, Labels, AtPrompt
  <2>8. QED
    BY <1>2, <1>3, <1>4, <2>2, <2>7, OwnStep
<1>7. ASSUME NEW proof \in Held(c), CreateClaim(c, proof)
      PROVE  IInv'
  <2>1. PICK state \in stateFile[c] :
          claimFile' = [claimFile EXCEPT ![c] =
              Some([journal |-> proof.journal,
                    presenter_signature |->
                      sign(c, on_chain_presentation_message(
                                challenge(state, PROGRAM_ID, c), proof.journal))])]
    BY <1>7 DEF CreateClaim
  <2> DEFINE claim == [journal |-> proof.journal,
                       presenter_signature |->
                         sign(c, on_chain_presentation_message(
                                   challenge(state, PROGRAM_ID, c), proof.journal))]
  <2>2. claim.journal = proof.journal
    OBVIOUS
  <2> HIDE DEF claim
  <2>3. HasTimes(claim.journal)
    BY <2>2, BalanceGateAssumption DEF World, Held, HasTimes
  <2>4. /\ pc' = [pc EXCEPT ![c] = "claimed"] /\ UNCHANGED stateFile
        /\ claimFile' = [claimFile EXCEPT ![c] = Some(claim)]
    BY <1>7, <2>1 DEF CreateClaim, Goto, claim
  <2>5. OnlyOwn(c)
    BY <1>1, <1>2, <2>4 DEF OnlyOwn, Shapes, Labels, AtPrompt
  <2>6. /\ pc'[c] = "claimed" /\ stateFile'[c] = stateFile[c]
        /\ claimFile'[c] = Some(claim) /\ session'[c] = session[c]
    BY <1>1, <1>2, <2>4 DEF Shapes
  <2>7. stateFile[c] # None /\ Alone(Some(claim)) /\ Some(claim) # None
    BY <2>1 DEF Alone, Some, None
  <2>8. \A x \in Some(claim) : x = claim
    BY DEF Some
  <2>9. Round(c)'
    BY <1>1, <1>2, <2>3, <2>6, <2>7, <2>8 DEF Round, Labels, AtPrompt
  <2>10. QED
    BY <1>2, <1>3, <1>4, <2>5, <2>9, OwnStep
<1>8. QED
  BY <1>5, <1>6, <1>7

\* The end of a round, for whatever reason, forgets the state file and the session.
LEMMA IdleStep ==
    ASSUME IInv, NEW c \in Claimants, GoIdle(c),
           UNCHANGED <<instance, clock, gate, badges, operator, claimFile>>,
           DOMAIN badgeFile' = Claimants,
           \A d \in Claimants \ {c} : badgeFile'[d] = badgeFile[d],
           UNCHANGED rewritten, Pool', pool \subseteq pool',
           \A tx \in pool' \ pool : tx.account = c,
           \A tx \in pool' : tx.kind = "claim" /\ tx.account = c /\ ~rewritten[c] =>
              badgeFile'[c] = Some(tx.badge)
    PROVE  IInv'
<1>1. Shapes /\ Round(c) /\ BadgeKept(c)
  BY DEF IInv
<1>2. /\ pc' = [pc EXCEPT ![c] = "idle"]
      /\ stateFile' = [stateFile EXCEPT ![c] = None]
      /\ session' = [session EXCEPT ![c] = None]
  BY DEF GoIdle, Goto
<1>3. OnlyOwn(c)
  BY <1>1, <1>2 DEF OnlyOwn, Shapes, Labels, AtPrompt
<1>4. pc'[c] = "idle" /\ stateFile'[c] = None /\ session'[c] = None
  BY <1>1, <1>2 DEF Shapes
<1>5. Round(c)'
  BY <1>1, <1>4 DEF Round, Labels, AtPrompt, None, Alone
<1>6. BadgeKept(c)'
  BY <1>1, <1>4 DEF BadgeKept
<1>7. QED
  BY <1>3, <1>5, <1>6, OwnStep

\* compose and claim-submit start proving from a gate, a claim and a proof; when
\* the claim was simulated, it was on this very gate.
LEMMA StartProving ==
    ASSUME IInv, NEW c \in Claimants, NEW state, NEW claim \in claimFile[c],
           NEW proof \in Held(c), NEW send,
           pc[c] \in AtPrompt, state \in stateFile[c],
           session' = [session EXCEPT ![c] =
             Some([pre_states |-> [gate |-> state, badge |-> c], claim |-> claim,
                   proof |-> proof, checked |-> pc[c] = "checked", send |-> send])],
           Goto(c, "proving"),
           UNCHANGED <<instance, clock, onChain, pool, operator, stateFile, claimFile,
                       badgeFile, rewritten>>
    PROVE  IInv'
<1> DEFINE s == [pre_states |-> [gate |-> state, badge |-> c], claim |-> claim,
                 proof |-> proof, checked |-> pc[c] = "checked", send |-> send]
<1>1. Shapes /\ Round(c) /\ BadgeKept(c)
  BY DEF IInv
<1>2. /\ s.pre_states = demo_pre_states(state, c)
      /\ s.pre_states.badge = c /\ s.pre_states.gate = state /\ s.claim = claim
      /\ s.proof = proof /\ (s.checked <=> pc[c] = "checked")
  BY DEF demo_pre_states
<1>3. session' = [session EXCEPT ![c] = Some(s)]
  OBVIOUS
<1> HIDE DEF s
<1>4. verify_receipt(proof)
  BY BalanceGateAssumption DEF IInv, World, Held
<1>5. s.checked => claim_program(s.pre_states, s.claim).code = "Ok"
  BY <1>1, <1>2 DEF Round, simulate_demo_claim
<1>6. IsJob(c, s)
  BY <1>1, <1>2, <1>4, <1>5 DEF IsJob, Round
<1>7. OnlyOwn(c)
  BY <1>1, <1>3 DEF OnlyOwn, Shapes, Goto, Labels, onChain
<1>8. /\ pc'[c] = "proving" /\ session'[c] = Some(s)
      /\ stateFile'[c] = stateFile[c] /\ claimFile'[c] = claimFile[c]
  BY <1>1, <1>3 DEF Shapes, Goto
<1>9. /\ stateFile[c] # None /\ claimFile[c] # None
      /\ Some(s) # None /\ Alone(Some(s)) /\ \A x \in Some(s) : x = s
  BY DEF Alone, Some, None
<1>10. Round(c)'
  BY <1>1, <1>6, <1>8, <1>9 DEF Round, Labels, AtPrompt
<1>11. BadgeKept(c)'
  BY <1>1, <1>8 DEF BadgeKept, onChain
<1>12. Pool'
  BY DEF IInv, Pool
<1>13. QED
  BY <1>7, <1>10, <1>11, <1>12, OwnStep

\* compose, and claim-submit with its comparison of gate account and state file.
LEMMA ComposeStep ==
    ASSUME IInv, NEW c \in Claimants, NEW proof \in Held(c), NEW dev_mode,
           Compose(c, proof, dev_mode) \/ Submit(c, proof, dev_mode)
    PROVE  IInv'
<1>1. CASE Compose(c, proof, dev_mode)
  <2>1. PICK state \in stateFile[c], claim \in claimFile[c] :
          session' = [session EXCEPT ![c] =
            Some([pre_states |-> [gate |-> state, badge |-> c], claim |-> claim,
                  proof |-> proof, checked |-> pc[c] = "checked", send |-> FALSE])]
    BY <1>1 DEF Compose, demo_pre_states
  <2>2. /\ pc[c] \in AtPrompt /\ Goto(c, "proving")
        /\ UNCHANGED <<instance, clock, onChain, pool, operator, stateFile, claimFile,
                       badgeFile, rewritten>>
    BY <1>1 DEF Compose
  <2>3. QED
    BY <2>1, <2>2, StartProving
<1>2. CASE Submit(c, proof, dev_mode)
  <2>1. PICK claim \in claimFile[c] :
          IF validated_gate_state(gate) = stateFile[c]
          THEN /\ \E state \in gate :
                    session' = [session EXCEPT ![c] =
                      Some([pre_states |-> [gate |-> state, badge |-> c],
                            claim |-> claim, proof |-> proof,
                            checked |-> pc[c] = "checked", send |-> TRUE])]
               /\ Goto(c, "proving")
               /\ UNCHANGED stateFile
          ELSE GoIdle(c)
    BY <1>2 DEF Submit, fetch_public_account
  <2>2. /\ pc[c] \in AtPrompt /\ stateFile[c] # None
        /\ UNCHANGED <<instance, clock, onChain, pool, operator, claimFile, badgeFile,
                       rewritten>>
    BY <1>2 DEF Submit
  <2>3. CASE validated_gate_state(gate) = stateFile[c]
    <3>1. PICK state \in gate :
            session' = [session EXCEPT ![c] =
              Some([pre_states |-> [gate |-> state, badge |-> c],
                    claim |-> claim, proof |-> proof,
                    checked |-> pc[c] = "checked", send |-> TRUE])]
      BY <2>1, <2>3
    <3>2. state \in stateFile[c]
      BY <2>2, <2>3 DEF validated_gate_state, IInv, Ledger, Alone, None
    <3>3. Goto(c, "proving") /\ UNCHANGED stateFile
      BY <2>1, <2>3
    <3>4. QED
      BY <2>2, <3>1, <3>2, <3>3, StartProving
  <2>4. CASE validated_gate_state(gate) # stateFile[c]
    <3>1. GoIdle(c)
      BY <2>1, <2>4
    <3>2. Pool' /\ DOMAIN badgeFile' = Claimants
      BY <2>2 DEF IInv, Pool, Shapes
    <3>3. \A tx \in pool' : tx.kind = "claim" /\ tx.account = c /\ ~rewritten[c] =>
            badgeFile'[c] = Some(tx.badge)
      BY <2>2 DEF IInv, BadgeKept
    <3>4. QED
      BY <2>2, <3>1, <3>2, <3>3, IdleStep DEF onChain
  <2>5. QED
    BY <2>3, <2>4
<1>3. QED
  BY <1>1, <1>2

\* A command that is killed or fails leaves its files as they are.
LEMMA GiveUp ==
    ASSUME IInv, NEW c \in Claimants, GoIdle(c),
           UNCHANGED <<instance, clock, onChain, pool, operator, claimFile, badgeFile,
                       rewritten>>
    PROVE  IInv'
<1>1. Pool' /\ DOMAIN badgeFile' = Claimants
  BY DEF IInv, Pool, Shapes
<1>2. \A tx \in pool' : tx.kind = "claim" /\ tx.account = c /\ ~rewritten[c] =>
        badgeFile'[c] = Some(tx.badge)
  BY DEF IInv, BadgeKept
<1>3. QED
  BY <1>1, <1>2, IdleStep DEF onChain

\* Proving ends with a composed claim or with the round.
LEMMA ProveStep ==
    ASSUME IInv, NEW c \in Claimants, Prove(c)
    PROVE  IInv'
<1>1. Shapes /\ Round(c) /\ BadgeKept(c)
  BY DEF IInv
<1> DEFINE result(s) == prove_gate_claim(s.pre_states, s.claim, s.proof)
           composed(s) == compose_private_execution(result(s).value)
<1>2. PICK s \in session[c] :
        IF result(s).code = "Ok" /\ validate_private_claim_shape(composed(s))
        THEN /\ session' = [session EXCEPT ![c] =
                  Some([composed |-> composed(s), send |-> s.send])]
             /\ Goto(c, "proved")
             /\ UNCHANGED stateFile
        ELSE GoIdle(c)
  BY DEF Prove
<1>3. /\ pc[c] = "proving"
      /\ UNCHANGED <<instance, clock, onChain, pool, operator, claimFile, badgeFile,
                     rewritten>>
  BY DEF Prove
<1>4. IsJob(c, s)
  BY <1>1, <1>3 DEF Round
<1>5. CASE result(s).code = "Ok" /\ validate_private_claim_shape(composed(s))
  <2> DEFINE t == [composed |-> composed(s), send |-> s.send]
  <2>1. IsComposed(c, t)
    <3>1. result(s) = claim_program(s.pre_states, s.claim)
      BY <1>5, ProvingRuns
    <3>2. claim_program(s.pre_states, s.claim).code = "Ok"
      BY <1>5, <3>1
    <3>3. composed(s) = compose_private_execution(claim_program(s.pre_states, s.claim).value)
      BY <3>1
    <3>4. /\ IsClaim(private_gate_claim_transaction(composed(s)))
          /\ private_gate_claim_transaction(composed(s)).account = c
      BY <1>4, <3>2, <3>3, ProgramAccepts DEF IsJob
    <3>5. QED
      BY <3>4 DEF IsComposed
  <2>2. /\ session' = [session EXCEPT ![c] = Some(t)]
        /\ Goto(c, "proved") /\ UNCHANGED stateFile
    BY <1>2, <1>5
  <2> HIDE DEF t
  <2>3. OnlyOwn(c)
    BY <1>1, <1>3, <2>2 DEF OnlyOwn, Shapes, Goto, Labels, onChain
  <2>4. /\ pc'[c] = "proved" /\ session'[c] = Some(t)
        /\ stateFile'[c] = stateFile[c] /\ claimFile'[c] = claimFile[c]
    BY <1>1, <1>3, <2>2 DEF Shapes, Goto
  <2>5. Some(t) # None /\ Alone(Some(t)) /\ \A x \in Some(t) : x = t
    BY DEF Alone, Some, None
  <2>6. Round(c)'
    BY <1>1, <1>3, <2>1, <2>4, <2>5 DEF Round, Labels, AtPrompt
  <2>7. BadgeKept(c)'
    BY <1>1, <1>3, <2>4 DEF BadgeKept, onChain
  <2>8. Pool'
    BY <1>3 DEF IInv, Pool
  <2>9. QED
    BY <1>3, <2>3, <2>6, <2>7, <2>8, OwnStep
<1>6. CASE ~(result(s).code = "Ok" /\ validate_private_claim_shape(composed(s)))
  <2>1. GoIdle(c)
    BY <1>2, <1>6
  <2>2. QED
    BY <1>3, <2>1, GiveUp
<1>7. QED
  BY <1>5, <1>6

\* The badge file is truncated, written and then, perhaps, relied on.
LEMMA BadgeFileStep ==
    ASSUME IInv, NEW c \in Claimants, TruncateBadge(c) \/ WriteBadge(c)
    PROVE  IInv'
<1>1. Shapes /\ Round(c) /\ BadgeKept(c)
  BY DEF IInv
<1>2. CASE TruncateBadge(c)
  <2>1. /\ pc[c] = "proved" /\ Goto(c, "writing")
        /\ badgeFile' = [badgeFile EXCEPT ![c] = None]
        /\ rewritten' = [rewritten EXCEPT ![c] = Sent(c)]
        /\ UNCHANGED <<instance, clock, onChain, pool, operator, stateFile, claimFile,
                       session>>
    BY <1>2 DEF TruncateBadge
  <2>2. Sent(c) \in BOOLEAN
    BY DEF Sent
  <2>3. OnlyOwn(c)
    BY <1>1, <2>1, <2>2 DEF OnlyOwn, Shapes, Goto, Labels, onChain
  <2>4. pc'[c] = "writing" /\ (rewritten'[c] <=> Sent(c))
    BY <1>1, <2>1 DEF Shapes, Goto
  <2>5. Round(c)'
    BY <1>1, <2>1, <2>4 DEF Round, Labels, AtPrompt
  <2>6. Sent(c)' <=> Sent(c)
    BY <2>1 DEF Sent
  <2>7. BadgeKept(c)'
    BY <1>1, <2>1, <2>4, <2>6 DEF BadgeKept, Sent, onChain
  <2>8. Pool'
    BY <2>1 DEF IInv, Pool
  <2>9. QED
    BY <2>1, <2>3, <2>5, <2>7, <2>8, OwnStep
<1>3. CASE WriteBadge(c)
  <2>1. PICK s \in session[c] :
          /\ badgeFile' = [badgeFile EXCEPT ![c] = Some(ComposedBadge(s))]
          /\ IF s.send
             THEN Goto(c, "ready") /\ UNCHANGED <<stateFile, session>>
             ELSE GoIdle(c)
    BY <1>3 DEF WriteBadge, ComposedBadge
  <2>2. /\ pc[c] = "writing"
        /\ UNCHANGED <<instance, clock, onChain, pool, operator, claimFile, rewritten>>
    BY <1>3 DEF WriteBadge
  <2>3. Pool'
    BY <2>2 DEF IInv, Pool
  <2>4. rewritten[c] \/ ~Sent(c)
    BY <1>1, <2>2 DEF BadgeKept
  <2>5. /\ badgeFile'[c] = Some(ComposedBadge(s)) /\ DOMAIN badgeFile' = Claimants
        /\ \A d \in Claimants \ {c} : badgeFile'[d] = badgeFile[d]
    BY <1>1, <2>1 DEF Shapes
  <2>6. \A tx \in pool' : tx.kind = "claim" /\ tx.account = c /\ ~rewritten[c] =>
          badgeFile'[c] = Some(tx.badge)
    BY <2>2, <2>4 DEF Sent
  <2>7. CASE s.send
    <3>1. Goto(c, "ready") /\ UNCHANGED <<stateFile, session>>
      BY <2>1, <2>7
    <3>2. OnlyOwn(c)
      BY <1>1, <2>2, <2>5, <3>1 DEF OnlyOwn, Shapes, Goto, Labels, onChain
    <3>3. pc'[c] = "ready"
      BY <1>1, <3>1 DEF Shapes, Goto
    <3>4. Round(c)'
      BY <1>1, <2>2, <3>1, <3>3 DEF Round, Labels, AtPrompt
    <3>5. Sent(c)' <=> Sent(c)
      BY <2>2 DEF Sent
    <3>6. \A x \in session'[c] : badgeFile'[c] = Some(ComposedBadge(x))
      BY <1>1, <2>5, <3>1 DEF Round, Alone
    <3>7. BadgeKept(c)'
      BY <1>1, <2>2, <2>4, <2>6, <3>3, <3>5, <3>6 DEF BadgeKept, onChain, ComposedBadge
    <3>8. QED
      BY <2>2, <2>3, <3>2, <3>4, <3>7, OwnStep
  <2>8. CASE ~s.send
    <3>1. GoIdle(c)
      BY <2>1, <2>8
    <3>2. QED
      BY <2>2, <2>3, <2>5, <2>6, <3>1, IdleStep DEF onChain
  <2>9. QED
    BY <2>7, <2>8
<1>4. QED
  BY <1>2, <1>3

\* What is sent is a claim whose badge is complete in the badge file.
LEMMA SendStep ==
    ASSUME IInv, NEW c \in Claimants, Send(c)
    PROVE  IInv'
<1>1. Shapes /\ Round(c) /\ BadgeKept(c)
  BY DEF IInv
<1>2. PICK s \in session[c] :
        pool' = pool \cup {private_gate_claim_transaction(s.composed)}
  BY DEF Send, send_lez_transaction
<1> DEFINE tx == private_gate_claim_transaction(s.composed)
<1>3. /\ pc[c] = "ready" /\ GoIdle(c)
      /\ UNCHANGED <<instance, clock, onChain, operator, claimFile, badgeFile, rewritten>>
  BY DEF Send
<1>4. IsClaim(tx) /\ tx.account = c
  BY <1>1, <1>3 DEF Round, IsComposed
<1>5. tx.badge = ComposedBadge(s)
  BY DEF private_gate_claim_transaction, ComposedBadge
<1>6. pool' = pool \cup {tx}
  BY <1>2
<1> HIDE DEF tx
<1>7. Pool'
  BY <1>4, <1>6 DEF IInv, Pool
<1>8. \A x \in pool' : x.kind = "claim" /\ x.account = c /\ ~rewritten[c] =>
        badgeFile'[c] = Some(x.badge)
  BY <1>1, <1>3, <1>5, <1>6 DEF BadgeKept
<1>9. DOMAIN badgeFile' = Claimants
  BY <1>1, <1>3 DEF Shapes
<1>10. pool \subseteq pool' /\ \A x \in pool' \ pool : x.account = c
  BY <1>4, <1>6
<1>11. QED
  BY <1>3, <1>7, <1>8, <1>9, <1>10, IdleStep DEF onChain

---------------------------------------------------------------------------
(* The theorems.                                                           *)

\* The invariant of the gate: what the claimants prepare, what is on its way and
\* what is on chain agree in every reachable state.
THEOREM Inductive == Spec => []IInv
<1>1. Init => IInv
  <2> SUFFICES ASSUME Init PROVE IInv
    OBVIOUS
  <2>1. World /\ Operator /\ Pool /\ Shapes
    BY BalanceGateAssumption
    DEF Init, World, Operator, Pool, Shapes, None, Labels, AtPrompt
  <2>2. \A c \in Claimants : Round(c) /\ BadgeKept(c)
    BY DEF Init, Round, BadgeKept, None, Labels, AtPrompt, Alone
  <2>3. Ledger
    <3>1. Badged = {} /\ Counter = 0 /\ gate = {}
      BY DEF Init, Badged, Counter, None
    <3>2. IsFiniteSet(Badged) /\ Cardinality(Badged) = 0
      BY <3>1, FS_EmptySet
    <3>3. {Badge(c).claim_number : c \in Badged} = 1 .. Counter
      BY <3>1
    <3>4. QED
      BY <3>1, <3>2, <3>3 DEF Ledger, ClaimsNumbered, Alone
  <2>4. QED
    BY <2>1, <2>2, <2>3 DEF IInv
<1>2. IInv /\ [Next]_vars => IInv'
  <2> SUFFICES ASSUME IInv, [Next]_vars PROVE IInv'
    OBVIOUS
  <2>1. \A c \in instance.claimants : c \in Claimants
    BY DEF IInv, World, Claimants
  <2>2. CASE \/ Tick \/ Deploy \/ SubmitInitialization
             \/ \E config \in instance.gates : GateInit(config)
             \/ \E args \in InitArguments : InitState(args)
    BY <2>2, OperatorStep
  <2>3. ASSUME NEW tx \in pool,
               IncludeDeployment(tx) \/ IncludeInitialization(tx) \/ IncludeClaim(tx)
        PROVE  IInv'
    BY <2>3, SequencerStep
  <2>4. ASSUME NEW c \in instance.claimants,
               \/ FetchState(c) \/ Simulate(c)
               \/ \E proof \in Held(c) : CreateClaim(c, proof)
        PROVE  IInv'
    BY <2>1, <2>4, PrepareStep
  <2>5. ASSUME NEW c \in instance.claimants, NEW proof \in Held(c),
               NEW dev_mode \in DevModeValues,
               Compose(c, proof, dev_mode) \/ Submit(c, proof, dev_mode)
        PROVE  IInv'
    BY <2>1, <2>5, ComposeStep
  <2>6. ASSUME NEW c \in instance.claimants,
               \/ Prove(c) \/ TruncateBadge(c) \/ WriteBadge(c) \/ Send(c) \/ Abort(c)
        PROVE  IInv'
    <3>1. c \in Claimants
      BY <2>1
    <3>2. CASE Abort(c)
      BY <3>1, <3>2, GiveUp DEF Abort
    <3>3. QED
      BY <2>6, <3>1, <3>2, ProveStep, BadgeFileStep, SendStep
  <2>7. CASE UNCHANGED vars
    <3>1. UNCHANGED <<instance, clock, gate, badges, pool, operator, client>>
      BY <2>7 DEF vars, operator, client
    <3>2. World' /\ Operator' /\ Pool'
      BY <3>1 DEF IInv, World, Operator, Pool, operator
    <3>3. QED
      BY <3>1, <3>2, ClientsRest, LedgerStays DEF IInv
  <2>8. QED
    BY <2>2, <2>3, <2>4, <2>5, <2>6, <2>7 DEF Next
<1>3. QED
  BY <1>1, <1>2, PTL DEF Spec

\* Every value stays in its type: no claim drives the counter past u64, and a gate
\* on chain has a proof age within its limits.
THEOREM TypeCorrect == Spec => []TypeOK
<1>1. IInv => TypeOK
  <2> SUFFICES ASSUME IInv PROVE TypeOK
    OBVIOUS
  <2>1. \A state \in gate :
          /\ state.max_proof_age_ms \in MIN_ON_CHAIN_PROOF_AGE_MS .. MAX_ON_CHAIN_PROOF_AGE_MS
          /\ state.claim_counter \in 0 .. U64_MAX
    BY DEF IInv, Ledger, IsGate
  <2>2. \A tx \in pool : tx.kind \in {"deploy", "initialize", "claim"}
    BY DEF IInv, Pool, IsClaim
  <2>3. QED
    BY <2>1, <2>2 DEF IInv, TypeOK, World, Round, Labels
<1>2. QED
  BY <1>1, Inductive, PTL

\* Claim numbers have no gap and no repetition, for any number of claimants.
THEOREM Numbered == Spec => []ClaimsNumbered
<1>1. IInv => ClaimsNumbered
  BY DEF IInv, Ledger
<1>2. QED
  BY <1>1, Inductive, PTL

\* A signed claim in the pool is accepted for no other badge account and for no
\* other claim number, by any state the gate may come to have.
THEOREM Bound == Spec => []ClaimIsBound
<1>1. IInv => ClaimIsBound
  <2> SUFFICES ASSUME IInv, NEW state \in gate, NEW tx \in pool, tx.kind = "claim",
                      NEW a \in Claimants,
                      evaluate_claim(state, PROGRAM_ID, a, tx.claim).code = "Ok"
               PROVE  a = tx.account /\ tx.badge.claim_number = state.claim_counter + 1
    BY DEF ClaimIsBound
  <2>1. IsClaim(tx)
    BY DEF IInv, Pool
  <2>2. SignedFor(tx.claim, state, a) /\ SignedFor(tx.claim, tx.pre, tx.account)
    BY <2>1, EvaluateAccepts DEF IsClaim
  <2>3. on_chain_presentation_message(challenge(state, PROGRAM_ID, a), tx.claim.journal) =
        on_chain_presentation_message(challenge(tx.pre, PROGRAM_ID, tx.account),
                                      tx.claim.journal)
    BY <2>2 DEF SignedFor, sign
  <2>4. challenge(state, PROGRAM_ID, a) = challenge(tx.pre, PROGRAM_ID, tx.account)
    BY <2>3 DEF on_chain_presentation_message, sha256
  <2>5. a = tx.account /\ state.claim_counter = tx.pre.claim_counter
    BY <2>4 DEF challenge
  <2>6. QED
    BY <2>1, <2>5 DEF IsClaim
<1>2. QED
  BY <1>1, Inductive, PTL

\* No crash between the steps of a claim loses the plaintext of a badge on chain.
THEOREM BadgeIsKept == Spec => []HolderHasBadge
<1>1. IInv => HolderHasBadge
  <2> SUFFICES ASSUME IInv, NEW c \in Badged, ~rewritten[c]
               PROVE  badgeFile[c] = badges[c]
    BY DEF HolderHasBadge
  <2>1. c \in Claimants /\ badges[c] # None /\ BadgeKept(c)
    BY DEF IInv, Badged
  <2>2. QED
    BY <2>1 DEF BadgeKept
<1>2. QED
  BY <1>1, Inductive, PTL

\* A simulated claim still fits the gate from which its long proving run starts.
THEOREM ProvedForSomething == Spec => []NoProvingInVain
<1>1. IInv => NoProvingInVain
  <2> SUFFICES ASSUME IInv, NEW c \in Claimants, pc[c] = "proving", NEW s \in session[c],
                      s.checked, s.proof.journal = s.claim.journal
               PROVE  prove_gate_claim(s.pre_states, s.claim, s.proof).code = "Ok"
    BY DEF NoProvingInVain
  <2>1. IsJob(c, s)
    BY DEF IInv, Round
  <2>2. QED
    BY <2>1, GenuineProofRuns DEF IsJob
<1>2. QED
  BY <1>1, Inductive, PTL

\* A badge appears only while its proof is fresh and the gate has not expired.
THEOREM InTime == Spec => IncludedInTime
<1> DEFINE Timely == \A c \in Claimants : badges'[c] # badges[c] =>
                       \A state \in gate, b \in badges'[c] : Fresh(b, state, clock)
<1>1. IInv /\ [Next]_vars => [Timely]_badges
  <2> SUFFICES ASSUME IInv, [Next]_vars, badges' # badges PROVE Timely
    OBVIOUS
  <2>1. PICK tx \in pool : IncludeClaim(tx)
    BY DEF Next, vars, Tick, Deploy, SubmitInitialization, GateInit, InitState, onChain,
           IncludeDeployment, IncludeInitialization, FetchState, Simulate, CreateClaim,
           Compose, Submit, Prove, TruncateBadge, WriteBadge, Send, Abort
  <2>2. IsClaim(tx) /\ clock \in tx.window /\ gate = Some(tx.pre)
    BY <2>1 DEF IInv, Pool, IncludeClaim
  <2>3. Fresh(tx.badge, tx.pre, clock)
    BY <2>2 DEF IsClaim
  <2>4. badges' = [badges EXCEPT ![tx.account] = Some(tx.badge)] /\ DOMAIN badges = Claimants
    BY <2>1 DEF IncludeClaim, IInv, Shapes
  <2>5. QED
    BY <2>2, <2>3, <2>4 DEF Some
<1>2. [Timely]_badges => [\A c \in Claimants : badges'[c] # badges[c] =>
         \A state \in gate, b \in badges'[c] :
           /\ b.proof_issued_at_unix_ms <= clock + MAX_ON_CHAIN_CLOCK_SKEW_MS
           /\ clock - b.proof_issued_at_unix_ms <= state.max_proof_age_ms
           /\ \A e \in state.expires_at_unix_ms : clock <= e]_badges
  BY DEF Fresh
<1> HIDE DEF Timely
<1>3. QED
  BY <1>1, <1>2, Inductive, PTL DEF Spec, IncludedInTime

---------------------------------------------------------------------------
(* The refinement.                                                         *)

\* The badges, in the order of their numbers, are a sequence of claimants.
InOrder ==
    /\ Counter \in Nat
    /\ Entries \in Seq(Claimants) /\ Len(Entries) = Counter
    /\ \A n \in 1 .. Counter : Entries[n] \in Badged /\ Badge(Entries[n]).claim_number = n

\* That follows from the numbering, in every state.
LEMMA EntriesInOrder == Ledger => InOrder
<1> SUFFICES ASSUME Ledger PROVE InOrder
  OBVIOUS
<1>1. Counter \in Nat
  <2>1. CASE gate = None
    BY <2>1 DEF Counter
  <2>2. CASE gate # None
    <3>1. (CHOOSE state \in gate : TRUE) \in gate
      BY <2>2 DEF None
    <3>2. QED
      BY <2>2, <3>1, TimeAssumption DEF Counter, Ledger, IsGate
  <2>3. QED
    BY <2>1, <2>2
<1>2. \A n \in 1 .. Counter : \E c \in Badged : Badge(c).claim_number = n
  BY DEF Ledger, ClaimsNumbered
<1>3. \A n \in 1 .. Counter : Entries[n] \in Badged /\ Badge(Entries[n]).claim_number = n
  BY <1>2 DEF Entries
<1>4. Entries \in [1 .. Counter -> Claimants]
  BY <1>3 DEF Entries, Badged
<1>5. QED
  BY <1>1, <1>3, <1>4 DEF InOrder

\* In the next state, too.
LEMMA EntriesStayInOrder == Ledger' => InOrder'
BY EntriesInOrder, PTL

\* An included claim appends its account.
LEMMA ClaimAppends ==
    ASSUME IInv, NEW tx \in pool, IncludeClaim(tx)
    PROVE  Entries' = Append(Entries, tx.account)
<1> DEFINE a == tx.account
<1>1. /\ a \in Claimants /\ Counter' = Counter + 1
      /\ Badged' = Badged \cup {a}
      /\ \A c \in Badged : Badge(c)' = Badge(c)
      /\ (Badge(a)').claim_number = Counter + 1
  BY ClaimGetsNumber DEF IsClaim
<1>2. Ledger' /\ Ledger
  BY ClaimStep DEF IInv
<1>3. InOrder /\ InOrder'
  BY <1>2, EntriesInOrder, EntriesStayInOrder
<1> DEFINE longer == Append(Entries, a)
<1>4. /\ longer \in Seq(Claimants) /\ Len(longer) = Counter + 1
      /\ \A n \in 1 .. Counter : longer[n] = Entries[n]
      /\ longer[Counter + 1] = a
  BY <1>1, <1>3, AppendProperties DEF InOrder
<1> HIDE DEF longer
<1>5. /\ Entries' \in Seq(Claimants) /\ Len(Entries') = Counter + 1
      /\ \A n \in 1 .. Counter + 1 :
           Entries'[n] \in Badged' /\ \A c \in Badged' : (Badge(c)').claim_number = n => c = Entries'[n]
  <2>1. /\ Entries' \in Seq(Claimants) /\ Len(Entries') = Counter + 1
        /\ \A n \in 1 .. Counter + 1 :
             Entries'[n] \in Badged' /\ (Badge(Entries[n])').claim_number = n
    BY <1>1, <1>3 DEF InOrder
  <2>2. \A c, d \in Badged' : (Badge(c)').claim_number = (Badge(d)').claim_number => c = d
    BY <1>2 DEF Ledger
  <2>3. QED
    BY <2>1, <2>2
<1>6. \A n \in 1 .. Counter + 1 : Entries'[n] = longer[n]
  <2> SUFFICES ASSUME NEW n \in 1 .. Counter + 1 PROVE Entries'[n] = longer[n]
    OBVIOUS
  <2>1. CASE n = Counter + 1
    BY <1>1, <1>4, <1>5, <2>1
  <2>2. CASE n \in 1 .. Counter
    BY <1>1, <1>3, <1>4, <1>5, <2>2 DEF InOrder
  <2>3. QED
    BY <1>3, <2>1, <2>2 DEF InOrder
<1>7. Entries' = longer
  BY <1>3, <1>4, <1>5, <1>6, SeqEqual DEF InOrder
<1>8. QED
  BY <1>7 DEF longer

\* The gate implements AccessLedger: including an initialization is Open, with the
\* policy of a gate file whose expiry came through two conversions, including a claim
\* is Admit, and no other step of a claimant, the operator or time shows.
THEOREM Refinement == Spec => ImplementsLedger
<1>1. Init => Abstract!Init
  <2> SUFFICES ASSUME Init PROVE Abstract!Init
    OBVIOUS
  <2>1. gate = {} /\ Counter = 0
    BY DEF Init, Counter, None
  <2>2. Opened = {}
    BY <2>1 DEF Opened
  <2>3. Entries = << >>
    BY <2>1 DEF Entries
  <2>4. QED
    BY <2>2, <2>3 DEF Abstract!Init
<1>2. IInv /\ [Next]_vars => [Abstract!Next]_(Abstract!vars)
  <2> SUFFICES ASSUME IInv, [Next]_vars
               PROVE  [Abstract!Next]_(Abstract!vars)
    OBVIOUS
  <2> USE DEF Abstract!Next, Abstract!vars, Abstract!Open, Abstract!Admit
  <2>1. ASSUME NEW tx \in pool, IncludeInitialization(tx)
        PROVE  [Abstract!Next]_(Abstract!vars)
    <3> DEFINE state == initialize(tx.instruction)
    <3>1. /\ IsInitial(state) /\ gate = None /\ gate' = Some(state)
          /\ Badged' = Badged /\ \A c : Badge(c)' = Badge(c)
          /\ Counter' = Counter
      BY <2>1, InitializationOpens
    <3> HIDE DEF state
    <3>2. Entries' = Entries
      BY <3>1 DEF Entries
    <3>3. Opened = {} /\ Opened' = {Policy(state)} /\ Policy(state) \in GatePolicies
      BY <3>1 DEF Opened, IsInitial, None, Some
    <3>4. QED
      BY <3>2, <3>3
  <2>2. ASSUME NEW tx \in pool, IncludeClaim(tx)
        PROVE  [Abstract!Next]_(Abstract!vars)
    <3>1. Entries' = Append(Entries, tx.account)
      BY <2>2, ClaimAppends
    <3>2. /\ IsClaim(tx) /\ Counter = tx.pre.claim_counter /\ tx.account \notin Badged
      BY <2>2, ClaimGetsNumber
    <3>3. gate = Some(tx.pre) /\ gate' = Some(tx.post)
      BY <2>2 DEF IncludeClaim
    <3>4. Opened # {} /\ Opened' = Opened
      BY <3>2, <3>3 DEF Opened, IsClaim, Some
    <3>5. InOrder
      BY EntriesInOrder DEF IInv
    <3>6. Len(Entries) < U64_MAX
      BY <3>2, <3>5, TimeAssumption DEF InOrder, IsClaim, IsGate
    <3>7. \A n \in 1 .. Len(Entries) : Entries[n] # tx.account
      BY <3>2, <3>5 DEF InOrder
    <3>8. tx.account \in Claimants
      BY <3>2 DEF IsClaim
    <3>9. QED
      BY <3>1, <3>4, <3>6, <3>7, <3>8
  <2>3. CASE UNCHANGED <<gate, badges>>
    <3>1. Opened' = Opened
      BY <2>3 DEF Opened
    <3>2. Badged' = Badged /\ Counter' = Counter /\ \A c : Badge(c)' = Badge(c)
      BY <2>3 DEF Badged, Counter, Badge
    <3>3. Entries' = Entries
      BY <3>2 DEF Entries
    <3>4. QED
      BY <3>1, <3>3
  <2>4. QED
    BY <2>1, <2>2, <2>3
    DEF Next, vars, Tick, Deploy, SubmitInitialization, GateInit, InitState, onChain,
        IncludeDeployment, FetchState, Simulate, CreateClaim, Compose, Submit, Prove,
        TruncateBadge, WriteBadge, Send, Abort
<1>3. QED
  BY <1>1, <1>2, Inductive, PTL DEF Spec, ImplementsLedger, Abstract!Spec
=============================================================================
