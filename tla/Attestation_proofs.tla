------------------------ MODULE Attestation_proofs -------------------------
(***************************************************************************)
(* What the proofs of the other modules use of the pure functions of       *)
(* Attestation: what a table of checks, an issued challenge, a             *)
(* presentation and an accepting verdict guarantee, for every gate, proof, *)
(* clock and cache.                                                        *)
(***************************************************************************)
EXTENDS Attestation, WellFoundedInduction, TLAPS

\* A set of natural numbers that is not empty has a least element.
LEMMA LeastIndex ==
    ASSUME NEW S, S \subseteq Nat, S # {}
    PROVE  \E m \in S : \A j \in S : m <= j
<1> DEFINE R == OpToRel(<, Nat)
<1>1. IsWellFoundedOn(R, Nat)
  BY NatLessThanWellFounded
<1>2. \A x, y \in Nat : x < y => <<x, y>> \in R
  BY DEF OpToRel
<1> HIDE DEF R
<1>3. PICK m \in S : \A j \in S : ~(<<j, m>> \in R)
  BY <1>1, WFMin
<1>4. \A j \in S : m <= j
  <2> SUFFICES ASSUME NEW j \in S PROVE m <= j
    OBVIOUS
  <2>1. m \in Nat /\ j \in Nat /\ ~(j < m)
    BY <1>2, <1>3
  <2>2. QED
    BY <2>1
<1>5. QED
  BY <1>4

\* A chain of early returns of which each gives an error answers "Ok" only
\* when no condition of it held.
LEMMA FirstFailureOk ==
    ASSUME NEW k \in Nat, NEW checks, DOMAIN checks = 1 .. k,
           \A i \in 1 .. k : checks[i][1] => checks[i][2] # "Ok",
           first_failure(checks) = "Ok"
    PROVE  \A i \in 1 .. k : ~checks[i][1]
<1> DEFINE failed == {i \in DOMAIN checks : checks[i][1]}
           first == CHOOSE i \in failed : \A j \in failed : i <= j
<1>1. CASE failed = {}
  BY <1>1
<1>2. CASE failed # {}
  <2>1. first \in failed
    <3>0. failed \subseteq Nat
      OBVIOUS
    <3> HIDE DEF failed
    <3>1. \E m \in failed : \A j \in failed : m <= j
      BY <1>2, <3>0, LeastIndex
    <3>2. QED
      BY <3>1
  <2>2. first_failure(checks) = checks[first][2]
    BY <1>2 DEF first_failure
  <2>3. QED
    BY <2>1, <2>2
<1>3. QED
  BY <1>1, <1>2

\* create_challenge succeeds only for a valid gate, its own verifier, a trusted
\* root and a lifetime within the maximum, and then returns that challenge.
LEMMA CreateIssues ==
    ASSUME NEW gate, NEW root, NEW v, NEW now, NEW ttl, NEW nonce,
           create_challenge(gate, root, v, now, ttl, nonce).code = "Ok"
    PROVE  /\ create_challenge(gate, root, v, now, ttl, nonce).value =
                new_challenge(context_hash(gate.context), root, v, nonce, now, now + ttl)
           /\ validate_gate(gate)
           /\ v = gate.context.verifier_id
           /\ root # ZeroDigest /\ ttl # 0 /\ ~(ttl > MAX_CHALLENGE_TTL_MS)
           /\ ~(now + ttl > U64_MAX)
<1> DEFINE checks == <<
             <<~validate_gate(gate), "InvalidGate">>,
             <<v # gate.context.verifier_id, "WrongVerifier">>,
             <<root = ZeroDigest \/ ttl = 0 \/ ttl > MAX_CHALLENGE_TTL_MS,
               "InvalidChallenge">>,
             <<now + ttl > U64_MAX, "InvalidChallenge">> >>
           made == new_challenge(context_hash(gate.context), root, v, nonce, now, now + ttl)
<1>1. create_challenge(gate, root, v, now, ttl, nonce) =
        IF first_failure(checks) = "Ok" THEN Ok(made) ELSE Err(first_failure(checks))
  BY DEF create_challenge
<1>2. first_failure(checks) = "Ok"
  BY <1>1 DEF Err
<1>3. \A i \in 1 .. 4 : ~checks[i][1]
  <2>1. DOMAIN checks = 1 .. 4
    OBVIOUS
  <2>2. \A i \in 1 .. 4 : checks[i][2] # "Ok"
    OBVIOUS
  <2> HIDE DEF checks
  <2>3. QED
    BY <1>2, <2>1, <2>2, FirstFailureOk
<1>4. ~checks[1][1] /\ ~checks[2][1] /\ ~checks[3][1] /\ ~checks[4][1]
  <2> HIDE DEF checks
  <2>1. QED
    BY <1>3
<1>5. (now + ttl > U64_MAX) \in BOOLEAN /\ (ttl > MAX_CHALLENGE_TTL_MS) \in BOOLEAN /\ validate_gate(gate) \in BOOLEAN
  BY DEF validate_gate
<1>6. validate_gate(gate)
  BY <1>4, <1>5
<1>7. v = gate.context.verifier_id
  BY <1>4
<1>8. root # ZeroDigest /\ ttl # 0 /\ ~(ttl > MAX_CHALLENGE_TTL_MS)
  BY <1>4
<1>9. ~(now + ttl > U64_MAX)
  BY <1>4
<1>10. QED
  BY <1>1, <1>2, <1>6, <1>7, <1>8, <1>9 DEF Ok

\* present, when it succeeds, answers the challenge it was given with the journal
\* and the key of the proof, both bound to the challenge's gate context and root.
LEMMA PresentAnswers ==
    ASSUME NEW proof, NEW c, NEW key, present(proof, c, key).code = "Ok"
    PROVE  /\ present(proof, c, key).value.challenge = c
           /\ present(proof, c, key).value.journal = proof.journal
           /\ present(proof, c, key).value.receipt = proof.receipt
           /\ proof.journal.presenter_public_key = key
           /\ proof.journal.commitment_root = c.expected_commitment_root
           /\ proof.journal.context_hash = c.gate_context_hash
<1> DEFINE checks == <<
             <<proof.journal.presenter_public_key # key, "BadPresenter">>,
             <<proof.journal.commitment_root # c.expected_commitment_root,
               "UntrustedCommitmentRoot">>,
             <<proof.journal.context_hash # c.gate_context_hash, "WrongContext">> >>
           made == [journal   |-> proof.journal,
                    receipt   |-> proof.receipt,
                    challenge |-> c,
                    presenter_signature |->
                        sign(key, presentation_message(c, proof.receipt))]
<1>1. present(proof, c, key) =
        IF first_failure(checks) = "Ok" THEN Ok(made) ELSE Err(first_failure(checks))
  BY DEF present
<1>2. first_failure(checks) = "Ok"
  BY <1>1 DEF Err
<1>3. ~checks[1][1] /\ ~checks[2][1] /\ ~checks[3][1]
  <2>1. DOMAIN checks = 1 .. 3 /\ \A i \in 1 .. 3 : checks[i][2] # "Ok"
    OBVIOUS
  <2> HIDE DEF checks
  <2>2. \A i \in 1 .. 3 : ~checks[i][1]
    BY <1>2, <2>1, FirstFailureOk
  <2>3. QED
    BY <2>2
<1>4. /\ proof.journal.presenter_public_key = key
      /\ proof.journal.commitment_root = c.expected_commitment_root
      /\ proof.journal.context_hash = c.gate_context_hash
  BY <1>3
<1>5. QED
  BY <1>1, <1>2, <1>4 DEF Ok

\* What present writes when it succeeds: the proof, the challenge and the
\* signature over both.
LEMMA PresentMakes ==
    ASSUME NEW proof, NEW c, NEW key, present(proof, c, key).code = "Ok"
    PROVE  present(proof, c, key).value =
             [journal   |-> proof.journal,
              receipt   |-> proof.receipt,
              challenge |-> c,
              presenter_signature |->
                  sign(key, presentation_message(c, proof.receipt))]
<1> DEFINE checks == <<
             <<proof.journal.presenter_public_key # key, "BadPresenter">>,
             <<proof.journal.commitment_root # c.expected_commitment_root,
               "UntrustedCommitmentRoot">>,
             <<proof.journal.context_hash # c.gate_context_hash, "WrongContext">> >>
           made == [journal   |-> proof.journal,
                    receipt   |-> proof.receipt,
                    challenge |-> c,
                    presenter_signature |->
                        sign(key, presentation_message(c, proof.receipt))]
<1>1. present(proof, c, key) =
        IF first_failure(checks) = "Ok" THEN Ok(made) ELSE Err(first_failure(checks))
  BY DEF present
<1> HIDE DEF checks, made
<1>2. present(proof, c, key).value = made
  BY <1>1 DEF Ok, Err
<1>3. QED
  BY <1>2 DEF made

\* The claims and the signature of an envelope are accepted only when the gate is
\* valid, the challenge is the expected one, within its lifetime and for this
\* verifier and gate, and the journal is for the challenge's root and the gate's
\* token and threshold, neither expired nor too old, and signed by its presenter.
LEMMA ClaimsHold ==
    ASSUME NEW e, NEW x, NEW gate, NEW v, NEW now,
           validate_claims_and_signature(e, x, gate, v, now) = "Ok"
    PROVE  /\ validate_gate(gate)
           /\ e.challenge = x
           /\ ~challenge_is_expired(x, now)
           /\ ~(x.issued_at_unix_ms > saturating_add(now, MAX_CLOCK_SKEW_MS))
           /\ x.verifier_id = v /\ v = gate.context.verifier_id
           /\ x.gate_context_hash = context_hash(gate.context)
           /\ e.journal.context_hash = context_hash(gate.context)
           /\ e.journal.commitment_root = x.expected_commitment_root
           /\ e.journal.token_program_owner = gate.context.token_program_owner
           /\ e.journal.token_definition_id = gate.context.token_definition_id
           /\ e.journal.threshold = gate.context.threshold
           /\ ~journal_is_expired(e.journal, now)
           /\ e.presenter_signature = sign(e.journal.presenter_public_key,
                                           presentation_message(x, e.receipt))
<1> DEFINE c == e.challenge
           j == e.journal
           context == gate.context
           checks == <<
             <<~validate_gate(gate), "InvalidGate">>,
             <<c # x, "InvalidChallenge">>,
             <<j.version # JOURNAL_VERSION, "MalformedEnvelope">>,
             <<\/ c.version # CHALLENGE_VERSION
               \/ ~has_valid_window(c)
               \/ c.expires_at_unix_ms - c.issued_at_unix_ms > MAX_CHALLENGE_TTL_MS,
               "InvalidChallenge">>,
             <<challenge_is_expired(c, now), "ExpiredChallenge">>,
             <<c.issued_at_unix_ms > saturating_add(now, MAX_CLOCK_SKEW_MS),
               "InvalidChallenge">>,
             <<c.verifier_id # v \/ c.verifier_id # context.verifier_id,
               "WrongVerifier">>,
             <<\/ c.gate_context_hash # context_hash(context)
               \/ j.context_hash # context_hash(context), "WrongContext">>,
             <<j.commitment_root # c.expected_commitment_root,
               "UntrustedCommitmentRoot">>,
             <<\/ j.token_program_owner # context.token_program_owner
               \/ j.token_definition_id # context.token_definition_id, "WrongToken">>,
             <<j.threshold # context.threshold, "WrongThreshold">>,
             <<j.expires_at_unix_ms # context.expires_at_unix_ms, "WrongContext">>,
             <<journal_is_expired(j, now), "ExpiredProof">>,
             <<\/ j.issued_at_unix_ms > saturating_add(now, MAX_CLOCK_SKEW_MS)
               \/ saturating_sub(now, j.issued_at_unix_ms) > MAX_PROOF_AGE_MS
               \/ saturating_add(j.issued_at_unix_ms, MAX_PROOF_AGE_MS)
                    < c.issued_at_unix_ms, "InvalidProofTime">>,
             <<j.presenter_public_key \in InvalidKeys, "BadPresenter">>,
             <<e.presenter_signature = MalformedSignature, "MalformedEnvelope">>,
             <<e.presenter_signature #
                 sign(j.presenter_public_key, presentation_message(c, e.receipt)),
               "BadPresenter">> >>
<1>1. first_failure(checks) = "Ok"
  BY DEF validate_claims_and_signature
<1>2. \A i \in 1 .. 17 : ~checks[i][1]
  <2>1. DOMAIN checks = 1 .. 17
    OBVIOUS
  <2>2. \A i \in 1 .. 17 : checks[i][2] # "Ok"
    OBVIOUS
  <2> HIDE DEF checks
  <2>3. QED
    BY <1>1, <2>1, <2>2, FirstFailureOk
<1>3. /\ ~checks[1][1] /\ ~checks[2][1] /\ ~checks[5][1] /\ ~checks[6][1]
      /\ ~checks[7][1] /\ ~checks[8][1] /\ ~checks[9][1] /\ ~checks[10][1]
      /\ ~checks[11][1] /\ ~checks[13][1] /\ ~checks[17][1]
  <2> HIDE DEF checks
  <2>1. QED
    BY <1>2
<1>4. /\ validate_gate(gate) \in BOOLEAN /\ challenge_is_expired(c, now) \in BOOLEAN
      /\ journal_is_expired(j, now) \in BOOLEAN
  BY DEF validate_gate, challenge_is_expired, journal_is_expired
<1>5. validate_gate(gate)
  BY <1>3, <1>4
<1>6. c = x
  BY <1>3
<1>7. ~challenge_is_expired(c, now)
  BY <1>3, <1>4
<1>8. ~(c.issued_at_unix_ms > saturating_add(now, MAX_CLOCK_SKEW_MS))
  BY <1>3
<1>9. c.verifier_id = v /\ c.verifier_id = context.verifier_id
  BY <1>3
<1>10. /\ c.gate_context_hash = context_hash(context)
       /\ j.context_hash = context_hash(context)
  BY <1>3
<1>11. j.commitment_root = c.expected_commitment_root
  BY <1>3
<1>12. /\ j.token_program_owner = context.token_program_owner
       /\ j.token_definition_id = context.token_definition_id
       /\ j.threshold = context.threshold
  BY <1>3
<1>13. ~journal_is_expired(j, now)
  BY <1>3, <1>4
<1>14. e.presenter_signature =
         sign(j.presenter_public_key, presentation_message(c, e.receipt))
  BY <1>3
<1>15. QED
  BY <1>5, <1>6, <1>7, <1>8, <1>9, <1>10, <1>11, <1>12, <1>13, <1>14

\* verify accepts only an envelope whose claims hold, whose receipt is a genuine
\* proof of its journal and whose challenge was not consumed, and then consumes
\* exactly that challenge; a refused envelope leaves the cache alone.
LEMMA VerifyConsumes ==
    ASSUME NEW e, NEW x, NEW gate, NEW v, NEW now, NEW S
    PROVE  LET answer == verify(e, x, gate, v, now, S)
           IN  IF answer.code = "Ok"
               THEN /\ validate_claims_and_signature(e, x, gate, v, now) = "Ok"
                    /\ verify_receipt(e)
                    /\ digest(e.challenge) \notin S
                    /\ answer.consumed = S \cup {digest(e.challenge)}
               ELSE answer.consumed = S
<1> DEFINE claims == validate_claims_and_signature(e, x, gate, v, now)
           d == digest(e.challenge)
           checks == << <<~verify_receipt(e), "InvalidProof">>,
                        <<d \in S, "ReplayedChallenge">> >>
           code == IF claims # "Ok" THEN claims ELSE first_failure(checks)
<1>1. verify(e, x, gate, v, now, S) =
        [code |-> code, consumed |-> IF code = "Ok" THEN S \cup {d} ELSE S]
  BY DEF verify
<1>2. CASE code # "Ok"
  <2> HIDE DEF code, claims, d
  <2>1. QED
    BY <1>1, <1>2
<1>3. CASE code = "Ok"
  <2>1. claims = "Ok" /\ first_failure(checks) = "Ok"
    <3> HIDE DEF claims, checks
    <3>1. QED
      BY <1>3
  <2>2. ~checks[1][1] /\ ~checks[2][1]
    <3>1. DOMAIN checks = 1 .. 2 /\ \A i \in 1 .. 2 : checks[i][2] # "Ok"
      OBVIOUS
    <3> HIDE DEF checks
    <3>2. \A i \in 1 .. 2 : ~checks[i][1]
      BY <2>1, <3>1, FirstFailureOk
    <3>3. QED
      BY <3>2
  <2>3. verify_receipt(e) \in BOOLEAN
    BY DEF verify_receipt
  <2>4. verify_receipt(e) /\ d \notin S
    BY <2>2, <2>3
  <2> HIDE DEF claims, d, code
  <2>5. verify(e, x, gate, v, now, S).code = "Ok"
    BY <1>1, <1>3
  <2>6. verify(e, x, gate, v, now, S).consumed = S \cup {d}
    BY <1>1, <1>3
  <2>7. QED
    BY <2>1, <2>4, <2>5, <2>6 DEF d, claims
<1>4. QED
  BY <1>2, <1>3

\* A chain of early returns of which no condition holds answers "Ok".
LEMMA FirstFailureNone ==
    ASSUME NEW k \in Nat, NEW checks, DOMAIN checks = 1 .. k,
           \A i \in 1 .. k : ~checks[i][1]
    PROVE  first_failure(checks) = "Ok"
BY DEF first_failure

\* check_holding accepts only an account of the gate's token program with a
\* holding of the gate's token that is not below the threshold.
LEMMA HoldingQualifies ==
    ASSUME NEW account, NEW context, check_holding(account, context) = "Ok"
    PROVE  /\ account.program_owner = context.token_program_owner
           /\ account.holding # None
           /\ \A h \in account.holding :
                /\ h.definition_id = context.token_definition_id
                /\ ~(h.balance < context.threshold)
<1> DEFINE checks == <<
      <<account.program_owner # context.token_program_owner, "WrongProgramOwner">>,
      <<account.holding = None, "InvalidTokenHolding">>,
      <<\E h \in account.holding : h.definition_id # context.token_definition_id,
        "WrongTokenDefinition">>,
      <<\E h \in account.holding : h.balance < context.threshold,
        "InsufficientBalance">> >>
<1>1. first_failure(checks) = "Ok"
  BY DEF check_holding
<1>2. ~checks[1][1] /\ ~checks[2][1] /\ ~checks[3][1] /\ ~checks[4][1]
  <2>1. DOMAIN checks = 1 .. 4 /\ \A i \in 1 .. 4 : checks[i][2] # "Ok"
    OBVIOUS
  <2> HIDE DEF checks
  <2>2. \A i \in 1 .. 4 : ~checks[i][1]
    BY <1>1, <2>1, FirstFailureOk
  <2>3. QED
    BY <2>2
<1>3. QED
  BY <1>2

\* evaluate succeeds only for a holding the gate accepts, a presenter key and a
\* path to the root, and then returns the journal of exactly these inputs.
LEMMA EvaluateAttests ==
    ASSUME NEW w, evaluate(w).code = "Ok"
    PROVE  /\ evaluate(w).value = new_journal(w.gate_context, w.commitment_root,
                                              w.presenter_public_key, w.issued_at_unix_ms)
           /\ w.presenter_public_key # ZeroDigest
           /\ check_holding(w.account, w.gate_context) = "Ok"
           /\ verifies(w.membership_proof, commitment(w.account), w.commitment_root)
<1> DEFINE context == w.gate_context
           holding == check_holding(w.account, context)
           member == verifies(w.membership_proof, commitment(w.account), w.commitment_root)
           made == new_journal(context, w.commitment_root, w.presenter_public_key,
                               w.issued_at_unix_ms)
           checks == <<
             <<context.threshold = 0, "ZeroThreshold">>,
             <<w.presenter_public_key = ZeroDigest, "MissingPresenterKey">>,
             <<\E expiry \in context.expires_at_unix_ms : w.issued_at_unix_ms > expiry,
               "IssuedAfterExpiry">>,
             <<holding # "Ok", holding>>,
             <<~member, "InvalidMembershipProof">> >>
<1>1. evaluate(w) =
        IF first_failure(checks) = "Ok" THEN Ok(made) ELSE Err(first_failure(checks))
  BY DEF evaluate
<1>2. first_failure(checks) = "Ok"
  BY <1>1 DEF Err
<1>0. member \in BOOLEAN
  BY DEF verifies
<1> HIDE DEF holding, member
<1>3. ~checks[2][1] /\ ~checks[4][1] /\ ~checks[5][1]
  <2>1. DOMAIN checks = 1 .. 5
    OBVIOUS
  <2>2. \A i \in 1 .. 5 : checks[i][1] => checks[i][2] # "Ok"
    <3>1. \A i \in 1 .. 5 : i # 4 => checks[i][2] # "Ok"
      OBVIOUS
    <3>2. checks[4][1] = (holding # "Ok") /\ checks[4][2] = holding
      OBVIOUS
    <3> HIDE DEF checks
    <3>3. QED
      BY <3>1, <3>2
  <2> HIDE DEF checks
  <2>3. \A i \in 1 .. 5 : ~checks[i][1]
    BY <1>2, <2>1, <2>2, FirstFailureOk
  <2>4. QED
    BY <2>3
<1>4. w.presenter_public_key # ZeroDigest /\ holding = "Ok" /\ member
  BY <1>0, <1>3
<1>5. QED
  BY <1>1, <1>2, <1>4 DEF Ok, holding, member

\* prove makes a genuine receipt of what evaluate returned, or no proof: a value
\* of RISC0_DEV_MODE under which the prover fakes receipts is refused before.
LEMMA ProveIsGenuine ==
    ASSUME NEW w, NEW dev_mode, prove(w, dev_mode).code = "Ok"
    PROVE  /\ evaluate(w).code = "Ok"
           /\ prove(w, dev_mode).value =
                [journal |-> evaluate(w).value,
                 receipt |-> [image |-> IMAGE_ID, journal |-> evaluate(w).value]]
<1> DEFINE mode == ensure_real_proving_mode(dev_mode)
           result == evaluate(w)
           made == [journal |-> result.value, receipt |-> make_receipt(result.value, dev_mode)]
<1>1. prove(w, dev_mode) = IF mode # "Ok" THEN Err(mode)
                           ELSE IF result.code # "Ok" THEN result ELSE Ok(made)
  BY DEF prove
<1> HIDE DEF mode, result, made
<1>2. mode = "Ok" /\ result.code = "Ok" /\ prove(w, dev_mode).value = made
  <2>1. mode = "Ok"
    BY <1>1 DEF Err
  <2>2. result.code = "Ok"
    BY <1>1, <2>1
  <2>3. QED
    BY <1>1, <2>1, <2>2 DEF Ok
<1>3. dev_mode \subseteq {"", "0", "false", "off"}
  BY <1>2 DEF mode, ensure_real_proving_mode, parse_dev_mode
<1>4. ~(dev_mode \subseteq {"1", "true", "yes"} /\ dev_mode # None)
  BY <1>3 DEF None
<1>5. make_receipt(result.value, dev_mode) = [image |-> IMAGE_ID, journal |-> result.value]
  BY <1>4 DEF make_receipt
<1>6. QED
  BY <1>2, <1>5 DEF result, made

\* Claims and signature of an envelope are accepted when every check of
\* validate_claims_and_signature passes.
LEMMA ClaimsAccepted ==
    ASSUME NEW e, NEW gate, NEW v, NEW now,
           validate_gate(gate),
           e.journal.version = JOURNAL_VERSION,
           e.challenge.version = CHALLENGE_VERSION, has_valid_window(e.challenge),
           ~(e.challenge.expires_at_unix_ms - e.challenge.issued_at_unix_ms
               > MAX_CHALLENGE_TTL_MS),
           ~challenge_is_expired(e.challenge, now),
           ~(e.challenge.issued_at_unix_ms > saturating_add(now, MAX_CLOCK_SKEW_MS)),
           e.challenge.verifier_id = v, v = gate.context.verifier_id,
           e.challenge.gate_context_hash = context_hash(gate.context),
           e.journal.context_hash = context_hash(gate.context),
           e.journal.commitment_root = e.challenge.expected_commitment_root,
           e.journal.token_program_owner = gate.context.token_program_owner,
           e.journal.token_definition_id = gate.context.token_definition_id,
           e.journal.threshold = gate.context.threshold,
           e.journal.expires_at_unix_ms = gate.context.expires_at_unix_ms,
           ~journal_is_expired(e.journal, now),
           ~(e.journal.issued_at_unix_ms > saturating_add(now, MAX_CLOCK_SKEW_MS)),
           ~(saturating_sub(now, e.journal.issued_at_unix_ms) > MAX_PROOF_AGE_MS),
           ~(saturating_add(e.journal.issued_at_unix_ms, MAX_PROOF_AGE_MS)
               < e.challenge.issued_at_unix_ms),
           e.journal.presenter_public_key \notin InvalidKeys,
           e.presenter_signature # MalformedSignature,
           e.presenter_signature = sign(e.journal.presenter_public_key,
                                        presentation_message(e.challenge, e.receipt))
    PROVE  validate_claims_and_signature(e, e.challenge, gate, v, now) = "Ok"
<1> DEFINE c == e.challenge
           j == e.journal
           context == gate.context
           checks == <<
             <<~validate_gate(gate), "InvalidGate">>,
             <<c # c, "InvalidChallenge">>,
             <<j.version # JOURNAL_VERSION, "MalformedEnvelope">>,
             <<\/ c.version # CHALLENGE_VERSION
               \/ ~has_valid_window(c)
               \/ c.expires_at_unix_ms - c.issued_at_unix_ms > MAX_CHALLENGE_TTL_MS,
               "InvalidChallenge">>,
             <<challenge_is_expired(c, now), "ExpiredChallenge">>,
             <<c.issued_at_unix_ms > saturating_add(now, MAX_CLOCK_SKEW_MS),
               "InvalidChallenge">>,
             <<c.verifier_id # v \/ c.verifier_id # context.verifier_id,
               "WrongVerifier">>,
             <<\/ c.gate_context_hash # context_hash(context)
               \/ j.context_hash # context_hash(context), "WrongContext">>,
             <<j.commitment_root # c.expected_commitment_root,
               "UntrustedCommitmentRoot">>,
             <<\/ j.token_program_owner # context.token_program_owner
               \/ j.token_definition_id # context.token_definition_id, "WrongToken">>,
             <<j.threshold # context.threshold, "WrongThreshold">>,
             <<j.expires_at_unix_ms # context.expires_at_unix_ms, "WrongContext">>,
             <<journal_is_expired(j, now), "ExpiredProof">>,
             <<\/ j.issued_at_unix_ms > saturating_add(now, MAX_CLOCK_SKEW_MS)
               \/ saturating_sub(now, j.issued_at_unix_ms) > MAX_PROOF_AGE_MS
               \/ saturating_add(j.issued_at_unix_ms, MAX_PROOF_AGE_MS)
                    < c.issued_at_unix_ms, "InvalidProofTime">>,
             <<j.presenter_public_key \in InvalidKeys, "BadPresenter">>,
             <<e.presenter_signature = MalformedSignature, "MalformedEnvelope">>,
             <<e.presenter_signature #
                 sign(j.presenter_public_key, presentation_message(c, e.receipt)),
               "BadPresenter">> >>
<1>1. validate_claims_and_signature(e, c, gate, v, now) = first_failure(checks)
  BY DEF validate_claims_and_signature
<1>2. DOMAIN checks = 1 .. 17
  OBVIOUS
<1>3. /\ ~checks[1][1] /\ ~checks[2][1] /\ ~checks[3][1] /\ ~checks[4][1]
      /\ ~checks[5][1] /\ ~checks[6][1] /\ ~checks[7][1] /\ ~checks[8][1]
      /\ ~checks[9][1] /\ ~checks[10][1] /\ ~checks[11][1] /\ ~checks[12][1]
      /\ ~checks[13][1] /\ ~checks[14][1] /\ ~checks[15][1] /\ ~checks[16][1]
      /\ ~checks[17][1]
  OBVIOUS
<1> HIDE DEF checks
<1>4. \A i \in 1 .. 17 : ~checks[i][1]
  <2> SUFFICES ASSUME NEW i \in 1 .. 17 PROVE ~checks[i][1]
    OBVIOUS
  <2>1. \/ i = 1 \/ i = 2 \/ i = 3 \/ i = 4 \/ i = 5 \/ i = 6 \/ i = 7 \/ i = 8 \/ i = 9
        \/ i = 10 \/ i = 11 \/ i = 12 \/ i = 13 \/ i = 14 \/ i = 15 \/ i = 16 \/ i = 17
    OBVIOUS
  <2>2. QED
    BY <1>3, <2>1
<1>5. QED
  BY <1>1, <1>2, <1>4, FirstFailureNone

\* verify accepts an envelope whose claims hold, whose receipt proves its journal
\* and whose challenge was not consumed.
LEMMA VerifyAccepts ==
    ASSUME NEW e, NEW x, NEW gate, NEW v, NEW now, NEW S,
           validate_claims_and_signature(e, x, gate, v, now) = "Ok",
           verify_receipt(e), digest(e.challenge) \notin S
    PROVE  verify(e, x, gate, v, now, S).code = "Ok"
<1> DEFINE d == digest(e.challenge)
           checks == << <<~verify_receipt(e), "InvalidProof">>,
                        <<d \in S, "ReplayedChallenge">> >>
<1>1. verify(e, x, gate, v, now, S).code = first_failure(checks)
  BY DEF verify
<1>2. DOMAIN checks = 1 .. 2 /\ ~checks[1][1] /\ ~checks[2][1]
  <2>1. DOMAIN checks = 1 .. 2
    OBVIOUS
  <2>2. ~checks[1][1]
    BY DEF verify_receipt
  <2>3. ~checks[2][1]
    OBVIOUS
  <2>4. QED
    BY <2>1, <2>2, <2>3
<1> HIDE DEF checks
<1>3. \A i \in 1 .. 2 : ~checks[i][1]
  BY <1>2
<1>4. QED
  BY <1>1, <1>2, <1>3, FirstFailureNone

\* The digests compute_root goes through, from the leaf to the root: each is the
\* hash of the one below and its sibling, in one order or the other.
RootDigests(up, proof, c) ==
    /\ compute_root(proof, c) = up[Len(proof.siblings)]
    /\ up[0] = leaf_hash(c)
    /\ \A i \in 1 .. Len(proof.siblings) :
         \/ up[i] = sha256("Node", <<up[i - 1], proof.siblings[i]>>)
         \/ up[i] = sha256("Node", <<proof.siblings[i], up[i - 1]>>)

\* compute_root goes through such digests.
LEMMA ComputeRootUnfolds ==
    ASSUME NEW proof, NEW c, Len(proof.siblings) \in Nat
    PROVE  \E up : RootDigests(up, proof, c)
<1> DEFINE d == Len(proof.siblings)
           Left(i) == (proof.leaf_index \div 2^(i - 1)) % 2 = 0
           Step(i, x) == IF Left(i)
                         THEN sha256("Node", <<x, proof.siblings[i]>>)
                         ELSE sha256("Node", <<proof.siblings[i], x>>)
           Up(f, n) == f = [i \in 0 .. n |-> IF i = 0 THEN leaf_hash(c) ELSE Step(i, f[i - 1])]
           up == CHOOSE f : Up(f, d)
<1>1. compute_root(proof, c) = up[d]
  BY DEF compute_root
<1>2. \A i, x : \/ Step(i, x) = sha256("Node", <<x, proof.siblings[i]>>)
                \/ Step(i, x) = sha256("Node", <<proof.siblings[i], x>>)
  <2> HIDE DEF Left
  <2>1. QED
    OBVIOUS
<1>0. d \in Nat
  OBVIOUS
<1> HIDE DEF Step, d
<1>3. \A n \in 0 .. d : \E f : Up(f, n)
  <2> DEFINE Missing == {n \in 0 .. d : ~\E f : Up(f, n)}
  <2> SUFFICES ASSUME Missing # {} PROVE FALSE
    OBVIOUS
  <2>0. Missing \subseteq Nat
    OBVIOUS
  <2>1. PICK m \in Missing : \A j \in Missing : m <= j
    <3> HIDE DEF Missing
    <3>1. QED
      BY <2>0, LeastIndex
  <2>2. CASE m = 0
    <3>1. Up([i \in 0 .. 0 |-> leaf_hash(c)], 0)
      OBVIOUS
    <3>2. QED
      BY <2>1, <2>2, <3>1
  <2>3. CASE m # 0
    <3>1. m - 1 \in 0 .. d /\ m - 1 \notin Missing
      <4>1. m \in 0 .. d
        OBVIOUS
      <4> HIDE DEF Missing
      <4>2. QED
        BY <1>0, <2>1, <2>3, <4>1
    <3>2. PICK f : Up(f, m - 1)
      BY <3>1
    <3> DEFINE g == [i \in 0 .. m |-> IF i < m THEN f[i] ELSE Step(m, f[m - 1])]
    <3>3. Up(g, m)
      <4>1. \A i \in 0 .. m : g[i] = IF i = 0 THEN leaf_hash(c) ELSE Step(i, g[i - 1])
        <5> SUFFICES ASSUME NEW i \in 0 .. m
                     PROVE  g[i] = IF i = 0 THEN leaf_hash(c) ELSE Step(i, g[i - 1])
          OBVIOUS
        <5>1. CASE i < m
          <6>1. i \in 0 .. m - 1 /\ g[i] = f[i]
            BY <5>1, <2>1
          <6>2. f[i] = IF i = 0 THEN leaf_hash(c) ELSE Step(i, f[i - 1])
            BY <6>1, <3>2
          <6>3. i # 0 => g[i - 1] = f[i - 1]
            BY <5>1, <2>1
          <6> HIDE DEF g
          <6>4. QED
            BY <6>1, <6>2, <6>3
        <5>2. CASE i = m
          <6>1. g[i] = Step(m, f[m - 1]) /\ g[i - 1] = f[m - 1]
            BY <5>2, <2>1, <2>3
          <6> HIDE DEF g
          <6>2. QED
            BY <6>1, <5>2, <2>3
        <5>3. QED
          BY <5>1, <5>2, <2>1
      <4>2. QED
        BY <4>1
    <3>4. QED
      BY <2>1, <3>3
  <2>4. QED
    BY <2>2, <2>3
<1>4. Up(up, d)
  <2>1. \E f : Up(f, d)
    BY <1>0, <1>3
  <2> HIDE DEF Up
  <2>2. QED
    BY <2>1
<1>5. up[0] = leaf_hash(c) /\ \A i \in 1 .. d : up[i] = Step(i, up[i - 1])
  <2> HIDE DEF up
  <2>1. QED
    BY <1>0, <1>4
<1>6. QED
  <2> HIDE DEF up, Up
  <2>1. QED
    BY <1>1, <1>2, <1>5 DEF d, RootDigests
=============================================================================
