---------------------------- MODULE Attestation ----------------------------
(***************************************************************************)
(* The data and the pure functions every other module rests on: gate       *)
(* configurations, journals, verifier challenges, the balance circuit, the *)
(* presenter's signature and the off-chain verification policy.            *)
(*                                                                         *)
(* Bytes are abstracted, decisions are not.  A SHA-256 digest is an        *)
(* injective constructor tagged by its domain string, a signature is the   *)
(* pair (key, message), a RISC Zero receipt is the pair (image, journal)   *)
(* and an Option is a set of at most one element, so that is_some_and is   *)
(* a bounded \E.  Times keep their width: u64 additions saturate or fail   *)
(* at U64_MAX exactly where the code's do.                                 *)
(***************************************************************************)
EXTENDS Integers, Sequences

CONSTANTS
    MAX_CHALLENGE_TTL_MS,   \* longest life of a verifier challenge
    MAX_CLOCK_SKEW_MS,      \* how far in the future an issue time may lie
    MAX_PROOF_AGE_MS,       \* oldest proof the verifier still accepts
    U64_MAX,                \* largest u64, scaled down
    ZeroDigest,             \* the all-zero 32-byte value
    InvalidKeys,            \* 32-byte values that are not Ed25519 points
    IMAGE_ID                \* image id of the balance-attestation guest

ASSUME TimeAssumption ==
    /\ {MAX_CHALLENGE_TTL_MS, MAX_CLOCK_SKEW_MS, MAX_PROOF_AGE_MS} \subseteq Nat
    /\ U64_MAX \in Nat

JOURNAL_VERSION == 2
CHALLENGE_VERSION == 2

sha256(domain, value) == <<domain, value>>

saturating_add(a, b) == IF a + b > U64_MAX THEN U64_MAX ELSE a + b
saturating_sub(a, b) == IF a < b THEN 0 ELSE a - b

None == {}
Some(v) == {v}

Ok(value) == [code |-> "Ok", value |-> value]
Err(code) == [code |-> code, value |-> None]

\* A chain of early returns, as a table of <<failing condition, error>> rows:
\* the first row whose condition holds gives the result, otherwise "Ok".
first_failure(checks) ==
    LET failed == {i \in DOMAIN checks : checks[i][1]}
    IN  IF failed = {}
        THEN "Ok"
        ELSE checks[CHOOSE i \in failed : \A j \in failed : i <= j][2]

---------------------------------------------------------------------------
(* Gate configuration.  "well_formed" stands for the checks on labels,     *)
(* schema versions and numeric ranges of the token and gate files.         *)

context_hash(context) == sha256("GateContext", context)

validate_gate(gate) ==
    /\ gate.well_formed
    /\ gate.context.threshold > 0
    /\ gate.context.token_program_owner = gate.token.token_program_owner
    /\ gate.context.token_definition_id = gate.token.definition_account_id

---------------------------------------------------------------------------
(* Accounts, commitments and Merkle membership.                            *)

commitment(account) == sha256("Commitment", account)

leaf_hash(c) == sha256("Leaf", c)

\* MembershipProof::compute_root: fold the siblings from the leaf upwards;
\* bit i of leaf_index says on which side the running digest goes.
compute_root(proof, c) ==
    LET up[i \in 0 .. Len(proof.siblings)] ==
          IF i = 0
          THEN leaf_hash(c)
          ELSE LET sibling == proof.siblings[i]
                   level_index == proof.leaf_index \div 2^(i - 1)
               IN  IF level_index % 2 = 0
                   THEN sha256("Node", <<up[i - 1], sibling>>)
                   ELSE sha256("Node", <<sibling, up[i - 1]>>)
    IN  up[Len(proof.siblings)]

verifies(proof, c, expected_root) == compute_root(proof, c) = expected_root

---------------------------------------------------------------------------
(* Journals and the circuit.                                               *)

new_journal(context, root, key, issued_at) ==
    [version             |-> JOURNAL_VERSION,
     context_hash        |-> context_hash(context),
     token_program_owner |-> context.token_program_owner,
     token_definition_id |-> context.token_definition_id,
     threshold           |-> context.threshold,
     commitment_root     |-> root,
     presenter_public_key|-> key,
     issued_at_unix_ms   |-> issued_at,
     expires_at_unix_ms  |-> context.expires_at_unix_ms]

journal_is_expired(journal, now) ==
    \E expires_at \in journal.expires_at_unix_ms : now > expires_at

\* The checks of evaluate on the account.  An account whose data does not decode
\* as a fungible holding has holding = None.
\* Mutant: the balance is not compared with the threshold.
check_holding_any_balance(account, context) ==
    IF \E h \in account.holding : h.definition_id = context.token_definition_id
    THEN "Ok" ELSE "WrongTokenDefinition"

check_holding(account, context) ==
    first_failure(<<
      <<account.program_owner # context.token_program_owner, "WrongProgramOwner">>,
      <<account.holding = None, "InvalidTokenHolding">>,
      <<\E h \in account.holding : h.definition_id # context.token_definition_id,
        "WrongTokenDefinition">>,
      <<\E h \in account.holding : h.balance < context.threshold,
        "InsufficientBalance">> >>)

\* attestation_circuit::evaluate.
evaluate(w) ==
    LET context == w.gate_context
        holding == check_holding(w.account, context)
        code == first_failure(<<
          <<context.threshold = 0, "ZeroThreshold">>,
          <<w.presenter_public_key = ZeroDigest, "MissingPresenterKey">>,
          <<\E expiry \in context.expires_at_unix_ms : w.issued_at_unix_ms > expiry,
            "IssuedAfterExpiry">>,
          <<holding # "Ok", holding>>,
          <<~verifies(w.membership_proof, commitment(w.account), w.commitment_root),
            "InvalidMembershipProof">> >>)
    IN  IF code = "Ok"
        THEN Ok(new_journal(context, w.commitment_root, w.presenter_public_key,
                            w.issued_at_unix_ms))
        ELSE Err(code)

---------------------------------------------------------------------------
(* Receipts.  The proof system is external: a receipt names the image that *)
(* produced it and the journal it commits to.                              *)

\* RISC0_DEV_MODE, an Option of the trimmed value in lower case.
DevModeValues == {None, Some("0"), Some("true"), Some("yes")}

parse_dev_mode(value) ==
    IF value \subseteq {"", "0", "false", "off"} THEN "Disabled"
    ELSE IF value \subseteq {"1", "true", "on"} THEN "Enabled"
    ELSE "InvalidDevMode"

ensure_real_proving_mode(value) ==
    CASE parse_dev_mode(value) = "Disabled" -> "Ok"
      [] parse_dev_mode(value) = "Enabled"  -> "DevModeEnabled"
      [] OTHER -> parse_dev_mode(value)

\* The prover (external): in dev mode it makes a fake receipt.
make_receipt(journal, dev_mode) ==
    [image |-> IF dev_mode \subseteq {"1", "true", "yes"} /\ dev_mode # None
               THEN ZeroDigest ELSE IMAGE_ID,
     journal |-> journal]

\* attestation_prover::prove: the guest runs evaluate, and the receipt commits to
\* the journal it returned.
prove(w, dev_mode) ==
    LET mode == ensure_real_proving_mode(dev_mode)
        result == evaluate(w)
    IN  IF mode # "Ok" THEN Err(mode)
        ELSE IF result.code # "Ok" THEN result
        ELSE Ok([journal |-> result.value,
                 receipt |-> make_receipt(result.value, dev_mode)])

verify_receipt(proof) ==
    /\ proof.receipt.image = IMAGE_ID
    /\ proof.receipt.journal = proof.journal

---------------------------------------------------------------------------
(* Verifier challenges.                                                    *)

new_challenge(hash, root, verifier_id, nonce, issued_at, expires_at) ==
    [version                  |-> CHALLENGE_VERSION,
     gate_context_hash        |-> hash,
     expected_commitment_root |-> root,
     verifier_id              |-> verifier_id,
     nonce                    |-> nonce,
     issued_at_unix_ms        |-> issued_at,
     expires_at_unix_ms       |-> expires_at]

digest(challenge) == sha256("VerificationChallenge", challenge)

\* Mutants: the last millisecond is lost; a skew is granted after the end.
challenge_is_expired_early(challenge, now) == now >= challenge.expires_at_unix_ms
challenge_is_expired_late(challenge, now) ==
    now > challenge.expires_at_unix_ms + MAX_CLOCK_SKEW_MS

challenge_is_expired(challenge, now) == now > challenge.expires_at_unix_ms

has_valid_window(challenge) ==
    challenge.issued_at_unix_ms <= challenge.expires_at_unix_ms

\* attestation_verifier::create_challenge; the 32 random bytes are a parameter.
create_challenge(gate, root, verifier_id, now, ttl, nonce) ==
    LET code == first_failure(<<
          <<~validate_gate(gate), "InvalidGate">>,
          <<verifier_id # gate.context.verifier_id, "WrongVerifier">>,
          <<root = ZeroDigest \/ ttl = 0 \/ ttl > MAX_CHALLENGE_TTL_MS,
            "InvalidChallenge">>,
          <<now + ttl > U64_MAX, "InvalidChallenge">> >>)
    IN  IF code = "Ok"
        THEN Ok(new_challenge(context_hash(gate.context), root, verifier_id,
                              nonce, now, now + ttl))
        ELSE Err(code)

---------------------------------------------------------------------------
(* Presentation and verification.                                          *)

\* Mutant: the receipt is not covered by the signature.
presentation_message_unbound(challenge, receipt) ==
    sha256("PresentationBinding", <<challenge>>)

presentation_message(challenge, receipt) ==
    sha256("PresentationBinding", <<challenge, sha256("Receipt", receipt)>>)

sign(key, message) == [key |-> key, message |-> message]

\* Bytes that do not decode as an Ed25519 signature.
MalformedSignature == [key |-> ZeroDigest, message |-> ZeroDigest]

present(proof, challenge, key) ==
    LET code == first_failure(<<
          <<proof.journal.presenter_public_key # key, "BadPresenter">>,
          <<proof.journal.commitment_root # challenge.expected_commitment_root,
            "UntrustedCommitmentRoot">>,
          <<proof.journal.context_hash # challenge.gate_context_hash,
            "WrongContext">> >>)
    IN  IF code = "Ok"
        THEN Ok([journal   |-> proof.journal,
                 receipt   |-> proof.receipt,
                 challenge |-> challenge,
                 presenter_signature |->
                     sign(key, presentation_message(challenge, proof.receipt))])
        ELSE Err(code)

\* The checks of validate_claims_and_signature in the order the code makes them.
validate_claims_and_signature(envelope, expected_challenge, gate, verifier_id, now) ==
    LET challenge == envelope.challenge
        journal == envelope.journal
        context == gate.context
        signature == envelope.presenter_signature
    IN  first_failure(<<
          <<~validate_gate(gate), "InvalidGate">>,
          <<challenge # expected_challenge, "InvalidChallenge">>,
          <<journal.version # JOURNAL_VERSION, "MalformedEnvelope">>,
          <<\/ challenge.version # CHALLENGE_VERSION
            \/ ~has_valid_window(challenge)
            \/ challenge.expires_at_unix_ms - challenge.issued_at_unix_ms
                 > MAX_CHALLENGE_TTL_MS, "InvalidChallenge">>,
          <<challenge_is_expired(challenge, now), "ExpiredChallenge">>,
          <<challenge.issued_at_unix_ms > saturating_add(now, MAX_CLOCK_SKEW_MS),
            "InvalidChallenge">>,
          <<\/ challenge.verifier_id # verifier_id
            \/ challenge.verifier_id # context.verifier_id, "WrongVerifier">>,
          <<\/ challenge.gate_context_hash # context_hash(context)
            \/ journal.context_hash # context_hash(context), "WrongContext">>,
          <<journal.commitment_root # challenge.expected_commitment_root,
            "UntrustedCommitmentRoot">>,
          <<\/ journal.token_program_owner # context.token_program_owner
            \/ journal.token_definition_id # context.token_definition_id,
            "WrongToken">>,
          <<journal.threshold # context.threshold, "WrongThreshold">>,
          <<journal.expires_at_unix_ms # context.expires_at_unix_ms, "WrongContext">>,
          <<journal_is_expired(journal, now), "ExpiredProof">>,
          <<\/ journal.issued_at_unix_ms > saturating_add(now, MAX_CLOCK_SKEW_MS)
            \/ saturating_sub(now, journal.issued_at_unix_ms) > MAX_PROOF_AGE_MS
            \/ saturating_add(journal.issued_at_unix_ms, MAX_PROOF_AGE_MS)
                 < challenge.issued_at_unix_ms, "InvalidProofTime">>,
          <<journal.presenter_public_key \in InvalidKeys, "BadPresenter">>,
          <<signature = MalformedSignature, "MalformedEnvelope">>,
          <<signature # sign(journal.presenter_public_key,
                             presentation_message(challenge, envelope.receipt)),
            "BadPresenter">> >>)

\* attestation_verifier::verify: the verdict, and the replay cache after the
\* call.  Only the last step, consume, touches the cache.
verify(envelope, expected_challenge, gate, verifier_id, now, consumed) ==
    LET d == digest(envelope.challenge)
        claims == validate_claims_and_signature(envelope, expected_challenge,
                                                gate, verifier_id, now)
        code == IF claims # "Ok" THEN claims
                ELSE first_failure(<<
                       <<~verify_receipt(envelope), "InvalidProof">>,
                       <<d \in consumed, "ReplayedChallenge">> >>)
    IN  [code |-> code,
         consumed |-> IF code = "Ok" THEN consumed \cup {d} ELSE consumed]
=============================================================================
