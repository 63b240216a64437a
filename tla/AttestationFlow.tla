-------------------------- MODULE AttestationFlow --------------------------
(***************************************************************************)
(* The off-chain flow end to end, one operation per step: the commitment   *)
(* tree grows, the holder proves against it, the verifier pins its root in *)
(* a challenge, the holder presents, and verify decides with the replay    *)
(* cache in memory.  Concurrency between verifier processes is the subject *)
(* of ReplayVerifier; this module is about what an acceptance means.       *)
(*                                                                         *)
(* The holder's machine and the verifier's machine each have a clock; a    *)
(* holder's is off the verifier's by one of HolderOffsets.                 *)
(***************************************************************************)
EXTENDS Attestation, FiniteSets

CONSTANTS
    Gate,            \* the gate configuration both sides read
    OtherGate,       \* another gate the holder may prove for
    Accounts,        \* private accounts: [program_owner, holding]
    InitialLeaves,   \* accounts committed before the flow starts
    NewAccounts,     \* accounts later blocks may commit
    Keys,            \* presenter public keys
    TTLs,            \* lifetimes the operator asks for
    HolderOffsets,   \* how far holders' clocks may be off the verifier's
    DefaultAccount,  \* the default account, committed in the genesis block
    DEPTH,           \* depth of the commitment tree
    EmptyLeaf,       \* digest of an unused leaf
    MaxClock, MaxProofs, MaxChallenges   \* bounds

\* The tree starts with accounts of the model and its empty leaves are not the
\* leaf of any account; balances and times are numbers; and no reading of a
\* holder's clock is ahead of the verifier's by more than the allowed skew, or
\* beyond a u64.
ASSUME FlowAssumption ==
    /\ InitialLeaves \in Seq(Accounts) /\ NewAccounts \subseteq Accounts
    /\ \A a \in Accounts :
          /\ leaf_hash(commitment(a)) # EmptyLeaf
          /\ \A h \in a.holding : h.balance \in Nat
    /\ Gate.context.threshold \in Nat /\ Gate.context.expires_at_unix_ms \subseteq Nat
    /\ {DEPTH, MaxClock, MaxChallenges} \subseteq Nat /\ TTLs \subseteq Nat
    /\ \A offset \in HolderOffsets :
          /\ offset \in Int /\ offset <= MAX_CLOCK_SKEW_MS
          /\ MaxClock + offset <= U64_MAX

VARIABLES
    clock,       \* the verifier's clock
    leaves,      \* accounts committed so far, oldest first
    committedAt, \* history: when each leaf was committed
    proofs,      \* proof files the holder produced
    challenges,  \* challenge files the verifier retained
    envelopes,   \* presentation files the holder produced
    consumed     \* the verifier's replay cache

vars == <<clock, leaves, committedAt, proofs, challenges, envelopes, consumed>>

\* Readings of a holder's clock, now or at the start of a command that is still
\* running.
IssueTimes == UNION {0 .. clock + offset : offset \in HolderOffsets}

---------------------------------------------------------------------------
(* The sequencer's append-only commitment tree (external).                 *)

\* Digest of the node at level l (0 = leaves), position i, when the first
\* Len(s) leaves are occupied.
node(s) ==
    LET n[l \in 0 .. DEPTH] ==
          [i \in Nat |->
             IF l = 0
             THEN IF i < Len(s) THEN leaf_hash(commitment(s[i + 1])) ELSE EmptyLeaf
             ELSE sha256("Node", <<n[l - 1][2 * i], n[l - 1][2 * i + 1]>>)]
    IN  n

root(s) == node(s)[DEPTH][0]

Sibling(i) == IF i % 2 = 0 THEN i + 1 ELSE i - 1

\* getProofsAndRoot / getProofForCommitment for the leaf at position i.
membership_proof(s, i) ==
    [leaf_index |-> i,
     siblings   |-> [l \in 1 .. DEPTH |-> node(s)[l - 1][Sibling(i \div 2^(l - 1))]]]

---------------------------------------------------------------------------

Init ==
    /\ clock = 0
    /\ leaves = InitialLeaves
    /\ committedAt = [i \in DOMAIN InitialLeaves |-> 0]
    /\ proofs = {}
    /\ challenges = {}
    /\ envelopes = {}
    /\ consumed = {}

Tick ==
    /\ clock < MaxClock
    /\ clock' = clock + 1
    /\ UNCHANGED <<leaves, committedAt, proofs, challenges, envelopes, consumed>>

\* A block commits a new private account state; older commitments stay.
Commit(account) ==
    /\ Len(leaves) < 2^DEPTH
    /\ leaves' = Append(leaves, account)
    /\ committedAt' = Append(committedAt, clock)
    /\ UNCHANGED <<clock, proofs, challenges, envelopes, consumed>>

\* ProverInputFile::validate_membership.
validate_membership(input) ==
    verifies(input.membership_proof, commitment(input.account), input.commitment_root)

\* fetch_sequencer_input when the tree holds s.  A sequencer that does not know
\* getProofsAndRoot is asked getProofForCommitment, which names no root: the root
\* is then computed from the path.  The commitment must be in the tree.
fetch_sequencer_input(s, account, method) ==
    LET found == {i \in DOMAIN s : s[i] = account}
        path == membership_proof(s, (CHOOSE i \in found : TRUE) - 1)
        input == [account          |-> account,
                  membership_proof |-> path,
                  commitment_root  |->
                      IF method = "getProofsAndRoot"
                      THEN root(s) ELSE compute_root(path, commitment(account))]
    IN  IF found = {} THEN Err("MissingMembershipProof")
        ELSE IF ~validate_membership(input) THEN Err("MembershipRootMismatch")
        ELSE Ok(input)

\* The trees the sequencer has had since the start, so what an earlier request
\* of anybody was answered from.
EarlierTrees == {SubSeq(leaves, 1, n) : n \in Len(InitialLeaves) .. Len(leaves)}

\* ProofRequest::witness.
witness(gate, input, key, issued_at) ==
    IF ~validate_gate(gate) THEN Err("InvalidGate")
    ELSE IF ~validate_membership(input) THEN Err("MembershipRootMismatch")
    ELSE Ok([gate_context         |-> gate.context,
             account              |-> input.account,
             membership_proof     |-> input.membership_proof,
             commitment_root      |-> input.commitment_root,
             presenter_public_key |-> key,
             issued_at_unix_ms    |-> issued_at])

prove_request(gate, input, key, issued_at, dev_mode) ==
    LET w == witness(gate, input, key, issued_at)
    IN  IF w.code = "Ok" THEN prove(w.value, dev_mode) ELSE w

\* run_prove looks at RISC0_DEV_MODE before anything else.
StartsProving(dev_mode) ==
    /\ Cardinality(proofs) < MaxProofs
    /\ ensure_real_proving_mode(dev_mode) = "Ok"

\* A failure of any step ends the command, a proof is written to the output file.
WriteProof(result) ==
    /\ result.code = "Ok"
    /\ proofs' = proofs \cup {result.value}
    /\ UNCHANGED <<clock, leaves, committedAt, challenges, envelopes, consumed>>

\* prove --account-snapshot --sequencer-url: the issue time is read when the
\* command starts, the tree when the sequencer answers, which may be later.
ProveLive(gate, account, key, issued_at, dev_mode) ==
    /\ StartsProving(dev_mode)
    /\ \E method \in {"getProofsAndRoot", "getProofForCommitment"} :
         LET input == fetch_sequencer_input(leaves, account, method)
         IN  /\ input.code = "Ok"
             /\ WriteProof(prove_request(gate, input.value, key, issued_at, dev_mode))

\* The input files an offline prover may have: a path of one earlier tree, with
\* the root of that tree or, if files were mixed up, of another.
InputFiles ==
    LET answers == {fetch_sequencer_input(s, a, "getProofsAndRoot") :
                       s \in EarlierTrees, a \in Accounts}
    IN  {[answer.value EXCEPT !.commitment_root = root(t)] :
            answer \in {r \in answers : r.code = "Ok"}, t \in EarlierTrees}

\* prove --input: read_prover_input checks the file before it is used.
ProveInput(gate, input, key, issued_at, dev_mode) ==
    /\ StartsProving(dev_mode)
    /\ validate_membership(input)
    /\ WriteProof(prove_request(gate, input, key, issued_at, dev_mode))

\* sequencer-root: the root the sequencer names for the default account, which
\* is committed in every tree.
fetch_sequencer_commitment_root(s) ==
    LET input == fetch_sequencer_input(s, DefaultAccount, "getProofsAndRoot")
    IN  IF input.code = "Ok" THEN Ok(input.value.commitment_root) ELSE input

\* challenge create: the operator passes the root that sequencer-root printed,
\* now or earlier; the nonce is drawn, and two draws of 32 random bytes never
\* agree.
IssueChallenge(ttl, printed) ==
    /\ Cardinality(challenges) < MaxChallenges
    /\ printed.code = "Ok"
    /\ LET nonce == Cardinality(challenges) + 1
           result == create_challenge(Gate, printed.value, Gate.context.verifier_id,
                                      clock, ttl, nonce)
       IN  /\ result.code = "Ok"
           /\ challenges' = challenges \cup {result.value}
    /\ UNCHANGED <<clock, leaves, committedAt, proofs, envelopes, consumed>>

\* present: sign the challenge and the receipt with the proof's presenter key.
Present(proof, challenge, key) ==
    /\ key \notin InvalidKeys
    /\ LET result == present(proof, challenge, key)
       IN  /\ result.code = "Ok"
           /\ envelopes' = envelopes \cup {result.value}
    /\ UNCHANGED <<clock, leaves, committedAt, proofs, challenges, consumed>>

\* An envelope file as the verifier may receive it: produced by Present, or
\* put together from parts of different files, or with a damaged signature.
Received ==
    envelopes \cup
    {[journal |-> p.journal, receipt |-> q.receipt, challenge |-> c,
      presenter_signature |-> s] :
        p \in proofs, q \in proofs, c \in challenges,
        s \in {e.presenter_signature : e \in envelopes} \cup {MalformedSignature}}

Decision(envelope, expected) ==
    verify(envelope, expected, Gate, Gate.context.verifier_id, clock, consumed)

Allows(envelope, expected) == Decision(envelope, expected).code = "Ok"

\* Mutant: the presenter is consumed instead of the challenge.
VerifySpendsPresenter(envelope, expected) ==
    /\ Allows(envelope, expected)
    /\ consumed' = consumed \cup {envelope.journal.presenter_public_key}
    /\ UNCHANGED <<clock, leaves, committedAt, proofs, challenges, envelopes>>

\* verify with the replay cache the verifier keeps; a denial changes nothing.
Verify(envelope, expected) ==
    /\ consumed' = Decision(envelope, expected).consumed
    /\ UNCHANGED <<clock, leaves, committedAt, proofs, challenges, envelopes>>

Next ==
    \/ Tick
    \/ \E a \in NewAccounts : Commit(a)
    \/ \E g \in {Gate, OtherGate}, a \in Accounts, k \in Keys, t \in IssueTimes,
          d \in DevModeValues : ProveLive(g, a, k, t, d)
    \/ \E i \in InputFiles, g \in {Gate, OtherGate}, k \in Keys, t \in IssueTimes,
          d \in DevModeValues : ProveInput(g, i, k, t, d)
    \/ \E t \in TTLs, s \in EarlierTrees :
          IssueChallenge(t, fetch_sequencer_commitment_root(s))
    \/ \E p \in proofs, c \in challenges, k \in Keys : Present(p, c, k)
    \/ \E e \in Received, c \in challenges : Verify(e, c)

Spec == Init /\ [][Next]_vars

---------------------------------------------------------------------------
(* Properties.                                                             *)

\* Types, and that verify consumes digests of challenges this verifier retained
\* and nothing else (the replay cache cannot be filled by foreign envelopes).
TypeOK ==
    /\ clock \in 0 .. MaxClock
    /\ leaves \in Seq(Accounts) /\ committedAt \in Seq(0 .. MaxClock)
    /\ \A c \in challenges : c.nonce \in 1 .. MaxChallenges
    /\ consumed \subseteq {digest(c) : c \in challenges}

\* The account is of the gate's token and holds at least its threshold.
Qualifies(account) ==
    /\ account.program_owner = Gate.context.token_program_owner
    /\ \E h \in account.holding :
          /\ h.definition_id = Gate.context.token_definition_id
          /\ h.balance >= Gate.context.threshold

\* An ALLOW means that a qualifying account had been committed when the
\* verifier pinned the root, at most MAX_CHALLENGE_TTL_MS before the decision,
\* however the envelope was put together (verify, evaluate, compute_root).
AcceptedBalanceWasCommitted ==
    \A e \in Received, c \in challenges :
      Allows(e, c) =>
        /\ \E i \in DOMAIN leaves :
              /\ Qualifies(leaves[i])
              /\ committedAt[i] <= c.issued_at_unix_ms
        /\ clock - c.issued_at_unix_ms <= MAX_CHALLENGE_TTL_MS

\* An ALLOW names a presenter that itself signed this very challenge with this
\* very receipt: an envelope assembled from parts of other presentations is
\* never accepted (presentation_message, verify_receipt).
AcceptedWasPresented ==
    \A e \in Received, c \in challenges : Allows(e, c) => e \in envelopes

\* Two machines whose clocks differ by no more than the allowed skew never
\* reject an honest presentation for its times: a proof for this gate, presented
\* against a retained challenge and checked before challenge and gate expire and
\* before the proof is MAX_PROOF_AGE_MS old, is allowed if not yet used.
HonestPresentationAllowed ==
    \A e \in envelopes :
      /\ e.journal.context_hash = context_hash(Gate.context)
      /\ clock <= e.challenge.expires_at_unix_ms
      /\ \A t \in Gate.context.expires_at_unix_ms : clock <= t
      /\ clock - e.journal.issued_at_unix_ms <= MAX_PROOF_AGE_MS
      /\ digest(e.challenge) \notin consumed
      => Allows(e, e.challenge)
=============================================================================
