----------------------- MODULE AttestationFlow_proofs -----------------------
(***************************************************************************)
(* What an ALLOW means, proved for trees of any depth, any accounts, gates,*)
(* clocks and files: that the membership proof of an accepted presentation *)
(* can only start at a committed account, that the envelope was presented  *)
(* as it is, and that an honest presentation is never turned away.         *)
(***************************************************************************)
EXTENDS AttestationFlow, Attestation_proofs, FiniteSetTheorems, SequenceTheorems

---------------------------------------------------------------------------
(* The commitment tree.                                                    *)

\* The rows of the tree: a leaf is that of a committed account or empty, and
\* every other node is the hash of its two children.
LEMMA NodeUnfolds ==
    ASSUME NEW s
    PROVE  \A i \in Nat :
             /\ node(s)[0][i] = IF i < Len(s) THEN leaf_hash(commitment(s[i + 1]))
                                ELSE EmptyLeaf
             /\ \A l \in 1 .. DEPTH :
                  node(s)[l][i] =
                    sha256("Node", <<node(s)[l - 1][2 * i], node(s)[l - 1][2 * i + 1]>>)
<1> DEFINE Leaf(i) == IF i < Len(s) THEN leaf_hash(commitment(s[i + 1])) ELSE EmptyLeaf
           Row(l, x) == [i \in Nat |-> IF l = 0 THEN Leaf(i)
                                       ELSE sha256("Node", <<x[2 * i], x[2 * i + 1]>>)]
           N(f, n) == f = [l \in 0 .. n |-> Row(l, f[l - 1])]
           n == CHOOSE f : N(f, DEPTH)
<1>0. DEPTH \in Nat
  BY FlowAssumption
<1>1. node(s) = n
  BY DEF node
<1>2. \A l, x : \A i \in Nat :
         Row(l, x)[i] = IF l = 0 THEN Leaf(i) ELSE sha256("Node", <<x[2 * i], x[2 * i + 1]>>)
  <2> HIDE DEF Leaf
  <2>1. QED
    OBVIOUS
<1>3. \A x, y : Row(0, x) = Row(0, y)
  <2> HIDE DEF Leaf
  <2>1. QED
    OBVIOUS
<1> HIDE DEF Row, Leaf
<1>4. \A k \in 0 .. DEPTH : \E f : N(f, k)
  <2> DEFINE Missing == {k \in 0 .. DEPTH : ~\E f : N(f, k)}
  <2> SUFFICES ASSUME Missing # {} PROVE FALSE
    OBVIOUS
  <2>0. Missing \subseteq Nat
    OBVIOUS
  <2>1. PICK m \in Missing : \A j \in Missing : m <= j
    <3> HIDE DEF Missing
    <3>1. QED
      BY <2>0, LeastIndex
  <2>2. CASE m = 0
    <3> DEFINE g == [l \in 0 .. 0 |-> Row(0, EmptyLeaf)]
    <3>1. N(g, 0)
      <4>1. \A l \in 0 .. 0 : g[l] = Row(l, g[l - 1])
        BY <1>3
      <4>2. QED
        BY <4>1
    <3>2. QED
      BY <2>1, <2>2, <3>1
  <2>3. CASE m # 0
    <3>0. m \in 0 .. DEPTH
      OBVIOUS
    <3>1. m - 1 \in 0 .. DEPTH /\ m - 1 \notin Missing
      <4> HIDE DEF Missing
      <4>1. QED
        BY <1>0, <2>1, <2>3, <3>0
    <3>2. PICK f : N(f, m - 1)
      BY <3>1
    <3> DEFINE g == [l \in 0 .. m |-> IF l < m THEN f[l] ELSE Row(m, f[m - 1])]
    <3>3. \A l \in 0 .. m : g[l] = Row(l, g[l - 1])
      <4> SUFFICES ASSUME NEW l \in 0 .. m PROVE g[l] = Row(l, g[l - 1])
        OBVIOUS
      <4>1. CASE l < m
        <5>1. l \in 0 .. m - 1 /\ g[l] = f[l]
          BY <4>1, <3>0
        <5>2. f[l] = Row(l, f[l - 1])
          BY <5>1, <3>2
        <5>3. l # 0 => g[l - 1] = f[l - 1]
          BY <4>1, <3>0
        <5> HIDE DEF g
        <5>4. QED
          BY <5>1, <5>2, <5>3, <1>3
      <4>2. CASE l = m
        <5>1. g[l] = Row(m, f[m - 1]) /\ g[l - 1] = f[m - 1]
          BY <4>2, <3>0, <2>3
        <5> HIDE DEF g
        <5>2. QED
          BY <5>1, <4>2
      <4>3. QED
        BY <4>1, <4>2, <3>0
    <3>4. N(g, m)
      BY <3>3
    <3>5. QED
      BY <2>1, <3>4
  <2>4. QED
    BY <2>2, <2>3
<1>5. N(n, DEPTH)
  <2>1. \E f : N(f, DEPTH)
    BY <1>0, <1>4
  <2> HIDE DEF N
  <2>2. QED
    BY <2>1
<1>6. \A l \in 0 .. DEPTH : n[l] = Row(l, n[l - 1])
  <2> HIDE DEF n
  <2>1. QED
    BY <1>5
<1> HIDE DEF n, N
<1>7. \A i \in Nat : n[0][i] = Leaf(i)
  <2>1. n[0] = Row(0, n[0 - 1])
    BY <1>0, <1>6
  <2>2. \A i \in Nat : Row(0, n[0 - 1])[i] = Leaf(i)
    BY <1>2
  <2>3. QED
    BY <2>1, <2>2
<1>8. \A i \in Nat, l \in 1 .. DEPTH :
        n[l][i] = sha256("Node", <<n[l - 1][2 * i], n[l - 1][2 * i + 1]>>)
  <2> SUFFICES ASSUME NEW i \in Nat, NEW l \in 1 .. DEPTH
               PROVE  n[l][i] = sha256("Node", <<n[l - 1][2 * i], n[l - 1][2 * i + 1]>>)
    OBVIOUS
  <2>1. n[l] = Row(l, n[l - 1]) /\ l # 0
    BY <1>0, <1>6
  <2>2. Row(l, n[l - 1])[i] = sha256("Node", <<n[l - 1][2 * i], n[l - 1][2 * i + 1]>>)
    BY <1>2, <2>1
  <2>3. QED
    BY <2>1, <2>2
<1>9. QED
  BY <1>1, <1>7, <1>8 DEF Leaf

\* A path of the tree's depth that leads from the commitment of an account to the
\* root of a tree starts at a leaf of that tree which commits the account:
\* nothing else hashes to the root.
LEMMA MembershipSound ==
    ASSUME NEW path, Len(path.siblings) = DEPTH, NEW a \in Accounts, NEW t \in Seq(Accounts),
           verifies(path, commitment(a), root(t))
    PROVE  \E i \in DOMAIN t : t[i] = a
<1>0. DEPTH \in Nat /\ leaf_hash(commitment(a)) # EmptyLeaf
  BY FlowAssumption
<1>1. PICK up :
        /\ compute_root(path, commitment(a)) = up[DEPTH]
        /\ up[0] = leaf_hash(commitment(a))
        /\ \A i \in 1 .. DEPTH :
             \/ up[i] = sha256("Node", <<up[i - 1], path.siblings[i]>>)
             \/ up[i] = sha256("Node", <<path.siblings[i], up[i - 1]>>)
  <2>1. Len(path.siblings) \in Nat
    BY <1>0
  <2>2. PICK f : RootDigests(f, path, commitment(a))
    BY <2>1, ComputeRootUnfolds
  <2>3. QED
    BY <2>2 DEF RootDigests
<1> DEFINE row == node(t)
           Meets(k) == \E j \in Nat : up[DEPTH - k] = row[DEPTH - k][j]
           Off == {k \in 0 .. DEPTH : ~Meets(k)}
<1>2. \A i \in Nat :
        /\ row[0][i] = IF i < Len(t) THEN leaf_hash(commitment(t[i + 1])) ELSE EmptyLeaf
        /\ \A l \in 1 .. DEPTH :
             row[l][i] = sha256("Node", <<row[l - 1][2 * i], row[l - 1][2 * i + 1]>>)
  BY NodeUnfolds
<1>3. up[DEPTH] = row[DEPTH][0]
  BY <1>1 DEF verifies, root
<1> HIDE DEF row
<1>4. Off = {}
  <2> SUFFICES ASSUME Off # {} PROVE FALSE
    OBVIOUS
  <2>1. Off \subseteq Nat
    OBVIOUS
  <2>2. PICK m \in Off : \A j \in Off : m <= j
    <3> HIDE DEF Off
    <3>1. QED
      BY <2>1, LeastIndex
  <2>3. m \in 0 .. DEPTH /\ ~Meets(m)
    OBVIOUS
  <2>4. m # 0
    BY <1>0, <1>3, <2>3
  <2>5. m - 1 \in 0 .. DEPTH /\ m - 1 \notin Off
    <3> HIDE DEF Off
    <3>1. QED
      BY <1>0, <2>2, <2>3, <2>4
  <2> DEFINE l == DEPTH - (m - 1)
  <2>6. l \in 1 .. DEPTH /\ l - 1 = DEPTH - m
    BY <1>0, <2>3, <2>4
  <2>7. PICK j \in Nat : up[l] = row[l][j]
    BY <2>5
  <2> HIDE DEF l
  <2>8. row[l][j] = sha256("Node", <<row[l - 1][2 * j], row[l - 1][2 * j + 1]>>)
    BY <1>2, <2>6
  <2>9. up[l - 1] = row[l - 1][2 * j] \/ up[l - 1] = row[l - 1][2 * j + 1]
    BY <1>1, <2>6, <2>7, <2>8 DEF sha256
  <2>10. 2 * j \in Nat /\ 2 * j + 1 \in Nat
    OBVIOUS
  <2>11. QED
    BY <2>3, <2>6, <2>9, <2>10
<1>5. PICK j \in Nat : up[0] = row[0][j]
  <2>1. Meets(DEPTH)
    <3>1. DEPTH \in 0 .. DEPTH /\ DEPTH \notin Off
      <4>1. DEPTH \in 0 .. DEPTH
        BY <1>0
      <4>2. DEPTH \notin Off
        <5> HIDE DEF Off
        <5>1. QED
          BY <1>4
      <4>3. QED
        BY <4>1, <4>2
    <3> HIDE DEF Meets
    <3>2. QED
      BY <3>1
  <2>2. QED
    BY <1>0, <2>1
<1>6. j < Len(t) /\ leaf_hash(commitment(t[j + 1])) = leaf_hash(commitment(a))
  BY <1>0, <1>1, <1>2, <1>5
<1>7. j + 1 \in DOMAIN t
  BY <1>6
<1>8. QED
  BY <1>6, <1>7 DEF leaf_hash, commitment, sha256

---------------------------------------------------------------------------
(* The inductive invariant.                                                *)

\* The tree and the history of its growth.
Grown ==
    /\ clock \in 0 .. MaxClock
    /\ leaves \in Seq(Accounts) /\ Len(InitialLeaves) <= Len(leaves)
    /\ committedAt \in Seq(0 .. clock) /\ Len(committedAt) = Len(leaves)

\* The journal is the one the circuit returned for an account that qualifies
\* for the gate and a path some tree so far gave out.
Attested(journal) ==
    \E gate \in {Gate, OtherGate}, account \in Accounts, issued_at \in IssueTimes,
       s \in EarlierTrees : \E i \in DOMAIN s :
      /\ journal = new_journal(gate.context, journal.commitment_root,
                               journal.presenter_public_key, issued_at)
      /\ journal.presenter_public_key # ZeroDigest
      /\ check_holding(account, gate.context) = "Ok"
      /\ verifies(membership_proof(s, i - 1), commitment(account), journal.commitment_root)

\* A proof file is the genuine receipt of such a journal.
GenuineProof(proof) ==
    /\ proof = [journal |-> proof.journal,
                receipt |-> [image |-> IMAGE_ID, journal |-> proof.journal]]
    /\ Attested(proof.journal)

\* A challenge pins the root of the tree as it was at some time before.
PinsRoot(c) ==
    \E n \in Len(InitialLeaves) .. Len(leaves), ttl \in TTLs, now \in 0 .. clock,
       nonce \in 1 .. MaxChallenges :
      /\ c = new_challenge(context_hash(Gate.context), root(SubSeq(leaves, 1, n)),
                           Gate.context.verifier_id, nonce, now, now + ttl)
      /\ ttl <= MAX_CHALLENGE_TTL_MS /\ now + ttl <= U64_MAX
      /\ \A i \in 1 .. n : committedAt[i] <= now
      /\ validate_gate(Gate)

\* An envelope of the holder joins one of its proofs to a retained challenge.
Joins(e, proof, c) ==
    /\ e = [journal |-> proof.journal, receipt |-> proof.receipt, challenge |-> c,
            presenter_signature |-> sign(proof.journal.presenter_public_key,
                                         presentation_message(c, proof.receipt))]
    /\ proof.journal.presenter_public_key \notin InvalidKeys
    /\ proof.journal.commitment_root = c.expected_commitment_root

IInv ==
    /\ Grown
    /\ \A p \in proofs : GenuineProof(p)
    /\ IsFiniteSet(challenges) /\ \A c \in challenges : PinsRoot(c)
    /\ \A e \in envelopes : \E p \in proofs, c \in challenges : Joins(e, p, c)
    /\ consumed \subseteq {digest(c) : c \in challenges}

---------------------------------------------------------------------------
(* What the commands of the holder produce.                                *)

\* fetch_sequencer_input, when it succeeds, returns the account it was asked for,
\* a path of the tree and, from getProofsAndRoot, the root of the tree.
LEMMA FetchAnswers ==
    ASSUME NEW s, NEW account, NEW method,
           fetch_sequencer_input(s, account, method).code = "Ok"
    PROVE  LET input == fetch_sequencer_input(s, account, method).value
           IN  /\ input.account = account
               /\ \E i \in DOMAIN s : input.membership_proof = membership_proof(s, i - 1)
               /\ method = "getProofsAndRoot" => input.commitment_root = root(s)
<1> DEFINE found == {i \in DOMAIN s : s[i] = account}
           first == CHOOSE i \in found : TRUE
           path == membership_proof(s, first - 1)
           input == [account          |-> account,
                     membership_proof |-> path,
                     commitment_root  |->
                         IF method = "getProofsAndRoot"
                         THEN root(s) ELSE compute_root(path, commitment(account))]
           answer == fetch_sequencer_input(s, account, method)
<1>1. answer = IF found = {} THEN Err("MissingMembershipProof")
               ELSE IF ~validate_membership(input) THEN Err("MembershipRootMismatch")
               ELSE Ok(input)
  BY DEF fetch_sequencer_input
<1> HIDE DEF answer
<1>2. found # {} /\ answer = Ok(input)
  <2> HIDE DEF found, input
  <2>1. found # {}
    BY <1>1 DEF Err, answer
  <2>2. validate_membership(input)
    BY <1>1, <2>1 DEF Err, answer
  <2>3. QED
    BY <1>1, <2>1, <2>2
<1>3. first \in DOMAIN s
  BY <1>2
<1>4. answer.value = input
  <2> HIDE DEF input
  <2>1. QED
    BY <1>2 DEF Ok
<1> HIDE DEF first, found
<1>5. /\ input.account = account /\ input.membership_proof = membership_proof(s, first - 1)
      /\ method = "getProofsAndRoot" => input.commitment_root = root(s)
  OBVIOUS
<1> HIDE DEF input
<1>6. QED
  BY <1>3, <1>4, <1>5 DEF answer

\* What prove_request writes is a genuine receipt, of the journal of the gate, root,
\* key and time of the request, and of an account that qualifies and is on the path.
LEMMA RequestAttests ==
    ASSUME NEW gate, NEW input, NEW key, NEW t, NEW dev_mode,
           prove_request(gate, input, key, t, dev_mode).code = "Ok"
    PROVE  LET journal == new_journal(gate.context, input.commitment_root, key, t)
           IN  /\ prove_request(gate, input, key, t, dev_mode).value =
                    [journal |-> journal,
                     receipt |-> [image |-> IMAGE_ID, journal |-> journal]]
               /\ key # ZeroDigest
               /\ check_holding(input.account, gate.context) = "Ok"
               /\ verifies(input.membership_proof, commitment(input.account),
                           input.commitment_root)
<1> DEFINE w == witness(gate, input, key, t)
           request == [gate_context         |-> gate.context,
                       account              |-> input.account,
                       membership_proof     |-> input.membership_proof,
                       commitment_root      |-> input.commitment_root,
                       presenter_public_key |-> key,
                       issued_at_unix_ms    |-> t]
           result == prove_request(gate, input, key, t, dev_mode)
<1>1. result = IF w.code = "Ok" THEN prove(w.value, dev_mode) ELSE w
  BY DEF prove_request
<1>2. w = IF ~validate_gate(gate) THEN Err("InvalidGate")
          ELSE IF ~validate_membership(input) THEN Err("MembershipRootMismatch")
          ELSE Ok(request)
  BY DEF witness
<1> HIDE DEF w, request
<1>3. w.code = "Ok" /\ result = prove(w.value, dev_mode)
  BY <1>1
<1>4. w.value = request
  BY <1>2, <1>3 DEF Err, Ok
<1>5. prove(request, dev_mode).code = "Ok"
  BY <1>3, <1>4
<1>6. /\ evaluate(request).code = "Ok"
      /\ result.value = [journal |-> evaluate(request).value,
                         receipt |-> [image |-> IMAGE_ID, journal |-> evaluate(request).value]]
  BY <1>3, <1>4, <1>5, ProveIsGenuine
<1>7. /\ evaluate(request).value =
           new_journal(request.gate_context, request.commitment_root,
                       request.presenter_public_key, request.issued_at_unix_ms)
      /\ request.presenter_public_key # ZeroDigest
      /\ check_holding(request.account, request.gate_context) = "Ok"
      /\ verifies(request.membership_proof, commitment(request.account),
                  request.commitment_root)
  BY <1>6, EvaluateAttests
<1>8. /\ request.gate_context = gate.context /\ request.account = input.account
      /\ request.membership_proof = input.membership_proof
      /\ request.commitment_root = input.commitment_root
      /\ request.presenter_public_key = key /\ request.issued_at_unix_ms = t
  BY DEF request
<1>9. QED
  BY <1>6, <1>7, <1>8

---------------------------------------------------------------------------
(* Growth keeps what was known.                                            *)

\* A later block leaves every earlier tree what it was.
LEMMA TreesRemain ==
    ASSUME Grown, NEW a \in Accounts, leaves' = Append(leaves, a)
    PROVE  /\ EarlierTrees \subseteq EarlierTrees'
           /\ Len(leaves') = Len(leaves) + 1
           /\ \A n \in 0 .. Len(leaves) : SubSeq(leaves', 1, n) = SubSeq(leaves, 1, n)
<1>0. leaves \in Seq(Accounts) /\ Len(leaves) \in Nat /\ Len(InitialLeaves) \in Nat
  BY FlowAssumption DEF Grown
<1>1. Len(leaves') = Len(leaves) + 1
  BY <1>0
<1>2. \A n \in 0 .. Len(leaves) : SubSeq(leaves', 1, n) = SubSeq(leaves, 1, n)
  <2> SUFFICES ASSUME NEW n \in 0 .. Len(leaves)
               PROVE  SubSeq(Append(leaves, a), 1, n) = SubSeq(leaves, 1, n)
    OBVIOUS
  <2>1. QED
    BY <1>0
<1>3. EarlierTrees \subseteq EarlierTrees'
  <2> SUFFICES ASSUME NEW n \in Len(InitialLeaves) .. Len(leaves)
               PROVE  SubSeq(leaves, 1, n) \in EarlierTrees'
    BY DEF EarlierTrees
  <2>1. n \in 0 .. Len(leaves) /\ n \in Len(InitialLeaves) .. Len(leaves')
    BY <1>0, <1>1
  <2>2. SubSeq(leaves, 1, n) = SubSeq(leaves', 1, n)
    BY <1>2, <2>1
  <2>3. QED
    BY <2>1, <2>2 DEF EarlierTrees
<1>4. QED
  BY <1>1, <1>2, <1>3

\* What a journal attests stays attested while trees and issue times are added.
LEMMA AttestedStays ==
    ASSUME IssueTimes \subseteq IssueTimes', EarlierTrees \subseteq EarlierTrees',
           NEW p, GenuineProof(p)
    PROVE  GenuineProof(p)'
<1>1. PICK gate \in {Gate, OtherGate}, account \in Accounts, t \in IssueTimes,
           s \in EarlierTrees : \E i \in DOMAIN s :
             /\ p.journal = new_journal(gate.context, p.journal.commitment_root,
                                        p.journal.presenter_public_key, t)
             /\ p.journal.presenter_public_key # ZeroDigest
             /\ check_holding(account, gate.context) = "Ok"
             /\ verifies(membership_proof(s, i - 1), commitment(account),
                         p.journal.commitment_root)
  BY DEF GenuineProof, Attested
<1>2. t \in IssueTimes' /\ s \in EarlierTrees'
  OBVIOUS
<1>3. Attested(p.journal)'
  BY <1>1, <1>2 DEF Attested
<1>4. QED
  BY <1>3 DEF GenuineProof

\* The times a holder may have read only grow.
LEMMA TimesGrow ==
    ASSUME Grown, clock' = clock \/ clock' = clock + 1
    PROVE  IssueTimes \subseteq IssueTimes'
<1> SUFFICES ASSUME NEW offset \in HolderOffsets, NEW t \in 0 .. clock + offset
             PROVE  t \in IssueTimes'
  BY DEF IssueTimes
<1>1. offset \in Int /\ clock \in Int
  BY FlowAssumption DEF Grown
<1>2. t \in 0 .. clock' + offset
  BY <1>1
<1>3. QED
  BY <1>2 DEF IssueTimes

---------------------------------------------------------------------------
(* The invariant is inductive.                                             *)

\* An empty flow over the initial tree satisfies the invariant.
LEMMA InitHolds == Init => IInv
<1> SUFFICES ASSUME Init PROVE IInv
  OBVIOUS
<1>1. Grown
  <2>1. InitialLeaves \in Seq(Accounts) /\ MaxClock \in Nat
    BY FlowAssumption
  <2>2. committedAt \in Seq(0 .. clock) /\ Len(committedAt) = Len(leaves)
    BY <2>1 DEF Init
  <2>3. QED
    BY <2>1, <2>2 DEF Init, Grown
<1>2. IsFiniteSet(challenges)
  BY FS_EmptySet DEF Init
<1>3. QED
  BY <1>1, <1>2 DEF Init, IInv

\* Steps that leave the tree and the clock alone keep proofs and challenges good.
LEMMA QuietKeeps ==
    ASSUME Grown, UNCHANGED <<clock, leaves, committedAt>>
    PROVE  /\ Grown'
           /\ \A p : GenuineProof(p) => GenuineProof(p)'
           /\ \A c : PinsRoot(c) => PinsRoot(c)'
<1>1. Grown'
  BY DEF Grown
<1>2. IssueTimes \subseteq IssueTimes' /\ EarlierTrees \subseteq EarlierTrees'
  BY DEF IssueTimes, EarlierTrees
<1>3. \A p : GenuineProof(p) => GenuineProof(p)'
  BY <1>2, AttestedStays
<1>4. \A c : PinsRoot(c) => PinsRoot(c)'
  BY DEF PinsRoot
<1>5. QED
  BY <1>1, <1>3, <1>4

\* Time passes: every issue time and every root pinned stay in the past.
LEMMA TickKeeps == IInv /\ Tick => IInv'
<1> SUFFICES ASSUME IInv, Tick PROVE IInv'
  OBVIOUS
<1> USE DEF IInv, Tick
<1>0. clock \in Nat /\ clock + 1 \in 0 .. MaxClock /\ MaxClock \in Nat
  BY FlowAssumption DEF Grown
<1>1. Grown'
  <2>1. committedAt \in Seq(0 .. clock + 1)
    BY <1>0 DEF Grown
  <2>2. QED
    BY <1>0, <2>1 DEF Grown
<1>2. IssueTimes \subseteq IssueTimes' /\ EarlierTrees \subseteq EarlierTrees'
  BY TimesGrow DEF EarlierTrees
<1>3. \A p \in proofs' : GenuineProof(p)'
  BY <1>2, AttestedStays
<1>4. \A c \in challenges' : PinsRoot(c)'
  <2> SUFFICES ASSUME NEW c \in challenges PROVE PinsRoot(c)'
    OBVIOUS
  <2>1. \A now \in 0 .. clock : now \in 0 .. clock + 1
    BY <1>0
  <2>2. PinsRoot(c)
    OBVIOUS
  <2>3. QED
    BY <2>1, <2>2 DEF PinsRoot
<1>5. QED
  BY <1>1, <1>3, <1>4

\* A block adds an account: earlier trees, their roots and the times of their
\* leaves stay what they were.
LEMMA CommitKeeps == ASSUME NEW a \in NewAccounts PROVE IInv /\ Commit(a) => IInv'
<1> SUFFICES ASSUME IInv, Commit(a) PROVE IInv'
  OBVIOUS
<1> USE DEF IInv, Commit
<1>0. /\ a \in Accounts /\ Len(leaves) \in Nat /\ Len(InitialLeaves) \in Nat
      /\ leaves \in Seq(Accounts) /\ committedAt \in Seq(0 .. clock) /\ clock \in Nat
      /\ Len(committedAt) = Len(leaves) /\ Len(InitialLeaves) <= Len(leaves)
  BY FlowAssumption DEF Grown
<1>1. /\ EarlierTrees \subseteq EarlierTrees' /\ Len(leaves') = Len(leaves) + 1
      /\ \A n \in 0 .. Len(leaves) : SubSeq(leaves', 1, n) = SubSeq(leaves, 1, n)
  BY <1>0, TreesRemain
<1>2. Grown'
  <2>1. leaves' \in Seq(Accounts)
    BY <1>0
  <2>2. committedAt' \in Seq(0 .. clock) /\ Len(committedAt') = Len(committedAt) + 1
    BY <1>0
  <2>3. QED
    BY <1>0, <1>1, <2>1, <2>2 DEF Grown
<1>3. IssueTimes \subseteq IssueTimes'
  BY DEF IssueTimes
<1>4. \A p \in proofs' : GenuineProof(p)'
  BY <1>1, <1>3, AttestedStays
<1>5. \A c \in challenges' : PinsRoot(c)'
  <2> SUFFICES ASSUME NEW c \in challenges PROVE PinsRoot(c)'
    OBVIOUS
  <2>1. PICK n \in Len(InitialLeaves) .. Len(leaves), ttl \in TTLs, now \in 0 .. clock,
             nonce \in 1 .. MaxChallenges :
          /\ c = new_challenge(context_hash(Gate.context), root(SubSeq(leaves, 1, n)),
                               Gate.context.verifier_id, nonce, now, now + ttl)
          /\ ttl <= MAX_CHALLENGE_TTL_MS /\ now + ttl <= U64_MAX
          /\ \A i \in 1 .. n : committedAt[i] <= now
          /\ validate_gate(Gate)
    BY DEF PinsRoot
  <2>2. /\ n \in Len(InitialLeaves) .. Len(leaves')
        /\ SubSeq(leaves', 1, n) = SubSeq(leaves, 1, n)
    BY <1>0, <1>1
  <2>3. \A i \in 1 .. n : committedAt'[i] = committedAt[i]
    BY <1>0
  <2>4. QED
    BY <2>1, <2>2, <2>3 DEF PinsRoot
<1>6. QED
  BY <1>2, <1>4, <1>5

\* A proof that prove writes from a path of an earlier tree is a good one.
LEMMA WriteKeeps ==
    ASSUME NEW gate \in {Gate, OtherGate}, NEW account \in Accounts, NEW key,
           NEW t \in IssueTimes, NEW dev_mode, NEW input, input.account = account,
           NEW s \in EarlierTrees, NEW i \in DOMAIN s,
           input.membership_proof = membership_proof(s, i - 1),
           IInv, WriteProof(prove_request(gate, input, key, t, dev_mode))
    PROVE  IInv'
<1> DEFINE result == prove_request(gate, input, key, t, dev_mode)
           p == result.value
           journal == new_journal(gate.context, input.commitment_root, key, t)
<1>1. /\ result.code = "Ok" /\ proofs' = proofs \cup {p}
      /\ UNCHANGED <<clock, leaves, committedAt, challenges, envelopes, consumed>>
  BY DEF WriteProof
<1>2. /\ p = [journal |-> journal, receipt |-> [image |-> IMAGE_ID, journal |-> journal]]
      /\ key # ZeroDigest
      /\ check_holding(account, gate.context) = "Ok"
      /\ verifies(membership_proof(s, i - 1), commitment(account), input.commitment_root)
  BY <1>1, RequestAttests
<1> HIDE DEF p, result
<1>3. GenuineProof(p)
  <2>1. /\ journal.commitment_root = input.commitment_root
        /\ journal.presenter_public_key = key
    BY DEF new_journal
  <2>2. journal = new_journal(gate.context, journal.commitment_root,
                              journal.presenter_public_key, t)
    BY <2>1
  <2> HIDE DEF journal
  <2>3. Attested(journal)
    BY <1>2, <2>1, <2>2 DEF Attested
  <2>4. p.journal = journal
    BY <1>2
  <2>5. QED
    BY <1>2, <2>3, <2>4 DEF GenuineProof
<1>4. /\ Grown' /\ \A q : GenuineProof(q) => GenuineProof(q)'
      /\ \A c : PinsRoot(c) => PinsRoot(c)'
  BY <1>1, QuietKeeps DEF IInv
<1>5. \A q \in proofs' : GenuineProof(q)'
  BY <1>1, <1>3, <1>4 DEF IInv
<1>6. \A c \in challenges' : PinsRoot(c)'
  BY <1>1, <1>4 DEF IInv
<1>7. QED
  BY <1>1, <1>4, <1>5, <1>6 DEF IInv

\* The tree as it stands is one of those the sequencer has had.
LEMMA CurrentTree == Grown => leaves \in EarlierTrees
<1> SUFFICES ASSUME Grown PROVE leaves \in EarlierTrees
  OBVIOUS
<1>1. /\ leaves \in Seq(Accounts) /\ Len(leaves) \in Nat /\ Len(InitialLeaves) \in Nat
      /\ Len(InitialLeaves) <= Len(leaves)
  BY FlowAssumption DEF Grown
<1>2. SubSeq(leaves, 1, Len(leaves)) = leaves
  BY <1>1
<1>3. Len(leaves) \in Len(InitialLeaves) .. Len(leaves)
  BY <1>1
<1>4. QED
  BY <1>2, <1>3 DEF EarlierTrees

\* prove against the sequencer uses a path of the tree as it stands.
LEMMA ProveLiveKeeps ==
    ASSUME NEW gate \in {Gate, OtherGate}, NEW account \in Accounts, NEW key,
           NEW t \in IssueTimes, NEW dev_mode,
           IInv, ProveLive(gate, account, key, t, dev_mode)
    PROVE  IInv'
<1>1. PICK method :
        /\ fetch_sequencer_input(leaves, account, method).code = "Ok"
        /\ WriteProof(prove_request(gate, fetch_sequencer_input(leaves, account, method).value,
                                    key, t, dev_mode))
  BY DEF ProveLive
<1> DEFINE input == fetch_sequencer_input(leaves, account, method).value
<1>2. /\ input.account = account
      /\ \E i \in DOMAIN leaves : input.membership_proof = membership_proof(leaves, i - 1)
  BY <1>1, FetchAnswers
<1>3. WriteProof(prove_request(gate, input, key, t, dev_mode))
  BY <1>1
<1>4. leaves \in EarlierTrees
  BY CurrentTree DEF IInv
<1> HIDE DEF input
<1>5. QED
  BY <1>2, <1>3, <1>4, WriteKeeps

\* prove from an input file uses a path of an earlier tree, even if the root in the
\* file is that of another.
LEMMA ProveInputKeeps ==
    ASSUME NEW input \in InputFiles, NEW gate \in {Gate, OtherGate}, NEW key,
           NEW t \in IssueTimes, NEW dev_mode,
           IInv, ProveInput(gate, input, key, t, dev_mode)
    PROVE  IInv'
<1>1. PICK s \in EarlierTrees, a \in Accounts, other \in EarlierTrees :
        /\ fetch_sequencer_input(s, a, "getProofsAndRoot").code = "Ok"
        /\ input = [fetch_sequencer_input(s, a, "getProofsAndRoot").value
                      EXCEPT !.commitment_root = root(other)]
  BY DEF InputFiles
<1> DEFINE fetched == fetch_sequencer_input(s, a, "getProofsAndRoot").value
<1>2. /\ fetched.account = a
      /\ \E i \in DOMAIN s : fetched.membership_proof = membership_proof(s, i - 1)
  BY <1>1, FetchAnswers
<1>3. input = [fetched EXCEPT !.commitment_root = root(other)]
  BY <1>1
<1> HIDE DEF fetched
<1>4. input.account = fetched.account /\ input.membership_proof = fetched.membership_proof
  BY <1>3
<1>5. WriteProof(prove_request(gate, input, key, t, dev_mode))
  BY DEF ProveInput
<1>6. QED
  BY <1>2, <1>4, <1>5, WriteKeeps

\* challenge create pins the root that sequencer-root printed, of a tree all of
\* whose leaves were committed by now.
LEMMA IssueKeeps ==
    ASSUME NEW ttl \in TTLs, NEW s \in EarlierTrees,
           IInv, IssueChallenge(ttl, fetch_sequencer_commitment_root(s))
    PROVE  IInv'
<1> DEFINE fetched == fetch_sequencer_input(s, DefaultAccount, "getProofsAndRoot")
           printed == fetch_sequencer_commitment_root(s)
           nonce == Cardinality(challenges) + 1
           result == create_challenge(Gate, printed.value, Gate.context.verifier_id,
                                      clock, ttl, nonce)
<1>1. /\ Cardinality(challenges) < MaxChallenges /\ printed.code = "Ok"
      /\ result.code = "Ok" /\ challenges' = challenges \cup {result.value}
      /\ UNCHANGED <<clock, leaves, committedAt, proofs, envelopes, consumed>>
  BY DEF IssueChallenge
<1>2. printed.value = root(s)
  <2>1. printed = IF fetched.code = "Ok" THEN Ok(fetched.value.commitment_root) ELSE fetched
    BY DEF fetch_sequencer_commitment_root
  <2> HIDE DEF printed, fetched
  <2>2. fetched.code = "Ok"
    BY <1>1, <2>1
  <2>3. fetched.value.commitment_root = root(s)
    BY <2>2, FetchAnswers DEF fetched
  <2>4. QED
    BY <2>1, <2>2, <2>3 DEF Ok
<1> HIDE DEF printed, fetched
<1>3. /\ result.value = new_challenge(context_hash(Gate.context), root(s),
                          Gate.context.verifier_id, nonce, clock, clock + ttl)
      /\ validate_gate(Gate)
      /\ ~(ttl > MAX_CHALLENGE_TTL_MS) /\ ~(clock + ttl > U64_MAX)
  BY <1>1, <1>2, CreateIssues
<1> HIDE DEF result
<1>4. PICK n \in Len(InitialLeaves) .. Len(leaves) : s = SubSeq(leaves, 1, n)
  BY DEF EarlierTrees
<1>5. nonce \in 1 .. MaxChallenges
  <2>1. Cardinality(challenges) \in Nat
    BY FS_CardinalityType DEF IInv
  <2>2. QED
    BY <1>1, <2>1, FlowAssumption
<1>6. PinsRoot(result.value)
  <2>0. /\ clock \in Nat /\ ttl \in Nat /\ Len(InitialLeaves) \in Nat /\ Len(leaves) \in Nat
        /\ committedAt \in Seq(0 .. clock) /\ Len(committedAt) = Len(leaves)
    BY FlowAssumption DEF IInv, Grown
  <2>1. ttl <= MAX_CHALLENGE_TTL_MS /\ clock + ttl <= U64_MAX
    BY <1>3, <2>0, TimeAssumption
  <2>2. \A i \in 1 .. n : committedAt[i] <= clock
    BY <2>0
  <2>3. clock \in 0 .. clock
    BY <2>0
  <2> HIDE DEF nonce
  <2>4. QED
    BY <1>3, <1>4, <1>5, <2>1, <2>2, <2>3 DEF PinsRoot
<1> HIDE DEF nonce
<1>7. IsFiniteSet(challenges')
  BY <1>1, FS_AddElement DEF IInv
<1>8. /\ Grown' /\ \A q : GenuineProof(q) => GenuineProof(q)'
      /\ \A c : PinsRoot(c) => PinsRoot(c)'
  BY <1>1, QuietKeeps DEF IInv
<1>9. \A c \in challenges' : PinsRoot(c)'
  BY <1>1, <1>6, <1>8 DEF IInv
<1>10. \A q \in proofs' : GenuineProof(q)'
  BY <1>1, <1>8 DEF IInv
<1>11. /\ \A e \in envelopes' : \E p \in proofs', c \in challenges' : Joins(e, p, c)
       /\ consumed' \subseteq {digest(c) : c \in challenges'}
  BY <1>1 DEF IInv
<1>12. QED
  BY <1>7, <1>8, <1>9, <1>10, <1>11 DEF IInv

\* present joins one of the holder's proofs to a challenge with the proof's key.
LEMMA PresentKeeps ==
    ASSUME NEW p \in proofs, NEW c \in challenges, NEW key, IInv, Present(p, c, key)
    PROVE  IInv'
<1> DEFINE result == present(p, c, key)
           message == presentation_message(c, p.receipt)
<1>1. /\ key \notin InvalidKeys /\ result.code = "Ok"
      /\ envelopes' = envelopes \cup {result.value}
      /\ UNCHANGED <<clock, leaves, committedAt, proofs, challenges, consumed>>
  BY DEF Present
<1>2. /\ p.journal.presenter_public_key = key
      /\ p.journal.commitment_root = c.expected_commitment_root
  BY <1>1, PresentAnswers
<1>3. result.value = [journal |-> p.journal, receipt |-> p.receipt, challenge |-> c,
                      presenter_signature |-> sign(key, message)]
  BY <1>1, PresentMakes
<1> HIDE DEF result, message
<1>4. Joins(result.value, p, c)
  BY <1>1, <1>2, <1>3 DEF Joins, message
<1>5. /\ Grown' /\ \A q : GenuineProof(q) => GenuineProof(q)'
      /\ \A x : PinsRoot(x) => PinsRoot(x)'
  BY <1>1, QuietKeeps DEF IInv
<1>6. \A e \in envelopes' : \E q \in proofs', x \in challenges' : Joins(e, q, x)
  BY <1>1, <1>4 DEF IInv
<1>7. (\A x \in challenges' : PinsRoot(x)') /\ (\A q \in proofs' : GenuineProof(q)')
  BY <1>1, <1>5 DEF IInv
<1>8. QED
  BY <1>1, <1>5, <1>6, <1>7 DEF IInv

\* verify consumes nothing but the retained challenge it accepted an answer to.
LEMMA VerifyKeeps ==
    ASSUME NEW e, NEW c \in challenges, IInv, Verify(e, c)
    PROVE  IInv'
<1> DEFINE answer == Decision(e, c)
<1>1. /\ consumed' = answer.consumed
      /\ UNCHANGED <<clock, leaves, committedAt, proofs, challenges, envelopes>>
  BY DEF Verify
<1>2. IF answer.code = "Ok"
      THEN /\ validate_claims_and_signature(e, c, Gate, Gate.context.verifier_id, clock) = "Ok"
           /\ answer.consumed = consumed \cup {digest(e.challenge)}
      ELSE answer.consumed = consumed
  BY VerifyConsumes DEF Decision
<1>3. answer.code = "Ok" => e.challenge = c
  BY <1>2, ClaimsHold
<1> HIDE DEF answer
<1>4. consumed' \subseteq {digest(x) : x \in challenges}
  BY <1>1, <1>2, <1>3 DEF IInv
<1>5. /\ Grown' /\ \A q : GenuineProof(q) => GenuineProof(q)'
      /\ \A x : PinsRoot(x) => PinsRoot(x)'
  BY <1>1, QuietKeeps DEF IInv
<1>6. (\A x \in challenges' : PinsRoot(x)') /\ (\A q \in proofs' : GenuineProof(q)')
  BY <1>1, <1>5 DEF IInv
<1>7. QED
  BY <1>1, <1>4, <1>5, <1>6 DEF IInv

\* No step of holder, verifier, sequencer or clock breaks the invariant.
LEMMA NextHolds == IInv /\ [Next]_vars => IInv'
<1> SUFFICES ASSUME IInv, [Next]_vars PROVE IInv'
  OBVIOUS
<1>1. CASE Tick
  BY <1>1, TickKeeps
<1>2. ASSUME NEW a \in NewAccounts, Commit(a) PROVE IInv'
  BY <1>2, CommitKeeps
<1>3. ASSUME NEW g \in {Gate, OtherGate}, NEW a \in Accounts, NEW k \in Keys,
             NEW t \in IssueTimes, NEW d \in DevModeValues, ProveLive(g, a, k, t, d)
      PROVE  IInv'
  BY <1>3, ProveLiveKeeps
<1>4. ASSUME NEW i \in InputFiles, NEW g \in {Gate, OtherGate}, NEW k \in Keys,
             NEW t \in IssueTimes, NEW d \in DevModeValues, ProveInput(g, i, k, t, d)
      PROVE  IInv'
  BY <1>4, ProveInputKeeps
<1>5. ASSUME NEW t \in TTLs, NEW s \in EarlierTrees,
             IssueChallenge(t, fetch_sequencer_commitment_root(s))
      PROVE  IInv'
  BY <1>5, IssueKeeps
<1>6. ASSUME NEW p \in proofs, NEW c \in challenges, NEW k \in Keys, Present(p, c, k)
      PROVE  IInv'
  BY <1>6, PresentKeeps
<1>7. ASSUME NEW e \in Received, NEW c \in challenges, Verify(e, c) PROVE IInv'
  BY <1>7, VerifyKeeps
<1>8. CASE UNCHANGED vars
  <2>1. UNCHANGED <<clock, leaves, committedAt, proofs, challenges, envelopes, consumed>>
    BY <1>8 DEF vars
  <2>2. /\ Grown' /\ \A q : GenuineProof(q) => GenuineProof(q)'
        /\ \A x : PinsRoot(x) => PinsRoot(x)'
    BY <2>1, QuietKeeps DEF IInv
  <2>3. QED
    BY <2>1, <2>2 DEF IInv
<1>9. QED
  BY <1>1, <1>2, <1>3, <1>4, <1>5, <1>6, <1>7, <1>8 DEF Next

\* Everywhere, however the commands of holder and verifier, blocks and clock
\* interleave: proofs are genuine and about committed accounts, challenges pin
\* roots of earlier trees, and envelopes join one proof to one challenge.
THEOREM Inductive == Spec => []IInv
BY InitHolds, NextHolds, PTL DEF Spec

\* Types; verify consumes digests of retained challenges only.
THEOREM TypeCorrect == Spec => []TypeOK
<1>1. IInv => TypeOK
  <2> SUFFICES ASSUME IInv PROVE TypeOK
    OBVIOUS
  <2>1. \A c \in challenges : c.nonce \in 1 .. MaxChallenges
    BY DEF IInv, PinsRoot, new_challenge
  <2>2. committedAt \in Seq(0 .. MaxClock)
    BY FlowAssumption DEF IInv, Grown
  <2>3. QED
    BY <2>1, <2>2 DEF IInv, Grown, TypeOK
<1>2. QED
  BY Inductive, <1>1, PTL

---------------------------------------------------------------------------
(* What an ALLOW means.                                                    *)

\* A signature says which key, challenge and receipt it is over.
LEMMA SignatureBinds ==
    ASSUME NEW k1, NEW k2, NEW c1, NEW c2, NEW r1, NEW r2,
           sign(k1, presentation_message(c1, r1)) = sign(k2, presentation_message(c2, r2))
    PROVE  k1 = k2 /\ c1 = c2 /\ r1 = r2
<1>1. k1 = k2 /\ presentation_message(c1, r1) = presentation_message(c2, r2)
  BY DEF sign
<1>2. <<c1, sha256("Receipt", r1)>> = <<c2, sha256("Receipt", r2)>>
  BY <1>1 DEF presentation_message, sha256
<1>3. c1 = c2 /\ sha256("Receipt", r1) = sha256("Receipt", r2)
  BY <1>2
<1>4. QED
  BY <1>1, <1>3 DEF sha256

\* An accepted envelope is one the holder made, whatever files it was put
\* together from.
LEMMA AcceptedIsWhole ==
    ASSUME IInv, NEW e \in Received, NEW c \in challenges, Allows(e, c)
    PROVE  e \in envelopes
<1>1. /\ validate_claims_and_signature(e, c, Gate, Gate.context.verifier_id, clock) = "Ok"
      /\ verify_receipt(e)
  BY VerifyConsumes DEF Allows, Decision
<1>2. /\ e.challenge = c
      /\ e.presenter_signature = sign(e.journal.presenter_public_key,
                                      presentation_message(c, e.receipt))
  BY <1>1, ClaimsHold
<1>3. CASE e \notin envelopes
  <2>1. PICK p \in proofs, q \in proofs, x \in challenges,
             sig \in {y.presenter_signature : y \in envelopes} \cup {MalformedSignature} :
          e = [journal |-> p.journal, receipt |-> q.receipt, challenge |-> x,
               presenter_signature |-> sig]
    BY <1>3 DEF Received
  <2>2. x = c /\ e.journal = p.journal /\ e.receipt = q.receipt /\ e.presenter_signature = sig
    BY <1>2, <2>1
  <2>3. p.journal.presenter_public_key # ZeroDigest
    BY DEF IInv, GenuineProof, Attested
  <2>4. sig # MalformedSignature
    BY <1>2, <2>2, <2>3 DEF MalformedSignature, sign
  <2>5. PICK y \in envelopes : sig = y.presenter_signature
    BY <2>4
  <2>6. PICK r \in proofs, z \in challenges : Joins(y, r, z)
    BY DEF IInv
  <2>7. /\ y = [journal |-> r.journal, receipt |-> r.receipt, challenge |-> z,
                presenter_signature |-> sig]
        /\ sig = sign(r.journal.presenter_public_key, presentation_message(z, r.receipt))
    BY <2>5, <2>6 DEF Joins
  <2>8. z = c /\ r.receipt = q.receipt
    BY <1>2, <2>2, <2>7, SignatureBinds
  <2>9. r.receipt.journal = r.journal
    BY DEF IInv, GenuineProof
  <2>10. q.receipt.journal = p.journal
    BY <1>1, <2>2 DEF verify_receipt
  <2>11. r.journal = p.journal
    BY <2>8, <2>9, <2>10
  <2>12. e = y
    BY <2>1, <2>2, <2>7, <2>8, <2>11
  <2>13. QED
    BY <1>3, <2>12
<1>4. QED
  BY <1>3

\* An ALLOW names a presenter that signed this challenge with this receipt:
\* an envelope put together from parts of others is never accepted.
THEOREM Presented == Spec => []AcceptedWasPresented
<1>1. IInv => AcceptedWasPresented
  BY AcceptedIsWhole DEF AcceptedWasPresented
<1>2. QED
  BY Inductive, <1>1, PTL

\* The paths the sequencer gives out have one sibling for each level.
LEMMA PathDepth ==
    ASSUME NEW s, NEW i PROVE Len(membership_proof(s, i).siblings) = DEPTH
<1>1. DEPTH \in Nat
  BY FlowAssumption
<1> DEFINE siblings == [l \in 1 .. DEPTH |-> node(s)[l - 1][Sibling(i \div 2^(l - 1))]]
<1>2. membership_proof(s, i).siblings = siblings
  BY DEF membership_proof
<1>3. DOMAIN siblings = 1 .. DEPTH
  OBVIOUS
<1> DEFINE T == {siblings[l] : l \in 1 .. DEPTH}
<1>4. siblings \in [1 .. DEPTH -> T]
  <2>1. siblings = [l \in 1 .. DEPTH |-> siblings[l]]
    OBVIOUS
  <2> HIDE DEF siblings
  <2>2. QED
    BY <2>1
<1> HIDE DEF siblings, T
<1>5. siblings \in Seq(T)
  BY <1>1, <1>4
<1>6. Len(siblings) = DEPTH
  BY <1>1, <1>3, <1>5
<1>7. QED
  BY <1>2, <1>6

\* Two gate contexts with the same hash are the same.
LEMMA ContextHashBinds ==
    ASSUME NEW c1, NEW c2, context_hash(c1) = context_hash(c2) PROVE c1 = c2
BY DEF context_hash, sha256

\* What a holding that passed check_holding for the gate's context is.
LEMMA HoldingIsEnough ==
    ASSUME NEW account \in Accounts, check_holding(account, Gate.context) = "Ok"
    PROVE  Qualifies(account)
<1>1. /\ account.program_owner = Gate.context.token_program_owner
      /\ account.holding # None
      /\ \A h \in account.holding :
           /\ h.definition_id = Gate.context.token_definition_id
           /\ ~(h.balance < Gate.context.threshold)
  BY HoldingQualifies
<1>2. PICK h \in account.holding : TRUE
  BY <1>1 DEF None
<1>3. h.balance \in Nat /\ Gate.context.threshold \in Nat
  BY FlowAssumption
<1>4. h.balance >= Gate.context.threshold
  BY <1>1, <1>3
<1>5. QED
  BY <1>1, <1>2, <1>4 DEF Qualifies

\* An ALLOW means that a qualifying account was committed when the verifier
\* pinned the root, at most MAX_CHALLENGE_TTL_MS before the decision.
THEOREM Committed == Spec => []AcceptedBalanceWasCommitted
<1>1. ASSUME IInv, NEW e \in Received, NEW c \in challenges, Allows(e, c)
      PROVE  /\ \E i \in DOMAIN leaves :
                   Qualifies(leaves[i]) /\ committedAt[i] <= c.issued_at_unix_ms
             /\ clock - c.issued_at_unix_ms <= MAX_CHALLENGE_TTL_MS
  <2>1. validate_claims_and_signature(e, c, Gate, Gate.context.verifier_id, clock) = "Ok"
    BY <1>1, VerifyConsumes DEF Allows, Decision
  <2>2. /\ e.challenge = c /\ ~challenge_is_expired(c, clock)
        /\ e.journal.context_hash = context_hash(Gate.context)
        /\ e.journal.commitment_root = c.expected_commitment_root
    BY <2>1, ClaimsHold
  <2>3. PICK n \in Len(InitialLeaves) .. Len(leaves), ttl \in TTLs, now \in 0 .. clock,
             nonce \in 1 .. MaxChallenges :
          /\ c = new_challenge(context_hash(Gate.context), root(SubSeq(leaves, 1, n)),
                               Gate.context.verifier_id, nonce, now, now + ttl)
          /\ ttl <= MAX_CHALLENGE_TTL_MS /\ now + ttl <= U64_MAX
          /\ \A i \in 1 .. n : committedAt[i] <= now
    BY <1>1 DEF IInv, PinsRoot
  <2>4. /\ c.expected_commitment_root = root(SubSeq(leaves, 1, n))
        /\ c.issued_at_unix_ms = now /\ c.expires_at_unix_ms = now + ttl
    BY <2>3 DEF new_challenge
  <2>5. PICK p \in proofs, x \in challenges : Joins(e, p, x)
    BY <1>1, AcceptedIsWhole DEF IInv
  <2>6. e.journal = p.journal
    BY <2>5 DEF Joins
  <2>7. PICK gate \in {Gate, OtherGate}, a \in Accounts, t \in IssueTimes,
             s \in EarlierTrees : \E i \in DOMAIN s :
          /\ p.journal = new_journal(gate.context, p.journal.commitment_root,
                                     p.journal.presenter_public_key, t)
          /\ check_holding(a, gate.context) = "Ok"
          /\ verifies(membership_proof(s, i - 1), commitment(a), p.journal.commitment_root)
    BY <1>1 DEF IInv, GenuineProof, Attested
  <2>7a. PICK i \in DOMAIN s :
          /\ p.journal = new_journal(gate.context, p.journal.commitment_root,
                                     p.journal.presenter_public_key, t)
          /\ check_holding(a, gate.context) = "Ok"
          /\ verifies(membership_proof(s, i - 1), commitment(a), p.journal.commitment_root)
    BY <2>7
  <2>8. gate.context = Gate.context
    <3>1. p.journal.context_hash = context_hash(gate.context)
      BY <2>7a DEF new_journal
    <3>2. QED
      BY <2>2, <2>6, <3>1, ContextHashBinds
  <2>9. Qualifies(a)
    BY <2>7a, <2>8, HoldingIsEnough
  <2>10. /\ leaves \in Seq(Accounts) /\ n \in Nat /\ n <= Len(leaves) /\ Len(leaves) \in Nat
         /\ clock \in Nat /\ ttl \in Nat
    BY <1>1, FlowAssumption DEF IInv, Grown
  <2>11. /\ SubSeq(leaves, 1, n) \in Seq(Accounts)
         /\ DOMAIN SubSeq(leaves, 1, n) = 1 .. n
         /\ \A j \in 1 .. n : SubSeq(leaves, 1, n)[j] = leaves[j]
    BY <2>10
  <2>12. PICK j \in 1 .. n : SubSeq(leaves, 1, n)[j] = a
    <3>1. verifies(membership_proof(s, i - 1), commitment(a), root(SubSeq(leaves, 1, n)))
      BY <2>2, <2>4, <2>6, <2>7a
    <3>2. Len(membership_proof(s, i - 1).siblings) = DEPTH
      BY PathDepth
    <3>3. \E j \in DOMAIN SubSeq(leaves, 1, n) : SubSeq(leaves, 1, n)[j] = a
      BY <2>11, <3>1, <3>2, MembershipSound
    <3>4. QED
      BY <2>11, <3>3
  <2>13. j \in DOMAIN leaves /\ leaves[j] = a /\ committedAt[j] <= c.issued_at_unix_ms
    BY <2>3, <2>4, <2>10, <2>11, <2>12
  <2>14. clock - c.issued_at_unix_ms <= MAX_CHALLENGE_TTL_MS
    <3>1. ~(clock > now + ttl)
      BY <2>2, <2>4 DEF challenge_is_expired
    <3>2. QED
      BY <2>3, <2>4, <2>10, <3>1, TimeAssumption
  <2>15. QED
    BY <2>9, <2>13, <2>14
<1>2. IInv => AcceptedBalanceWasCommitted
  BY <1>1 DEF AcceptedBalanceWasCommitted
<1>3. QED
  BY Inductive, <1>2, PTL

\* A presentation made on a machine whose clock is within the skew is allowed
\* while challenge, gate and proof are in date and the challenge is unused.
THEOREM Honest == Spec => []HonestPresentationAllowed
<1>1. ASSUME IInv, NEW e \in envelopes,
             e.journal.context_hash = context_hash(Gate.context),
             clock <= e.challenge.expires_at_unix_ms,
             \A t \in Gate.context.expires_at_unix_ms : clock <= t,
             clock - e.journal.issued_at_unix_ms <= MAX_PROOF_AGE_MS,
             digest(e.challenge) \notin consumed
      PROVE  Allows(e, e.challenge)
  <2> DEFINE v == Gate.context.verifier_id
  <2>1. PICK p \in proofs, c \in challenges : Joins(e, p, c)
    BY <1>1 DEF IInv
  <2>2. /\ e.journal = p.journal /\ e.receipt = p.receipt /\ e.challenge = c
        /\ e.presenter_signature = sign(e.journal.presenter_public_key,
                                        presentation_message(e.challenge, e.receipt))
        /\ e.journal.presenter_public_key \notin InvalidKeys
        /\ e.journal.commitment_root = e.challenge.expected_commitment_root
    BY <2>1 DEF Joins
  <2>3. PICK ttl \in TTLs, now \in 0 .. clock :
          /\ c.version = CHALLENGE_VERSION
          /\ c.gate_context_hash = context_hash(Gate.context) /\ c.verifier_id = v
          /\ c.issued_at_unix_ms = now /\ c.expires_at_unix_ms = now + ttl
          /\ ttl <= MAX_CHALLENGE_TTL_MS /\ now + ttl <= U64_MAX
          /\ validate_gate(Gate)
    BY <1>1 DEF IInv, PinsRoot, new_challenge
  <2>4. PICK gate \in {Gate, OtherGate}, t \in IssueTimes :
          /\ p.journal = new_journal(gate.context, p.journal.commitment_root,
                                     p.journal.presenter_public_key, t)
          /\ p.journal.presenter_public_key # ZeroDigest
    BY <1>1 DEF IInv, GenuineProof, Attested
  <2>5. gate.context = Gate.context
    <3>1. p.journal.context_hash = context_hash(gate.context)
      BY <2>4 DEF new_journal
    <3>2. QED
      BY <1>1, <2>2, <3>1, ContextHashBinds
  <2>6. /\ e.journal.version = JOURNAL_VERSION
        /\ e.journal.token_program_owner = Gate.context.token_program_owner
        /\ e.journal.token_definition_id = Gate.context.token_definition_id
        /\ e.journal.threshold = Gate.context.threshold
        /\ e.journal.expires_at_unix_ms = Gate.context.expires_at_unix_ms
        /\ e.journal.issued_at_unix_ms = t
    BY <2>2, <2>4, <2>5 DEF new_journal
  <2>7. /\ clock \in Nat /\ clock <= MaxClock /\ MaxClock \in Nat /\ ttl \in Nat
        /\ now \in Nat /\ now <= clock /\ clock <= now + ttl
    BY <1>1, <2>2, <2>3, FlowAssumption DEF IInv, Grown
  <2>8. t \in Nat /\ t <= clock + MAX_CLOCK_SKEW_MS /\ t <= U64_MAX
    <3>1. PICK offset \in HolderOffsets : t \in 0 .. clock + offset
      BY DEF IssueTimes
    <3>2. /\ offset \in Int /\ offset <= MAX_CLOCK_SKEW_MS /\ MaxClock + offset <= U64_MAX
      BY FlowAssumption
    <3>3. QED
      BY <2>7, <3>1, <3>2, TimeAssumption
  <2>9. has_valid_window(c) /\ ~(c.expires_at_unix_ms - c.issued_at_unix_ms > MAX_CHALLENGE_TTL_MS)
    BY <2>3, <2>7, TimeAssumption DEF has_valid_window
  <2>10. ~challenge_is_expired(c, clock)
    BY <2>3, <2>7 DEF challenge_is_expired
  <2>11. ~(c.issued_at_unix_ms > saturating_add(clock, MAX_CLOCK_SKEW_MS))
    BY <2>3, <2>7, TimeAssumption DEF saturating_add
  <2>12. ~journal_is_expired(e.journal, clock)
    <3>1. ASSUME NEW x \in Gate.context.expires_at_unix_ms, clock > x PROVE FALSE
      BY <1>1, <2>7, <3>1, FlowAssumption
    <3>2. QED
      BY <2>6, <3>1 DEF journal_is_expired
  <2>13. ~(t > saturating_add(clock, MAX_CLOCK_SKEW_MS))
    BY <2>7, <2>8, TimeAssumption DEF saturating_add
  <2>14. ~(saturating_sub(clock, t) > MAX_PROOF_AGE_MS)
    BY <1>1, <2>6, <2>7, <2>8, TimeAssumption DEF saturating_sub
  <2>15. ~(saturating_add(t, MAX_PROOF_AGE_MS) < c.issued_at_unix_ms)
    BY <1>1, <2>3, <2>6, <2>7, <2>8, TimeAssumption DEF saturating_add
  <2>16. e.presenter_signature # MalformedSignature
    BY <2>2, <2>4 DEF MalformedSignature, sign
  <2>17. validate_claims_and_signature(e, e.challenge, Gate, v, clock) = "Ok"
    BY <1>1, <2>2, <2>3, <2>6, <2>9, <2>10, <2>11, <2>12, <2>13, <2>14, <2>15, <2>16,
       ClaimsAccepted
  <2>18. verify_receipt(e)
    <3>1. /\ p.receipt.image = IMAGE_ID /\ p.receipt.journal = p.journal
      BY <1>1 DEF IInv, GenuineProof
    <3>2. QED
      BY <2>2, <3>1 DEF verify_receipt
  <2>19. QED
    BY <1>1, <2>17, <2>18, VerifyAccepts DEF Allows, Decision
<1>2. IInv => HonestPresentationAllowed
  BY <1>1 DEF HonestPresentationAllowed
<1>3. QED
  BY Inductive, <1>2, PTL
=============================================================================
