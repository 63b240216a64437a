-------------------------- MODULE Governance_proofs -------------------------
(***************************************************************************)
(* Proofs about Governance for any number of invocations, proposals,       *)
(* proofs and choices, and any bounds: the books of the state file always  *)
(* balance, accepted votes count once and for good, handed-out challenges  *)
(* stay known, no vote is decided late, and the service implements         *)
(* SingleUse.                                                              *)
(***************************************************************************)
EXTENDS Governance, Attestation_proofs, FiniteSetTheorems, TLAPS

(***************************************************************************)
(* The inductive invariant.                                                *)
(***************************************************************************)

Labels == Ended \cup HoldsLock \cup {"start", "waiting"}

Saving == {"decided", "writing", "written"}

VoteOf(p) == digest(job[p].envelope.challenge)

\* A GovernanceState whose books balance, within its limit and for the proposal of
\* its gate.
Balanced(s) ==
    /\ s = [proposal_id |-> s.proposal_id, gate_context_hash |-> s.gate_context_hash,
            pending |-> s.pending, consumed |-> s.consumed, votes |-> s.votes]
    /\ s.gate_context_hash = context_hash(GateOf(s.proposal_id).context)
    /\ s.pending \subseteq PossibleChallenges
    /\ s.consumed \subseteq {digest(c) : c \in PossibleChallenges}
    /\ IsFiniteSet(s.pending) /\ Cardinality(s.pending) <= MAX_PENDING_CHALLENGES
    /\ IsFiniteSet(s.consumed) /\ IsFiniteSet(DOMAIN s.votes)
    /\ Cardinality(DOMAIN s.votes) = Cardinality(s.consumed)
    /\ \A c \in s.pending : digest(c) \notin s.consumed

\* One invocation at a time holds the lock, and it is the one in the locked part
\* of its code.
LockDiscipline ==
    /\ lock \in Procs \cup {NoProc}
    /\ \A p \in Procs : lock = p <=> pc[p] \in HoldsLock

Shapes ==
    /\ clock \in 0 .. MaxClock
    /\ pc \in [Procs -> Labels]
    /\ DOMAIN tmp = Procs /\ DOMAIN job = Procs
    /\ DOMAIN memory = Procs /\ DOMAIN issued = Procs
    /\ outputs \subseteq PossibleChallenges
    /\ \A e \in envelopes : e.challenge \in outputs
    /\ \A p \in Procs : pc[p] \in HoldsLock \cup {"waiting", "accepted"} =>
         /\ job[p].kind \in {"issue", "cast"}
         /\ \E a \in Arguments : job[p].proposal = a[1] /\ job[p].gate = GateOf(a[2])
         /\ job[p].kind = "cast" => job[p].envelope \in envelopes

\* The state file is absent or whole and balanced; every challenge it knows was
\* drawn by an invocation that has saved it.
Drawn(n) == n \in Procs /\ pc[n] \in {"renamed", "ended", "accepted"}

FileBalanced ==
    /\ file = File(file.state, file.data)
    /\ file.state \in {"absent", "whole"}
    /\ file.state = "whole" => Balanced(file.data)
    /\ \A c \in PossibleChallenges :
         c \in Pending \/ digest(c) \in Consumed => Drawn(c.nonce)

\* What an invocation is about to save is the state file with its own change made:
\* for `challenge` one more pending challenge, ...
SavesChallenge(p) ==
    /\ \E c \in PossibleChallenges :
         /\ c.nonce = p
         /\ issued[p] = {c}
         /\ memory[p].pending = Pending \cup {c}
    /\ memory[p].consumed = Consumed
    /\ DOMAIN memory[p].votes = Voters

\* ... for `cast` one more vote, by a presenter that has none, for a pending
\* challenge of this proposal, which is spent.
SavesVote(p) ==
    /\ file.state = "whole"
    /\ job[p].envelope.challenge \in Pending
    /\ memory[p].pending = Pending \ {job[p].envelope.challenge}
    /\ VoteOf(p) \notin Consumed
    /\ memory[p].consumed = Consumed \cup {VoteOf(p)}
    /\ Presenter(p) \notin Voters
    /\ DOMAIN memory[p].votes = Voters \cup {Presenter(p)}
    /\ job[p].proposal = file.data.proposal_id
    /\ job[p].envelope.journal.context_hash =
         context_hash(GateOf(file.data.proposal_id).context)

Prepared(p) ==
    /\ Balanced(memory[p])
    /\ job[p].kind = "issue" => SavesChallenge(p)
    /\ job[p].kind = "cast" => SavesVote(p)
    /\ file.state = "whole" =>
         /\ memory[p].proposal_id = file.data.proposal_id
         /\ \A k \in Voters : memory[p].votes[k] = file.data.votes[k]

SaveDiscipline ==
    /\ \A p \in Procs : pc[p] \in Saving => Prepared(p)
    /\ \A p \in Procs : pc[p] = "written" => tmp[p] = File("whole", memory[p])
    /\ \A p \in Procs : pc[p] = "renamed" /\ job[p].kind = "issue" =>
         \E c \in PossibleChallenges :
           issued[p] = {c} /\ (c \in Pending \/ digest(c) \in Consumed)

\* Votes that are in the state file, whether or not they are reported yet, are
\* there under different presenters and different challenges.
Counted == {p \in Procs : pc[p] \in {"renamed", "accepted"} /\ job[p].kind = "cast"}

VotesCounted ==
    /\ \A p \in Counted :
         /\ file.state = "whole"
         /\ Presenter(p) \in Voters
         /\ VoteOf(p) \in Consumed
         /\ job[p].proposal = file.data.proposal_id
         /\ job[p].envelope.journal.context_hash =
              context_hash(GateOf(file.data.proposal_id).context)
    /\ \A p, q \in Counted :
         Presenter(p) = Presenter(q) \/ VoteOf(p) = VoteOf(q) => p = q
    /\ \A p \in Accepted : job[p].kind = "cast"

IInv ==
    /\ Shapes
    /\ LockDiscipline
    /\ FileBalanced
    /\ SaveDiscipline
    /\ VotesCounted
    /\ HandedOutIsKnown

(***************************************************************************)
(* What the operations on a GovernanceState do.                            *)
(***************************************************************************)

\* Different challenges have different digests.
LEMMA DigestInjective ==
    ASSUME NEW c, NEW d, digest(c) = digest(d)
    PROVE  c = d
BY DEF digest, sha256

\* A state that passes validate_state belongs to the proposal and to its gate.
LEMMA ValidState ==
    ASSUME NEW s, NEW x \in Proposals, NEW y \in Proposals,
           validate_state(s, GateOf(y), x) = "Ok"
    PROVE  /\ x = y /\ validate_gate(GateOf(x))
           /\ s.proposal_id = x
           /\ s.gate_context_hash = context_hash(GateOf(x).context)
<1>1. validate_binding(GateOf(y), x) = "Ok"
  BY DEF validate_state
<1>2. validate_gate(GateOf(y)) /\ GateOf(y).context.gate_id = <<"proposal", x>>
  BY <1>1 DEF validate_binding
<1>3. GateOf(y).context.gate_id = <<"proposal", y>>
  BY GateAssumption
<1>4. x = y
  BY <1>2, <1>3
<1>5. s.proposal_id = x /\ s.gate_context_hash = context_hash(GateOf(y).context)
  BY <1>1 DEF validate_state
<1>6. QED
  BY <1>2, <1>4, <1>5

\* An empty state is balanced.
LEMMA NewStateBalanced ==
    ASSUME NEW x \in Proposals
    PROVE  Balanced(new_state(GateOf(x), x))
<1> DEFINE s == new_state(GateOf(x), x)
<1>1. s = [proposal_id |-> x, gate_context_hash |-> context_hash(GateOf(x).context),
           pending |-> {}, consumed |-> {}, votes |-> << >>]
  BY DEF new_state
<1>2. DOMAIN s.votes = {} /\ s.pending = {} /\ s.consumed = {} /\ s.proposal_id = x
  BY <1>1
<1>3. IsFiniteSet({}) /\ Cardinality({}) = 0
  BY FS_EmptySet
<1>4. s.gate_context_hash = context_hash(GateOf(s.proposal_id).context)
  BY <1>1
<1> HIDE DEF s
<1>5. /\ s = [proposal_id |-> s.proposal_id, gate_context_hash |-> s.gate_context_hash,
              pending |-> s.pending, consumed |-> s.consumed, votes |-> s.votes]
  BY <1>1
<1>6. MAX_PENDING_CHALLENGES \in Nat
  BY GovernanceBounds
<1>7. Balanced(s)
  BY <1>2, <1>3, <1>4, <1>5, <1>6 DEF Balanced
<1>8. QED
  BY <1>7 DEF s

\* issue_challenge adds a challenge of its nonce to a state with room for it.
LEMMA IssueAdds ==
    ASSUME NEW s, NEW x \in Proposals, NEW t \in 0 .. MaxClock, NEW p \in Procs,
           issue_challenge(s, GateOf(x), t, p).code = "Ok"
    PROVE  LET result == issue_challenge(s, GateOf(x), t, p)
           IN  /\ ~pending_full(s)
               /\ result.challenge \in PossibleChallenges
               /\ result.challenge.nonce = p
               /\ result.state = [s EXCEPT !.pending = s.pending \cup {result.challenge}]
<1> DEFINE created == create_challenge(GateOf(x), Root, GateOf(x).context.verifier_id,
                                       t, TTL, p)
           checks == << <<pending_full(s), "TooManyPendingChallenges">>,
                        <<created.code # "Ok", created.code>> >>
           code == first_failure(checks)
           result == issue_challenge(s, GateOf(x), t, p)
<1>1. result = [code |-> code, challenge |-> created.value,
                state |-> IF code = "Ok"
                          THEN [s EXCEPT !.pending = @ \cup {created.value}] ELSE s]
  BY DEF issue_challenge
<1>2. code = "Ok"
  BY <1>1
<1>3. ~pending_full(s) /\ created.code = "Ok"
  <2>1. DOMAIN checks = 1 .. 2
    OBVIOUS
  <2>2. \A i \in 1 .. 2 : checks[i][1] => checks[i][2] # "Ok"
    <3> HIDE DEF created
    <3>1. checks[1][2] # "Ok"
      OBVIOUS
    <3>2. checks[2][1] => checks[2][2] # "Ok"
      OBVIOUS
    <3> HIDE DEF checks
    <3>3. QED
      BY <3>1, <3>2
  <2>3. ~checks[1][1] /\ ~checks[2][1]
    <3> HIDE DEF checks
    <3>1. \A i \in 1 .. 2 : ~checks[i][1]
      BY <1>2, <2>1, <2>2, FirstFailureOk
    <3>2. QED
      BY <3>1
  <2>4. pending_full(s) \in BOOLEAN
    BY DEF pending_full
  <2> HIDE DEF created
  <2>5. QED
    BY <2>3, <2>4
<1>4. created.value = new_challenge(context_hash(GateOf(x).context), Root,
                                    GateOf(x).context.verifier_id, p, t, t + TTL)
  BY <1>3, CreateIssues
<1>5. created.value \in PossibleChallenges /\ created.value.nonce = p
  BY <1>4 DEF PossibleChallenges, new_challenge
<1> HIDE DEF created, code
<1>6. result.challenge = created.value
  BY <1>1
<1>7. result.state = [s EXCEPT !.pending = s.pending \cup {created.value}]
  BY <1>1, <1>2
<1>8. QED
  BY <1>3, <1>5, <1>6, <1>7

\* Adding an unspent challenge to a state with room for it keeps it balanced.
LEMMA AddingKeepsBalance ==
    ASSUME NEW s, Balanced(s), ~pending_full(s),
           NEW c \in PossibleChallenges, digest(c) \notin s.consumed
    PROVE  LET u == [s EXCEPT !.pending = s.pending \cup {c}]
           IN  /\ Balanced(u)
               /\ u.proposal_id = s.proposal_id
               /\ u.pending = s.pending \cup {c}
               /\ u.consumed = s.consumed
               /\ u.votes = s.votes
<1> DEFINE u == [s EXCEPT !.pending = s.pending \cup {c}]
<1>1. u = [proposal_id |-> s.proposal_id, gate_context_hash |-> s.gate_context_hash,
           pending |-> s.pending \cup {c}, consumed |-> s.consumed, votes |-> s.votes]
  BY DEF Balanced
<1> HIDE DEF u
<1>2. /\ u.proposal_id = s.proposal_id /\ u.gate_context_hash = s.gate_context_hash
      /\ u.pending = s.pending \cup {c} /\ u.consumed = s.consumed /\ u.votes = s.votes
  BY <1>1
<1>3. IsFiniteSet(u.pending) /\ Cardinality(u.pending) <= MAX_PENDING_CHALLENGES
  <2>1. IsFiniteSet(s.pending) /\ Cardinality(s.pending) \in Nat
    BY FS_CardinalityType DEF Balanced
  <2>2. Cardinality(s.pending) < MAX_PENDING_CHALLENGES
    BY <2>1, GovernanceBounds DEF pending_full
  <2>3. /\ IsFiniteSet(s.pending \cup {c})
        /\ Cardinality(s.pending \cup {c}) =
             IF c \in s.pending THEN Cardinality(s.pending) ELSE Cardinality(s.pending) + 1
    BY <2>1, FS_AddElement
  <2>4. QED
    BY <1>2, <2>1, <2>2, <2>3, GovernanceBounds
<1>4. \A d \in u.pending : digest(d) \notin u.consumed
  BY <1>2 DEF Balanced
<1>5. Balanced(u)
  BY <1>1, <1>2, <1>3, <1>4 DEF Balanced
<1>6. QED
  BY <1>2, <1>5 DEF u

\* cast_vote accepts only a presentation of a pending challenge by a presenter
\* without a vote, when the verifier accepts it.
LEMMA CastVerifies ==
    ASSUME NEW s, NEW gate, NEW e, NEW choice, NEW now,
           cast_vote(s, gate, e, choice, now).code = "Ok"
    PROVE  LET verified == verify(e, e.challenge, gate, gate.context.verifier_id, now,
                                  s.consumed)
               k == e.journal.presenter_public_key
           IN  /\ e.challenge \in s.pending
               /\ k \notin DOMAIN s.votes
               /\ verified.code = "Ok"
<1> DEFINE c == e.challenge
           k == e.journal.presenter_public_key
           v == gate.context.verifier_id
           verified == verify(e, c, gate, v, now, s.consumed)
           checks == << <<c \notin s.pending, "UnknownChallenge">>,
                        <<has_voted(s, k), "DuplicateVote">>,
                        <<verified.code # "Ok", verified.code>> >>
           record == [choice |-> choice, cast_at_unix_ms |-> now]
           code == first_failure(checks)
           result == cast_vote(s, gate, e, choice, now)
<1>1. result = [code |-> code,
                state |-> IF code = "Ok"
                          THEN record_vote(s, c, k, verified.consumed, record) ELSE s]
  BY DEF cast_vote
<1>2. code = "Ok"
  BY <1>1
<1>3. c \in s.pending /\ ~has_voted(s, k) /\ verified.code = "Ok"
  <2> HIDE DEF verified
  <2>1. DOMAIN checks = 1 .. 3
    OBVIOUS
  <2>2. \A i \in 1 .. 3 : checks[i][1] => checks[i][2] # "Ok"
    <3>1. checks[1][2] # "Ok" /\ checks[2][2] # "Ok"
      OBVIOUS
    <3>2. checks[3][1] => checks[3][2] # "Ok"
      OBVIOUS
    <3> HIDE DEF checks
    <3>3. QED
      BY <3>1, <3>2
  <2>3. ~checks[1][1] /\ ~checks[2][1] /\ ~checks[3][1]
    <3> HIDE DEF checks
    <3>1. \A i \in 1 .. 3 : ~checks[i][1]
      BY <1>2, <2>1, <2>2, FirstFailureOk
    <3>2. QED
      BY <3>1
  <2>4. has_voted(s, k) \in BOOLEAN
    BY DEF has_voted
  <2>5. QED
    BY <2>3, <2>4
<1>4. QED
  BY <1>3 DEF has_voted

\* It then records the vote and what the verifier consumed.
LEMMA CastRecords ==
    ASSUME NEW s, NEW gate, NEW e, NEW choice, NEW now,
           cast_vote(s, gate, e, choice, now).code = "Ok"
    PROVE  cast_vote(s, gate, e, choice, now).state =
             record_vote(s, e.challenge, e.journal.presenter_public_key,
                         verify(e, e.challenge, gate, gate.context.verifier_id, now,
                                s.consumed).consumed,
                         [choice |-> choice, cast_at_unix_ms |-> now])
BY DEF cast_vote

\* The verifier accepts it now and for this gate.
LEMMA CastAccepts ==
    ASSUME NEW s, NEW gate, NEW e, NEW choice, NEW now,
           cast_vote(s, gate, e, choice, now).code = "Ok"
    PROVE  /\ digest(e.challenge) \notin s.consumed
           /\ ~challenge_is_expired(e.challenge, now)
           /\ e.journal.context_hash = context_hash(gate.context)
<1> DEFINE v == gate.context.verifier_id
<1>1. verify(e, e.challenge, gate, v, now, s.consumed).code = "Ok"
  BY CastVerifies
<1>2. /\ validate_claims_and_signature(e, e.challenge, gate, v, now) = "Ok"
      /\ digest(e.challenge) \notin s.consumed
  BY <1>1, VerifyConsumes
<1>3. QED
  BY <1>2, ClaimsHold

\* State u is the balanced state s with a vote of k for challenge c.
VoteAdded(s, u, c, k) ==
    /\ Balanced(u)
    /\ u.proposal_id = s.proposal_id
    /\ u.pending = s.pending \ {c}
    /\ u.consumed = s.consumed \cup {digest(c)}
    /\ DOMAIN u.votes = DOMAIN s.votes \cup {k}
    /\ \A j \in DOMAIN s.votes : u.votes[j] = s.votes[j]

\* Recording a vote keeps the state balanced: one vote more, one challenge spent,
\* which is no longer pending.
LEMMA VotingKeepsBalance ==
    ASSUME NEW s, Balanced(s), NEW c \in s.pending, digest(c) \notin s.consumed,
           NEW k, k \notin DOMAIN s.votes, NEW record, NEW u,
           u = record_vote(s, c, k, s.consumed \cup {digest(c)}, record)
    PROVE  VoteAdded(s, u, c, k)
<1> DEFINE votes == [j \in DOMAIN s.votes \cup {k} |->
                       IF j = k THEN record ELSE s.votes[j]]
<1>1. u = [proposal_id |-> s.proposal_id, gate_context_hash |-> s.gate_context_hash,
           pending |-> s.pending \ {c}, consumed |-> s.consumed \cup {digest(c)},
           votes |-> votes]
  <2>1. u = [s EXCEPT !.pending = s.pending \ {c},
                      !.consumed = s.consumed \cup {digest(c)},
                      !.votes = votes]
    BY DEF record_vote
  <2> DEFINE pending == s.pending \ {c}
             consumed == s.consumed \cup {digest(c)}
  <2> HIDE DEF votes, pending, consumed
  <2>2. s = [proposal_id |-> s.proposal_id, gate_context_hash |-> s.gate_context_hash,
             pending |-> s.pending, consumed |-> s.consumed, votes |-> s.votes]
    BY DEF Balanced
  <2>3. u = [s EXCEPT !.pending = pending, !.consumed = consumed, !.votes = votes]
    BY <2>1 DEF pending, consumed
  <2>4. u = [proposal_id |-> s.proposal_id, gate_context_hash |-> s.gate_context_hash,
             pending |-> pending, consumed |-> consumed, votes |-> votes]
    BY <2>2, <2>3
  <2>5. QED
    BY <2>4 DEF pending, consumed
<1>2. DOMAIN votes = DOMAIN s.votes \cup {k} /\ \A j \in DOMAIN s.votes : votes[j] = s.votes[j]
  OBVIOUS
<1> HIDE DEF votes
<1>3. /\ u.proposal_id = s.proposal_id /\ u.gate_context_hash = s.gate_context_hash
      /\ u.pending = s.pending \ {c} /\ u.consumed = s.consumed \cup {digest(c)}
      /\ u.votes = votes
  BY <1>1
<1>4. IsFiniteSet(u.pending) /\ Cardinality(u.pending) <= MAX_PENDING_CHALLENGES
  <2>1. IsFiniteSet(s.pending) /\ Cardinality(s.pending) <= MAX_PENDING_CHALLENGES
    BY DEF Balanced
  <2>2. Cardinality(s.pending) \in Nat
    BY <2>1, FS_CardinalityType
  <2>3. IsFiniteSet(s.pending \ {c}) /\ Cardinality(s.pending \ {c}) = Cardinality(s.pending) - 1
    BY <2>1, FS_RemoveElement
  <2>4. MAX_PENDING_CHALLENGES \in Nat
    BY GovernanceBounds
  <2>5. Cardinality(s.pending \ {c}) <= MAX_PENDING_CHALLENGES
    BY <2>1, <2>2, <2>3, <2>4
  <2>6. QED
    BY <1>3, <2>3, <2>5
<1>5. /\ IsFiniteSet(u.consumed) /\ IsFiniteSet(DOMAIN u.votes)
      /\ Cardinality(DOMAIN u.votes) = Cardinality(u.consumed)
  <2>1. /\ IsFiniteSet(s.consumed) /\ IsFiniteSet(DOMAIN s.votes)
        /\ Cardinality(DOMAIN s.votes) = Cardinality(s.consumed)
    BY DEF Balanced
  <2>2. /\ IsFiniteSet(s.consumed \cup {digest(c)})
        /\ Cardinality(s.consumed \cup {digest(c)}) = Cardinality(s.consumed) + 1
    BY <2>1, FS_AddElement
  <2>3. /\ IsFiniteSet(DOMAIN s.votes \cup {k})
        /\ Cardinality(DOMAIN s.votes \cup {k}) = Cardinality(DOMAIN s.votes) + 1
    BY <2>1, FS_AddElement
  <2>4. QED
    BY <1>2, <1>3, <2>1, <2>2, <2>3
<1>6. \A d \in u.pending : digest(d) \notin u.consumed
  BY <1>3, DigestInjective DEF Balanced
<1>7. u.consumed \subseteq {digest(d) : d \in PossibleChallenges}
  BY <1>3 DEF Balanced
<1>8. Balanced(u)
  <2>1. u = [proposal_id |-> u.proposal_id, gate_context_hash |-> u.gate_context_hash,
             pending |-> u.pending, consumed |-> u.consumed, votes |-> u.votes]
    BY <1>1, <1>3
  <2>2. u.pending \subseteq PossibleChallenges
    BY <1>3 DEF Balanced
  <2>3. u.gate_context_hash = context_hash(GateOf(u.proposal_id).context)
    BY <1>3 DEF Balanced
  <2>4. QED
    BY <1>4, <1>5, <1>6, <1>7, <2>1, <2>2, <2>3 DEF Balanced
<1>9. QED
  BY <1>2, <1>3, <1>8 DEF VoteAdded

\* What an accepting cast_vote does to a balanced state.
LEMMA CastKeepsBalance ==
    ASSUME NEW s, Balanced(s), NEW gate, NEW e, NEW choice, NEW now,
           cast_vote(s, gate, e, choice, now).code = "Ok"
    PROVE  LET u == cast_vote(s, gate, e, choice, now).state
               k == e.journal.presenter_public_key
           IN  /\ e.challenge \in s.pending
               /\ k \notin DOMAIN s.votes
               /\ digest(e.challenge) \notin s.consumed
               /\ e.journal.context_hash = context_hash(gate.context)
               /\ VoteAdded(s, u, e.challenge, k)
<1> DEFINE result == cast_vote(s, gate, e, choice, now)
           u == result.state
           c == e.challenge
           k == e.journal.presenter_public_key
           verified == verify(e, c, gate, gate.context.verifier_id, now, s.consumed)
           record == [choice |-> choice, cast_at_unix_ms |-> now]
<1>1. c \in s.pending /\ k \notin DOMAIN s.votes /\ verified.code = "Ok"
  BY CastVerifies
<1>2. u = record_vote(s, c, k, verified.consumed, record)
  BY CastRecords
<1>3. verified.consumed = s.consumed \cup {digest(c)}
  BY <1>1, VerifyConsumes
<1>4. digest(c) \notin s.consumed /\ e.journal.context_hash = context_hash(gate.context)
  BY CastAccepts
<1> HIDE DEF result, c, k, verified, record
<1>5. u = record_vote(s, c, k, s.consumed \cup {digest(c)}, record)
  BY <1>2, <1>3
<1> HIDE DEF u
<1>6. VoteAdded(s, u, c, k)
  BY <1>1, <1>4, <1>5, VotingKeepsBalance
<1>7. QED
  BY <1>1, <1>4, <1>6 DEF result, u, c, k

(***************************************************************************)
(* Steps that leave the state file alone.                                  *)
(***************************************************************************)

\* A step of one invocation that does not touch the state file keeps the invariant
\* when it keeps the shapes and the lock, hands out known challenges only and, if
\* it is about to save, has prepared its save.
LEMMA LocalStep ==
    ASSUME IInv, NEW p \in Procs, UNCHANGED file,
           Shapes', LockDiscipline', HandedOutIsKnown',
           \A q \in Procs \ {p} :
             /\ pc'[q] = pc[q] /\ job'[q] = job[q] /\ memory'[q] = memory[q]
             /\ issued'[q] = issued[q] /\ tmp'[q] = tmp[q],
           Drawn(p) => Drawn(p)',
           pc'[p] \in Saving => Prepared(p)',
           pc'[p] = "written" => tmp'[p] = File("whole", memory'[p]),
           pc'[p] # "renamed",
           pc'[p] = "accepted" =>
             pc[p] = "renamed" /\ job[p].kind = "cast" /\ job'[p] = job[p]
    PROVE  IInv'
<1>1. Pending' = Pending /\ Consumed' = Consumed /\ Voters' = Voters
  BY DEF Pending, Consumed, Voters
<1>2. \A n : Drawn(n) => Drawn(n)'
  BY DEF Drawn
<1>3. FileBalanced'
  <2>1. Balanced(file'.data) <=> Balanced(file.data)
    OBVIOUS
  <2>2. QED
    BY <1>1, <1>2, <2>1 DEF IInv, FileBalanced
<1>4. SaveDiscipline'
  <2>1. ASSUME NEW q \in Procs \ {p}, pc'[q] \in Saving
        PROVE  Prepared(q)'
    <3>1. Prepared(q)
      BY <2>1 DEF IInv, SaveDiscipline
    <3>2. VoteOf(q)' = VoteOf(q) /\ Presenter(q)' = Presenter(q)
      BY <2>1 DEF VoteOf, Presenter
    <3>3. Balanced(memory[q])' <=> Balanced(memory[q])
      BY <2>1 DEF Balanced, PossibleChallenges
    <3>4. QED
      BY <1>1, <2>1, <3>1, <3>2, <3>3 DEF Prepared, SavesChallenge, SavesVote
  <2>2. \A q \in Procs : pc'[q] \in Saving => Prepared(q)'
    BY <2>1
  <2>3. \A q \in Procs : pc'[q] = "written" => tmp'[q] = File("whole", memory'[q])
    BY DEF IInv, SaveDiscipline, File
  <2>4. \A q \in Procs : pc'[q] = "renamed" /\ job'[q].kind = "issue" =>
          \E c \in PossibleChallenges :
            issued'[q] = {c} /\ (c \in Pending' \/ digest(c) \in Consumed')
    BY <1>1 DEF IInv, SaveDiscipline
  <2>5. QED
    BY <2>2, <2>3, <2>4 DEF SaveDiscipline
<1>5. VotesCounted'
  <2>1. \A q \in Counted' : q \in Counted /\ job'[q] = job[q]
    BY DEF Counted
  <2>2. \A q \in Counted' : /\ q \in Counted
                            /\ job'[q] = job[q]
                            /\ VoteOf(q)' = VoteOf(q) /\ Presenter(q)' = Presenter(q)
    BY <2>1 DEF VoteOf, Presenter
  <2>3. \A q \in Accepted' : job'[q].kind = "cast"
    BY DEF Accepted, IInv, VotesCounted
  <2>4. QED
    BY <1>1, <2>2, <2>3 DEF IInv, VotesCounted
<1>6. QED
  BY <1>3, <1>4, <1>5 DEF IInv

\* Leaving the command keeps the invariant, whether it failed, was stopped, wrote
\* its challenge or reported its vote.
LEMMA ExitStep ==
    ASSUME IInv, NEW p \in Procs, pc[p] \notin Ended \cup {"start"},
           NEW label \in Ended, Exit(p, label),
           label = "accepted" => pc[p] = "renamed" /\ job[p].kind = "cast",
           UNCHANGED <<clock, envelopes, file>>,
           UNCHANGED tmp \/ tmp' = Forget(tmp, p, NoFile),
           \/ UNCHANGED outputs
           \/ /\ pc[p] = "renamed" /\ job[p].kind = "issue"
              /\ outputs' = outputs \cup issued[p]
    PROVE  IInv'
<1> USE DEF IInv
<1>1. /\ pc' = [pc EXCEPT ![p] = label]
      /\ lock' = IF lock = p THEN NoProc ELSE lock
      /\ job' = IF label = "accepted" THEN job ELSE [job EXCEPT ![p] = NoJob]
      /\ memory' = [memory EXCEPT ![p] = NoState]
      /\ issued' = [issued EXCEPT ![p] = None]
  BY DEF Exit, Goto, Forget
<1>2. \A q \in Procs : pc'[q] = IF q = p THEN label ELSE pc[q]
  BY <1>1 DEF Shapes
<1>3. \A q \in Procs \ {p} :
        /\ pc'[q] = pc[q] /\ job'[q] = job[q] /\ memory'[q] = memory[q]
        /\ issued'[q] = issued[q] /\ tmp'[q] = tmp[q]
  BY <1>1 DEF Shapes, Forget
<1>4. LockDiscipline'
  BY <1>1, <1>2, GovernanceProcs DEF LockDiscipline, Ended, HoldsLock
<1>5. \A c \in issued[p] : pc[p] = "renamed" /\ job[p].kind = "issue" =>
        c \in PossibleChallenges /\ (c \in Pending \/ digest(c) \in Consumed)
  BY DEF SaveDiscipline
<1>6. outputs \subseteq outputs' /\ outputs' \subseteq PossibleChallenges
  BY <1>5 DEF Shapes
<1>7. HandedOutIsKnown'
  BY <1>5 DEF HandedOutIsKnown, Pending, Consumed
<1>8. Shapes'
  <2>1. pc' \in [Procs -> Labels]
    BY <1>1 DEF Shapes, Labels
  <2>2. DOMAIN tmp' = Procs /\ DOMAIN job' = Procs /\ DOMAIN memory' = Procs
        /\ DOMAIN issued' = Procs
    BY <1>1 DEF Shapes, Forget
  <2>3. ASSUME NEW q \in Procs, pc'[q] \in HoldsLock \cup {"waiting", "accepted"}
        PROVE  /\ job'[q] = job[q]
               /\ pc[q] \in HoldsLock \cup {"waiting", "accepted"}
    BY <1>1, <1>2, <1>3, <2>3 DEF Ended, HoldsLock
  <2>4. QED
    BY <1>6, <2>1, <2>2, <2>3 DEF Shapes
<1>9. Drawn(p) => Drawn(p)'
  BY <1>2 DEF Drawn, Ended
<1>10. pc'[p] \notin Saving \cup {"renamed"}
  BY <1>2 DEF Saving, Ended
<1>11. pc'[p] = "accepted" =>
         pc[p] = "renamed" /\ job[p].kind = "cast" /\ job'[p] = job[p]
  BY <1>1, <1>2
<1>12. QED
  BY <1>3, <1>4, <1>7, <1>8, <1>9, <1>10, <1>11, LocalStep DEF Saving

\* Starting a command and taking the lock.
LEMMA StartStep ==
    ASSUME IInv, NEW p \in Procs, StartIssue(p) \/ StartCast(p) \/ Lock(p)
    PROVE  IInv'
<1> USE DEF IInv
<1>1. PICK label \in {"waiting", "locked"} : pc' = [pc EXCEPT ![p] = label]
  BY DEF StartIssue, StartCast, Lock, Goto
<1>2. \A q \in Procs : pc'[q] = IF q = p THEN label ELSE pc[q]
  BY <1>1 DEF Shapes
<1>3. UNCHANGED <<inputs, file, tmp, memory, issued>>
  BY DEF StartIssue, StartCast, Lock
<1>4. /\ DOMAIN job' = Procs
      /\ \A q \in Procs \ {p} : job'[q] = job[q]
  BY DEF StartIssue, StartCast, Lock, Shapes
<1>5. /\ job'[p].kind \in {"issue", "cast"}
      /\ \E a \in Arguments : job'[p].proposal = a[1] /\ job'[p].gate = GateOf(a[2])
      /\ job'[p].kind = "cast" => job'[p].envelope \in envelopes
  <2>1. CASE StartIssue(p)
    <3>1. PICK a \in Arguments :
            job' = [job EXCEPT ![p] = [kind |-> "issue", proposal |-> a[1],
                                       gate |-> GateOf(a[2])]]
      BY <2>1 DEF StartIssue
    <3>2. job'[p] = [kind |-> "issue", proposal |-> a[1], gate |-> GateOf(a[2])]
      BY <3>1 DEF Shapes
    <3>3. QED
      BY <3>2
  <2>2. CASE StartCast(p)
    <3>1. PICK a \in Arguments, e \in envelopes, choice \in Choices :
            job' = [job EXCEPT ![p] = [kind |-> "cast", proposal |-> a[1],
                                       gate |-> GateOf(a[2]),
                                       envelope |-> e, choice |-> choice]]
      BY <2>2 DEF StartCast
    <3>2. job'[p] = [kind |-> "cast", proposal |-> a[1], gate |-> GateOf(a[2]),
                     envelope |-> e, choice |-> choice]
      BY <3>1 DEF Shapes
    <3>3. QED
      BY <3>2
  <2>3. CASE Lock(p)
    BY <2>3 DEF Lock, Shapes
  <2>4. QED
    BY <2>1, <2>2, <2>3
<1>6. LockDiscipline'
  BY <1>1, <1>2, GovernanceProcs
  DEF LockDiscipline, HoldsLock, StartIssue, StartCast, Lock, Goto, Shapes
<1>7. HandedOutIsKnown'
  BY <1>3 DEF HandedOutIsKnown, Pending, Consumed, inputs
<1>8. Shapes'
  <2>1. pc' \in [Procs -> Labels]
    BY <1>1 DEF Shapes, Labels, HoldsLock
  <2>2. ASSUME NEW q \in Procs, pc'[q] \in HoldsLock \cup {"waiting", "accepted"}
        PROVE  /\ job'[q].kind \in {"issue", "cast"}
               /\ \E a \in Arguments : job'[q].proposal = a[1] /\ job'[q].gate = GateOf(a[2])
               /\ job'[q].kind = "cast" => job'[q].envelope \in envelopes
    BY <1>2, <1>4, <1>5, <2>2 DEF Shapes
  <2>3. QED
    BY <1>3, <1>4, <2>1, <2>2 DEF Shapes, inputs
<1>9. pc[p] \in {"start", "waiting"}
  BY DEF StartIssue, StartCast, Lock
<1>10. ~Drawn(p)
  BY <1>9 DEF Drawn
<1>11. pc'[p] \notin Saving \cup {"renamed", "accepted"}
  BY <1>2 DEF Saving
<1>12. QED
  BY <1>2, <1>3, <1>4, <1>6, <1>7, <1>8, <1>10, <1>11, LocalStep DEF Saving

\* Going on under the lock, with a save prepared.
LEMMA SavingStep ==
    ASSUME IInv, NEW p \in Procs, NEW label \in Saving, Goto(p, label),
           pc[p] \in {"locked", "decided", "writing"},
           UNCHANGED <<inputs, lock, file, job>>,
           DOMAIN tmp' = Procs, DOMAIN memory' = Procs, DOMAIN issued' = Procs,
           \A q \in Procs \ {p} : /\ memory'[q] = memory[q] /\ issued'[q] = issued[q]
                                  /\ tmp'[q] = tmp[q],
           label = "written" => tmp'[p] = File("whole", memory'[p]),
           Prepared(p)'
    PROVE  IInv'
<1> USE DEF IInv
<1>1. pc' = [pc EXCEPT ![p] = label]
  BY DEF Goto
<1>2. \A q \in Procs : pc'[q] = IF q = p THEN label ELSE pc[q]
  BY <1>1 DEF Shapes
<1>3. LockDiscipline'
  BY <1>2 DEF LockDiscipline, HoldsLock, Saving
<1>4. HandedOutIsKnown'
  BY DEF HandedOutIsKnown, Pending, Consumed, inputs
<1>5. Shapes'
  BY <1>1, <1>2 DEF Shapes, Labels, HoldsLock, Saving, inputs
<1>6. ~Drawn(p) /\ pc'[p] \notin {"renamed", "accepted"}
  BY <1>2 DEF Drawn, Saving
<1>7. QED
  BY <1>2, <1>3, <1>4, <1>5, <1>6, LocalStep

\* `challenge` decides: it refuses, or prepares to save one more pending challenge.
LEMMA IssueStep ==
    ASSUME IInv, NEW p \in Procs, Issue(p)
    PROVE  IInv'
<1> USE DEF IInv
<1> DEFINE gate == job[p].gate
           proposal == job[p].proposal
           state == IF file.state = "whole" THEN file.data ELSE new_state(gate, proposal)
           valid == validate_state(state, gate, proposal)
           result == issue_challenge(state, gate, clock, p)
           code == IF file.state = "torn" THEN "UnreadableState"
                   ELSE IF valid # "Ok" THEN valid ELSE result.code
<1>1. /\ pc[p] = "locked" /\ job[p].kind = "issue"
      /\ UNCHANGED <<inputs, file, tmp>>
  BY DEF Issue
<1>2. IF code = "Ok"
      THEN /\ memory' = [memory EXCEPT ![p] = result.state]
           /\ issued' = [issued EXCEPT ![p] = Some(result.challenge)]
           /\ Goto(p, "decided")
           /\ UNCHANGED <<lock, job>>
      ELSE Exit(p, "ended")
  BY DEF Issue
<1>3. PICK a \in Arguments : proposal = a[1] /\ gate = GateOf(a[2])
  BY <1>1 DEF Shapes, HoldsLock
<1>4. a[1] \in Proposals /\ a[2] \in Proposals
  BY GateAssumption
<1>5. CASE code # "Ok"
  <2>1. Exit(p, "ended")
    BY <1>2, <1>5
  <2>2. QED
    BY <1>1, <2>1, ExitStep DEF inputs, Ended
<1>6. CASE code = "Ok"
  <2>1. valid = "Ok" /\ result.code = "Ok" /\ file.state # "torn"
    <3> HIDE DEF valid, result
    <3>1. QED
      BY <1>6
  <2>2. a[1] = a[2] /\ state.proposal_id = proposal
    <3> HIDE DEF state
    <3>1. QED
      BY <1>3, <1>4, <2>1, ValidState
  <2>3. Balanced(state)
    <3>1. CASE file.state = "whole"
      BY <3>1 DEF FileBalanced
    <3>2. CASE file.state # "whole"
      <4>1. state = new_state(GateOf(a[1]), a[1])
        BY <1>3, <2>2, <3>2
      <4> HIDE DEF state
      <4>2. QED
        BY <1>4, <4>1, NewStateBalanced
    <3>3. QED
      BY <3>1, <3>2
  <2>4. state.pending = Pending /\ state.consumed = Consumed /\ DOMAIN state.votes = Voters
    BY DEF Pending, Consumed, Voters, new_state
  <2>5. PICK c \in PossibleChallenges :
          /\ ~pending_full(state)
          /\ c.nonce = p
          /\ result.challenge = c
          /\ result.state = [state EXCEPT !.pending = state.pending \cup {c}]
    <3>1. clock \in 0 .. MaxClock
      BY DEF Shapes
    <3>2. result = issue_challenge(state, GateOf(a[2]), clock, p)
      BY <1>3
    <3> HIDE DEF state, result
    <3>3. issue_challenge(state, GateOf(a[2]), clock, p).code = "Ok"
      BY <2>1, <3>2
    <3>4. /\ ~pending_full(state)
          /\ result.challenge \in PossibleChallenges
          /\ result.challenge.nonce = p
          /\ result.state = [state EXCEPT !.pending = state.pending \cup {result.challenge}]
      BY <1>4, <3>1, <3>2, <3>3, IssueAdds
    <3>5. QED
      BY <3>4
  <2>6. digest(c) \notin state.consumed
    BY <1>1, <2>4, <2>5 DEF FileBalanced, Drawn
  <2> DEFINE u == result.state
  <2>7. /\ Balanced(u) /\ u.proposal_id = state.proposal_id
        /\ u.pending = state.pending \cup {c} /\ u.consumed = state.consumed
        /\ u.votes = state.votes
    <3> HIDE DEF state, result
    <3>1. QED
      BY <2>3, <2>5, <2>6, AddingKeepsBalance
  <2>8. memory'[p] = u /\ issued'[p] = {c}
    <3> HIDE DEF result, code
    <3>1. QED
      BY <1>2, <1>6, <2>5 DEF Shapes, Some
  <2>9. /\ DOMAIN memory' = Procs /\ DOMAIN issued' = Procs
        /\ \A q \in Procs \ {p} : memory'[q] = memory[q] /\ issued'[q] = issued[q]
        /\ Goto(p, "decided") /\ UNCHANGED <<lock, job>>
    <3> HIDE DEF result, code
    <3>1. QED
      BY <1>2, <1>6 DEF Shapes
  <2>10. Prepared(p)'
    <3>1. Pending' = Pending /\ Consumed' = Consumed /\ Voters' = Voters
      BY <1>1 DEF Pending, Consumed, Voters
    <3>2. file.state = "whole" => state = file.data
      OBVIOUS
    <3> HIDE DEF result, code, state, u
    <3>3. SavesChallenge(p)'
      BY <2>4, <2>5, <2>7, <2>8, <3>1 DEF SavesChallenge
    <3>4. Balanced(memory'[p])
      BY <2>7, <2>8
    <3>5. file.state = "whole" => /\ u.proposal_id = file.data.proposal_id
                                  /\ \A k \in Voters : u.votes[k] = file.data.votes[k]
      BY <2>7, <3>2
    <3>6. job'[p].kind # "cast"
      BY <1>1, <2>9
    <3>7. QED
      BY <1>1, <2>8, <2>9, <3>1, <3>3, <3>4, <3>5, <3>6 DEF Prepared
  <2>11. QED
    BY <1>1, <2>9, <2>10, SavingStep DEF Saving, Shapes
<1>7. QED
  BY <1>5, <1>6

\* `cast` decides: it refuses, or prepares to save one more vote.
LEMMA CastStep ==
    ASSUME IInv, NEW p \in Procs, Cast(p)
    PROVE  IInv'
<1> USE DEF IInv
<1> DEFINE gate == job[p].gate
           proposal == job[p].proposal
           e == job[p].envelope
           s == file.data
           valid == validate_state(s, gate, proposal)
           result == cast_vote(s, gate, e, job[p].choice, clock)
           code == IF file.state # "whole" THEN "UnreadableState"
                   ELSE IF valid # "Ok" THEN valid ELSE result.code
<1>1. /\ pc[p] = "locked" /\ job[p].kind = "cast"
      /\ UNCHANGED <<inputs, file, tmp>>
  BY DEF Cast
<1>2. IF code = "Ok"
      THEN /\ memory' = [memory EXCEPT ![p] = result.state]
           /\ Goto(p, "decided")
           /\ UNCHANGED <<lock, job, issued>>
      ELSE Exit(p, "ended")
  BY DEF Cast
<1>3. CASE code # "Ok"
  <2>1. Exit(p, "ended")
    BY <1>2, <1>3
  <2>2. QED
    BY <1>1, <2>1, ExitStep DEF inputs, Ended
<1>4. CASE code = "Ok"
  <2>1. valid = "Ok" /\ result.code = "Ok" /\ file.state = "whole"
    <3> HIDE DEF valid, result
    <3>1. QED
      BY <1>4
  <2>2. s.proposal_id = proposal /\ gate = GateOf(proposal)
    <3>1. PICK a \in Arguments : proposal = a[1] /\ gate = GateOf(a[2])
      BY <1>1 DEF Shapes, HoldsLock
    <3>2. a[1] \in Proposals /\ a[2] \in Proposals
      BY GateAssumption
    <3>3. validate_state(s, GateOf(a[2]), a[1]) = "Ok"
      BY <2>1, <3>1
    <3> HIDE DEF s
    <3>4. a[1] = a[2] /\ s.proposal_id = a[1]
      BY <3>2, <3>3, ValidState
    <3>5. QED
      BY <3>1, <3>4
  <2>3. Balanced(s)
    BY <2>1 DEF FileBalanced
  <2>4. s.pending = Pending /\ s.consumed = Consumed /\ DOMAIN s.votes = Voters
    BY <2>1 DEF Pending, Consumed, Voters
  <2> DEFINE c == e.challenge
             k == e.journal.presenter_public_key
             u == result.state
  <2>5. cast_vote(s, gate, e, job[p].choice, clock).code = "Ok"
    BY <2>1
  <2>6. /\ c \in s.pending /\ k \notin DOMAIN s.votes /\ digest(c) \notin s.consumed
        /\ e.journal.context_hash = context_hash(gate.context)
    <3> HIDE DEF s, gate, e
    <3>1. QED
      BY <2>3, <2>5, CastKeepsBalance
  <2>7. /\ Balanced(u) /\ u.proposal_id = s.proposal_id
        /\ u.pending = s.pending \ {c} /\ u.consumed = s.consumed \cup {digest(c)}
        /\ DOMAIN u.votes = DOMAIN s.votes \cup {k}
        /\ \A j \in DOMAIN s.votes : u.votes[j] = s.votes[j]
    <3> HIDE DEF s, gate, e
    <3>1. VoteAdded(s, u, c, k)
      BY <2>3, <2>5, CastKeepsBalance
    <3> HIDE DEF u, c, k
    <3>2. QED
      BY <3>1 DEF VoteAdded
  <2>8. /\ memory'[p] = u
        /\ DOMAIN memory' = Procs
        /\ \A q \in Procs \ {p} : memory'[q] = memory[q]
        /\ Goto(p, "decided") /\ UNCHANGED <<lock, job, issued>>
    <3> HIDE DEF result, code
    <3>1. QED
      BY <1>2, <1>4 DEF Shapes
  <2>9. Prepared(p)'
    <3>1. Pending' = Pending /\ Consumed' = Consumed /\ Voters' = Voters
      BY <1>1 DEF Pending, Consumed, Voters
    <3>2. VoteOf(p)' = digest(c) /\ Presenter(p)' = k /\ job'[p] = job[p]
      BY <2>8 DEF VoteOf, Presenter
    <3> HIDE DEF result, code, u
    <3>3. SavesVote(p)'
      BY <1>1, <2>1, <2>2, <2>4, <2>6, <2>7, <2>8, <3>1, <3>2 DEF SavesVote
    <3>4. Balanced(memory'[p])
      BY <2>7, <2>8
    <3>5. job'[p].kind # "issue"
      BY <1>1, <3>2
    <3>6. QED
      BY <1>1, <2>4, <2>7, <2>8, <3>1, <3>3, <3>4, <3>5 DEF Prepared
  <2>10. QED
    BY <1>1, <2>8, <2>9, SavingStep DEF Saving, Shapes
<1>5. QED
  BY <1>3, <1>4

\* Creating and filling the temporary file.
LEMMA TmpStep ==
    ASSUME IInv, NEW p \in Procs, CreateTmp(p) \/ WriteTmp(p)
    PROVE  IInv'
<1> USE DEF IInv
<1>1. /\ pc[p] \in {"decided", "writing"}
      /\ UNCHANGED <<inputs, lock, file, job, memory, issued>>
  BY DEF CreateTmp, WriteTmp
<1>2. PICK label \in {"writing", "written"} :
        /\ Goto(p, label)
        /\ label = "written" => tmp'[p] = File("whole", memory[p])
  BY DEF CreateTmp, WriteTmp, Shapes
<1>3. DOMAIN tmp' = Procs /\ \A q \in Procs \ {p} : tmp'[q] = tmp[q]
  BY DEF CreateTmp, WriteTmp, Shapes
<1>4. Prepared(p)
  BY <1>1 DEF SaveDiscipline, Saving
<1>5. Prepared(p)'
  <2>1. Pending' = Pending /\ Consumed' = Consumed /\ Voters' = Voters
    BY <1>1 DEF Pending, Consumed, Voters
  <2>2. VoteOf(p)' = VoteOf(p) /\ Presenter(p)' = Presenter(p)
    BY <1>1 DEF VoteOf, Presenter
  <2>3. Balanced(memory'[p])
    BY <1>1, <1>4 DEF Prepared
  <2>4. SavesChallenge(p) => SavesChallenge(p)'
    BY <1>1, <2>1 DEF SavesChallenge
  <2>5. SavesVote(p) => SavesVote(p)'
    BY <1>1, <2>1, <2>2 DEF SavesVote
  <2>6. QED
    BY <1>1, <1>4, <2>1, <2>3, <2>4, <2>5 DEF Prepared
<1>6. QED
  BY <1>1, <1>2, <1>3, <1>5, SavingStep DEF Saving, Shapes, File

(***************************************************************************)
(* Replacing the state file.                                               *)
(***************************************************************************)

\* The rename makes what was prepared the state file.
LEMMA RenameReplaces ==
    ASSUME IInv, NEW p \in Procs, Rename(p)
    PROVE  /\ Prepared(p) /\ pc[p] = "written"
           /\ file' = File("whole", memory[p])
           /\ Pending' = memory[p].pending
           /\ Consumed' = memory[p].consumed
           /\ Voters' = DOMAIN memory[p].votes
           /\ \A q \in Procs : pc'[q] = IF q = p THEN "renamed" ELSE pc[q]
           /\ UNCHANGED <<inputs, lock, job, memory, issued>>
           /\ \A q \in Procs \ {p} : pc[q] \notin HoldsLock
<1>1. pc[p] = "written" /\ file' = tmp[p]
  BY DEF Rename
<1>2. Prepared(p) /\ tmp[p] = File("whole", memory[p])
  BY <1>1 DEF IInv, SaveDiscipline, Saving
<1>3. /\ Pending' = memory[p].pending /\ Consumed' = memory[p].consumed
      /\ Voters' = DOMAIN memory[p].votes
  BY <1>1, <1>2 DEF Pending, Consumed, Voters, File
<1>4. \A q \in Procs : pc'[q] = IF q = p THEN "renamed" ELSE pc[q]
  BY DEF Rename, Goto, IInv, Shapes
<1>5. \A q \in Procs \ {p} : pc[q] \notin HoldsLock
  BY <1>1 DEF IInv, LockDiscipline, HoldsLock
<1>6. QED
  BY <1>1, <1>2, <1>3, <1>4, <1>5 DEF Rename

\* What the state file knows, has spent and has counted only grows with a rename.
LEMMA RenameKeeps ==
    ASSUME IInv, NEW p \in Procs, Rename(p)
    PROVE  /\ \A c : c \in Pending \/ digest(c) \in Consumed =>
                       c \in Pending' \/ digest(c) \in Consumed'
           /\ Consumed \subseteq Consumed'
           /\ Voters \subseteq Voters'
<1>1. Prepared(p) /\ job[p].kind \in {"issue", "cast"}
  BY RenameReplaces DEF IInv, Shapes, HoldsLock
<1>2. CASE job[p].kind = "issue"
  BY <1>1, <1>2, RenameReplaces DEF Prepared, SavesChallenge
<1>3. CASE job[p].kind = "cast"
  BY <1>1, <1>3, RenameReplaces DEF Prepared, SavesVote, VoteOf
<1>4. QED
  BY <1>1, <1>2, <1>3

\* The rename makes the prepared state the state file and preserves the invariant.
LEMMA RenameStep ==
    ASSUME IInv, NEW p \in Procs, Rename(p)
    PROVE  IInv'
<1> USE DEF IInv
<1>1. /\ Prepared(p) /\ pc[p] = "written"
      /\ file' = File("whole", memory[p])
      /\ Pending' = memory[p].pending
      /\ Consumed' = memory[p].consumed
      /\ Voters' = DOMAIN memory[p].votes
      /\ \A q \in Procs : pc'[q] = IF q = p THEN "renamed" ELSE pc[q]
      /\ UNCHANGED <<inputs, lock, job, memory, issued>>
      /\ \A q \in Procs \ {p} : pc[q] \notin HoldsLock
  BY RenameReplaces
<1>2. /\ \A c : c \in Pending \/ digest(c) \in Consumed =>
                  c \in Pending' \/ digest(c) \in Consumed'
      /\ Consumed \subseteq Consumed' /\ Voters \subseteq Voters'
  BY RenameKeeps
<1>3. job[p].kind \in {"issue", "cast"}
  BY <1>1 DEF Shapes, HoldsLock
<1>4. file'.state = "whole" /\ file'.data = memory[p]
  BY <1>1 DEF File
<1>5. Shapes'
  <2>1. pc' \in [Procs -> Labels]
    BY DEF Rename, Goto, Shapes, Labels, HoldsLock
  <2>2. DOMAIN tmp' = Procs
    BY DEF Rename, Shapes
  <2>3. \A q \in Procs : pc'[q] \in HoldsLock \cup {"waiting", "accepted"} =>
          pc[q] \in HoldsLock \cup {"waiting", "accepted"}
    BY <1>1 DEF HoldsLock
  <2>4. QED
    BY <1>1, <2>1, <2>2, <2>3 DEF Shapes, inputs
<1>6. LockDiscipline'
  BY <1>1 DEF LockDiscipline, HoldsLock
<1>7. \A n : Drawn(n) => Drawn(n)'
  BY <1>1 DEF Drawn
<1>8. FileBalanced'
  <2>1. Balanced(file'.data)
    BY <1>1, <1>4 DEF Prepared
  <2>2. ASSUME NEW c \in PossibleChallenges, c \in Pending' \/ digest(c) \in Consumed'
        PROVE  Drawn(c.nonce)'
    <3>1. CASE job[p].kind = "issue"
      <4>1. c \in Pending \/ digest(c) \in Consumed \/ c.nonce = p
        BY <1>1, <2>2, <3>1 DEF Prepared, SavesChallenge
      <4>2. QED
        BY <1>1, <1>7, <4>1 DEF FileBalanced, Drawn
    <3>2. CASE job[p].kind = "cast"
      <4>1. c \in Pending \/ digest(c) \in Consumed
        BY <1>1, <2>2, <3>2, DigestInjective DEF Prepared, SavesVote, VoteOf
      <4>2. QED
        BY <1>7, <4>1 DEF FileBalanced
    <3>3. QED
      BY <1>3, <3>1, <3>2
  <2>3. file' = File(file'.state, file'.data)
    BY <1>1, <1>4
  <2>4. QED
    BY <1>4, <2>1, <2>2, <2>3 DEF FileBalanced
<1>9. SaveDiscipline'
  <2>1. \A q \in Procs : pc'[q] \notin Saving
    BY <1>1 DEF Saving, HoldsLock
  <2>2. ASSUME NEW q \in Procs, pc'[q] = "renamed", job'[q].kind = "issue"
        PROVE  \E c \in PossibleChallenges :
                 issued'[q] = {c} /\ (c \in Pending' \/ digest(c) \in Consumed')
    <3>1. q = p
      BY <1>1, <2>2 DEF HoldsLock
    <3>2. QED
      BY <1>1, <2>2, <3>1 DEF Prepared, SavesChallenge
  <2>3. QED
    BY <2>1, <2>2 DEF SaveDiscipline, Saving
<1>10. VotesCounted'
  <2>1. \A q \in Procs : /\ VoteOf(q)' = VoteOf(q) /\ Presenter(q)' = Presenter(q)
                         /\ job'[q] = job[q]
    BY <1>1 DEF VoteOf, Presenter
  <2>2. Counted' = IF job[p].kind = "cast" THEN Counted \cup {p} ELSE Counted
    BY <1>1, <2>1 DEF Counted
  <2>3. Accepted' = Accepted
    BY <1>1 DEF Accepted
  <2>4. file.state = "whole" => file'.data.proposal_id = file.data.proposal_id
    BY <1>1, <1>4 DEF Prepared
  <2>5. ASSUME NEW q \in Counted
        PROVE  /\ Presenter(q) \in Voters' /\ VoteOf(q) \in Consumed'
               /\ job[q].proposal = file'.data.proposal_id
               /\ job[q].envelope.journal.context_hash =
                    context_hash(GateOf(file'.data.proposal_id).context)
    BY <1>2, <2>4 DEF VotesCounted
  <2> DEFINE InFile(q) ==
               /\ file'.state = "whole"
               /\ Presenter(q)' \in Voters' /\ VoteOf(q)' \in Consumed'
               /\ job'[q].proposal = file'.data.proposal_id
               /\ job'[q].envelope.journal.context_hash =
                    context_hash(GateOf(file'.data.proposal_id).context)
             Distinct(q, r) ==
               Presenter(q)' = Presenter(r)' \/ VoteOf(q)' = VoteOf(r)' => q = r
  <2>a. \A q \in Counted : InFile(q)
    BY <1>4, <2>1, <2>5 DEF Counted
  <2>b. \A q, r \in Counted : Distinct(q, r)
    BY <2>1 DEF Counted, VotesCounted
  <2>c. \A q \in Accepted' : job'[q].kind = "cast"
    BY <2>1, <2>3 DEF Accepted, VotesCounted
  <2>6. CASE job[p].kind = "issue"
    <3>1. Counted' = Counted
      BY <2>2, <2>6
    <3>2. QED
      BY <2>a, <2>b, <2>c, <3>1 DEF VotesCounted
  <2>7. CASE job[p].kind = "cast"
    <3>1. SavesVote(p)
      BY <1>1, <2>7 DEF Prepared
    <3>2. /\ Presenter(p) \in Voters' /\ VoteOf(p) \in Consumed'
          /\ job[p].proposal = file'.data.proposal_id
          /\ job[p].envelope.journal.context_hash =
               context_hash(GateOf(file'.data.proposal_id).context)
      BY <1>1, <2>4, <3>1 DEF SavesVote
    <3>3. \A q \in Counted : Presenter(q) # Presenter(p) /\ VoteOf(q) # VoteOf(p)
      BY <3>1 DEF SavesVote, VotesCounted
    <3>4. \A q \in Counted' : InFile(q)
      BY <1>4, <2>1, <2>2, <2>7, <2>a, <3>2
    <3>5. \A q, r \in Counted' : Distinct(q, r)
      BY <2>1, <2>2, <2>7, <2>b, <3>3 DEF Counted
    <3>6. QED
      BY <2>c, <3>4, <3>5 DEF VotesCounted
  <2>8. QED
    BY <1>3, <2>6, <2>7
<1>11. HandedOutIsKnown'
  BY <1>1, <1>2 DEF HandedOutIsKnown, inputs
<1>12. QED
  BY <1>5, <1>6, <1>8, <1>9, <1>10, <1>11

(***************************************************************************)
(* Invariants.                                                             *)
(***************************************************************************)

\* Lock, state file, temporary files and memories of all invocations agree in every
\* reachable state, and the state file is balanced.
THEOREM Inductive == Spec => []IInv
<1>1. Init => IInv
  <2> SUFFICES ASSUME Init PROVE IInv
    OBVIOUS
  <2> USE DEF Init
  <2>1. Pending = {} /\ Consumed = {} /\ file.state = "absent"
    BY DEF Pending, Consumed, NoFile, File
  <2>2. Shapes
    BY GovernanceBounds DEF Shapes, Labels, HoldsLock
  <2>3. LockDiscipline
    BY GovernanceProcs DEF LockDiscipline, HoldsLock
  <2>4. FileBalanced
    BY <2>1 DEF FileBalanced, NoFile, File
  <2>5. SaveDiscipline
    BY DEF SaveDiscipline, Saving
  <2>6. VotesCounted
    BY DEF VotesCounted, Counted, Accepted
  <2>7. QED
    BY <2>2, <2>3, <2>4, <2>5, <2>6 DEF IInv, HandedOutIsKnown
<1>2. IInv /\ [Next]_vars => IInv'
  <2> SUFFICES ASSUME IInv, [Next]_vars
               PROVE  IInv'
    OBVIOUS
  <2>1. ASSUME Shapes', UNCHANGED <<outputs, lock, file, tmp, job, memory, issued, pc>>
        PROVE  IInv'
    <3>1. Pending' = Pending /\ Consumed' = Consumed /\ Voters' = Voters
      BY <2>1 DEF Pending, Consumed, Voters
    <3>2. Counted' = Counted /\ Accepted' = Accepted
      BY <2>1 DEF Counted, Accepted
    <3>3. FileBalanced'
      BY <2>1, <3>1 DEF IInv, FileBalanced, Drawn
    <3>4. SaveDiscipline'
      BY <2>1, <3>1 DEF IInv, SaveDiscipline, Prepared, SavesChallenge, SavesVote,
                        VoteOf, Presenter
    <3>5. VotesCounted'
      BY <2>1, <3>1, <3>2 DEF IInv, VotesCounted, VoteOf, Presenter
    <3>6. QED
      BY <2>1, <3>1, <3>3, <3>4, <3>5 DEF IInv, LockDiscipline, HandedOutIsKnown
  <2>2. CASE Tick
    <3>1. Shapes'
      BY <2>2, GovernanceBounds DEF Tick, IInv, Shapes
    <3>2. QED
      BY <2>1, <2>2, <3>1 DEF Tick
  <2>3. ASSUME NEW proof \in Proofs, NEW c \in outputs, Present(proof, c)
        PROVE  IInv'
    <3>1. /\ envelopes \subseteq envelopes'
          /\ \A e \in envelopes' : e.challenge \in outputs
      BY <2>3, PresentAnswers DEF Present, IInv, Shapes
    <3>2. UNCHANGED <<clock, outputs, lock, file, tmp, job, memory, issued, pc>>
      BY <2>3 DEF Present
    <3>3. Shapes'
      BY <3>1, <3>2 DEF IInv, Shapes
    <3>4. QED
      BY <2>1, <3>2, <3>3
  <2>4. ASSUME NEW p \in Procs, StartIssue(p) \/ StartCast(p) \/ Step(p) \/ Stop(p)
        PROVE  IInv'
    <3>1. CASE StartIssue(p) \/ StartCast(p) \/ Lock(p)
      BY <3>1, StartStep
    <3>2. CASE Issue(p)
      BY <3>2, IssueStep
    <3>3. CASE Cast(p)
      BY <3>3, CastStep
    <3>4. CASE CreateTmp(p) \/ WriteTmp(p)
      BY <3>4, TmpStep
    <3>5. CASE Rename(p)
      BY <3>5, RenameStep
    <3>6. CASE WriteOutput(p)
      BY <3>6, ExitStep DEF WriteOutput, Ended
    <3>7. CASE ReportVote(p)
      BY <3>7, ExitStep DEF ReportVote, Ended, inputs
    <3>8. CASE Stop(p)
      BY <3>8, ExitStep DEF Stop, Ended, inputs
    <3>9. QED
      BY <2>4, <3>1, <3>2, <3>3, <3>4, <3>5, <3>6, <3>7, <3>8 DEF Step
  <2>5. CASE UNCHANGED vars
    <3>1. Shapes'
      BY <2>5 DEF vars, IInv, Shapes
    <3>2. QED
      BY <2>1, <2>5, <3>1 DEF vars
  <2>6. QED
    BY <2>2, <2>3, <2>4, <2>5 DEF Next
<1>3. QED
  BY <1>1, <1>2, PTL DEF Spec

\* Every value stays in its type, there are never more than MAX_PENDING_CHALLENGES
\* pending challenges, and no way out of the command leaves the lock taken.
THEOREM TypeCorrect == Spec => []TypeOK
<1>1. IInv => TypeOK
  <2> SUFFICES ASSUME IInv PROVE TypeOK
    OBVIOUS
  <2>1. Cardinality(Pending) <= MAX_PENDING_CHALLENGES
    <3>1. CASE file.state = "whole"
      BY <3>1 DEF IInv, FileBalanced, Balanced, Pending
    <3>2. CASE file.state # "whole"
      BY <3>2, FS_EmptySet, GovernanceBounds DEF Pending
    <3>3. QED
      BY <3>1, <3>2
  <2>2. \A p \in Procs : pc[p] \in Ended \cup HoldsLock \cup {"start", "waiting"}
    BY DEF IInv, Shapes, Labels
  <2>3. QED
    BY <2>1, <2>2 DEF IInv, TypeOK, Shapes, LockDiscipline, FileBalanced
<1>2. QED
  BY <1>1, Inductive, PTL

\* As many votes as consumed challenges, and no challenge both pending and consumed,
\* whatever invocations interleave, fail or are killed.
THEOREM Balance == Spec => []BooksBalance
<1>1. IInv => BooksBalance
  <2> SUFFICES ASSUME IInv PROVE BooksBalance
    OBVIOUS
  <2>1. CASE file.state = "whole"
    BY <2>1 DEF IInv, FileBalanced, Balanced, BooksBalance, Pending, Consumed, Voters
  <2>2. CASE file.state # "whole"
    BY <2>2 DEF IInv, FileBalanced, BooksBalance, Pending, Consumed, Voters
  <2>3. QED
    BY <2>1, <2>2
<1>2. QED
  BY <1>1, Inductive, PTL

\* An accepted vote is in the state file, and no presenter has two.
THEOREM EveryVoteCounts == Spec => []AcceptedVotesCount
<1>1. IInv => AcceptedVotesCount
  <2>1. IInv => Accepted \subseteq Counted
    BY DEF IInv, VotesCounted, Accepted, Counted
  <2>2. QED
    BY <2>1 DEF IInv, VotesCounted, AcceptedVotesCount
<1>2. QED
  BY <1>1, Inductive, PTL

\* Accepted votes are for the proposal and the gate the state file belongs to.
THEOREM RightProposal == Spec => []VotesMatchProposal
<1>1. IInv => VotesMatchProposal
  <2>1. IInv => Accepted \subseteq Counted
    BY DEF IInv, VotesCounted, Accepted, Counted
  <2>2. QED
    BY <2>1 DEF IInv, VotesCounted, VotesMatchProposal
<1>2. QED
  BY <1>1, Inductive, PTL

\* A challenge that reached a holder is pending or consumed.
THEOREM HandedOut == Spec => []HandedOutIsKnown
<1>1. IInv => HandedOutIsKnown
  BY DEF IInv
<1>2. QED
  BY <1>1, Inductive, PTL

(***************************************************************************)
(* Steps.                                                                  *)
(***************************************************************************)

\* Only the rename replaces the state file.
LEMMA FileStep ==
    ASSUME [Next]_vars
    PROVE  UNCHANGED file \/ \E p \in Procs : Rename(p)
BY DEF Next, Tick, Present, StartIssue, StartCast, Step, Lock, Issue, Cast, CreateTmp,
       WriteTmp, WriteOutput, ReportVote, Stop, vars

\* A vote in the state file is never changed or removed.
THEOREM VotesFinal == Spec => VotesAreFinal
<1>1. IInv /\ [Next]_vars =>
        [\A k \in Voters : /\ file'.state = "whole"
                           /\ k \in DOMAIN file'.data.votes
                           /\ file'.data.votes[k] = file.data.votes[k]]_file
  <2> SUFFICES ASSUME IInv, NEW p \in Procs, Rename(p), NEW k \in Voters
               PROVE  /\ file'.state = "whole"
                      /\ k \in DOMAIN file'.data.votes
                      /\ file'.data.votes[k] = file.data.votes[k]
    BY FileStep
  <2>1. file' = File("whole", memory[p]) /\ Prepared(p)
    BY RenameReplaces
  <2>2. file'.state = "whole" /\ file'.data = memory[p]
    BY <2>1 DEF File
  <2>3. k \in Voters' /\ Voters' = DOMAIN memory[p].votes
    BY RenameKeeps, RenameReplaces
  <2>4. file.state = "whole"
    BY DEF Voters
  <2>5. QED
    BY <2>1, <2>2, <2>3, <2>4 DEF Prepared
<1>2. QED
  BY <1>1, Inductive, PTL DEF Spec, VotesAreFinal

\* No vote is decided after its challenge expired.
THEOREM NoLateVote == Spec => NoVoteAfterExpiry
<1>1. IInv /\ [Next]_vars =>
        [\A p \in Procs :
           pc[p] = "locked" /\ pc'[p] = "decided" /\ job[p].kind = "cast" =>
             clock <= job[p].envelope.challenge.expires_at_unix_ms]_vars
  <2> SUFFICES ASSUME IInv, [Next]_vars, NEW p \in Procs,
                      pc[p] = "locked", pc'[p] = "decided", job[p].kind = "cast"
               PROVE  clock <= job[p].envelope.challenge.expires_at_unix_ms
    OBVIOUS
  <2>1. Cast(p)
    <3>1. ASSUME NEW q \in Procs, StartIssue(q) \/ StartCast(q) \/ Step(q) \/ Stop(q), q # p
          PROVE  FALSE
      <4>1. PICK l : pc' = [pc EXCEPT ![q] = l]
        BY <3>1 DEF StartIssue, StartCast, Step, Lock, Issue, Cast, CreateTmp, WriteTmp,
                    Rename, WriteOutput, ReportVote, Stop, Exit, Goto
      <4>2. QED
        BY <3>1, <4>1
    <3>2. StartIssue(p) \/ StartCast(p) \/ Step(p) \/ Stop(p)
      BY <3>1 DEF Next, Tick, Present, vars
    <3>3. ~Stop(p)
      BY DEF Stop, Exit, Goto, IInv, Shapes
    <3>4. QED
      BY <3>2, <3>3 DEF StartIssue, StartCast, Step, Lock, Issue, CreateTmp, WriteTmp,
                        Rename, WriteOutput, ReportVote
  <2> DEFINE result == cast_vote(file.data, job[p].gate, job[p].envelope, job[p].choice, clock)
             valid == validate_state(file.data, job[p].gate, job[p].proposal)
             code == IF file.state # "whole" THEN "UnreadableState"
                     ELSE IF valid # "Ok" THEN valid ELSE result.code
  <2>2. code = "Ok"
    <3>1. IF code = "Ok" THEN TRUE ELSE Exit(p, "ended")
      BY <2>1 DEF Cast
    <3>2. ~Exit(p, "ended")
      BY DEF Exit, Goto, IInv, Shapes
    <3>3. QED
      BY <3>1, <3>2
  <2>3. result.code = "Ok"
    <3> HIDE DEF result, valid
    <3>1. QED
      BY <2>2
  <2>4. ~challenge_is_expired(job[p].envelope.challenge, clock)
    BY <2>3, CastAccepts
  <2>5. job[p].envelope.challenge \in PossibleChallenges /\ clock \in Nat
    BY DEF IInv, Shapes, HoldsLock
  <2>6. job[p].envelope.challenge.expires_at_unix_ms \in Nat
    BY <2>5, GovernanceBounds DEF PossibleChallenges, new_challenge
  <2>7. QED
    BY <2>4, <2>5, <2>6 DEF challenge_is_expired
<1>2. QED
  BY <1>1, Inductive, PTL DEF Spec, NoVoteAfterExpiry

(***************************************************************************)
(* Refinement.                                                             *)
(***************************************************************************)

Granted == {<<p, digest(job[p].envelope.challenge)>> : p \in Accepted}

\* Reporting a vote grants its challenge to the invocation ...
LEMMA ReportGrants ==
    ASSUME IInv, NEW p \in Procs, ReportVote(p)
    PROVE  Granted' = Granted \cup {<<p, VoteOf(p)>>}
<1>1. Accepted' = Accepted \cup {p} /\ job' = job
  BY DEF ReportVote, Exit, Goto, IInv, Shapes, Accepted
<1>2. QED
  BY <1>1 DEF Granted, VoteOf

\* ... and no other step grants or withdraws anything.
LEMMA GrantStep ==
    ASSUME IInv, [Next]_vars
    PROVE  Granted' = Granted \/ \E p \in Procs : ReportVote(p)
<1>1. ASSUME Accepted' = Accepted, \A q \in Accepted : job'[q] = job[q]
      PROVE  Granted' = Granted
  BY <1>1 DEF Granted
<1>2. ASSUME NEW p \in Procs, ~ReportVote(p),
             StartIssue(p) \/ StartCast(p) \/ Step(p) \/ Stop(p)
      PROVE  Granted' = Granted
  <2>1. pc[p] # "accepted"
    BY <1>2 DEF StartIssue, StartCast, Step, Lock, Issue, Cast, CreateTmp, WriteTmp,
                Rename, WriteOutput, Stop, Ended
  <2>2. PICK l \in Labels \ {"accepted"} : pc' = [pc EXCEPT ![p] = l]
    BY <1>2 DEF StartIssue, StartCast, Step, Lock, Issue, Cast, CreateTmp, WriteTmp,
                Rename, WriteOutput, Stop, Exit, Goto, Labels, Ended, HoldsLock
  <2>3. Accepted' = Accepted
    BY <2>1, <2>2 DEF Accepted, IInv, Shapes
  <2>4. \A q \in Procs \ {p} : job'[q] = job[q]
    BY <1>2 DEF StartIssue, StartCast, Step, Lock, Issue, Cast, CreateTmp, WriteTmp,
                Rename, WriteOutput, Stop, Exit, Forget, IInv, Shapes
  <2>5. QED
    BY <1>1, <2>1, <2>3, <2>4 DEF Accepted
<1>3. CASE UNCHANGED <<job, pc>>
  BY <1>1, <1>3 DEF Accepted
<1>4. QED
  BY <1>2, <1>3 DEF Next, Tick, Present, vars

\* The service implements SingleUse: a rename that saves a vote is Spend, reporting
\* the vote is Grant, and every other step changes neither.
THEOREM Refinement == Spec => ImplementsSingleUse
<1>1. Init => Abstract!Init
  BY DEF Init, Abstract!Init, Consumed, Accepted, NoFile, File
<1>2. IInv /\ [Next]_vars => [Abstract!Next]_(Abstract!vars)
  <2> SUFFICES ASSUME IInv, [Next]_vars
               PROVE  [Abstract!Next]_(Abstract!vars)
    OBVIOUS
  <2> USE DEF Abstract!Next, Abstract!vars, Abstract!Spend, Abstract!Grant
  <2>1. ASSUME NEW p \in Procs, pc[p] \in HoldsLock, job[p].kind = "cast"
        PROVE  VoteOf(p) \in {digest(c) : c \in PossibleChallenges}
    BY <2>1 DEF IInv, Shapes, VoteOf
  <2>2. ASSUME NEW p \in Procs, Rename(p)
        PROVE  [Abstract!Next]_(Abstract!vars)
    <3>1. Granted' = Granted
      <4>1. ASSUME NEW q \in Procs, ReportVote(q)
            PROVE  FALSE
        BY <2>2, <4>1 DEF Rename, ReportVote, Exit, Goto, IInv, Shapes
      <4>2. QED
        BY <4>1, GrantStep
    <3>2. Prepared(p) /\ pc[p] = "written" /\ Consumed' = memory[p].consumed
      BY <2>2, RenameReplaces
    <3>3. job[p].kind \in {"issue", "cast"}
      BY <3>2 DEF IInv, Shapes, HoldsLock
    <3>4. CASE job[p].kind = "issue"
      <4>1. Consumed' = Consumed
        BY <3>2, <3>4 DEF Prepared, SavesChallenge
      <4>2. QED
        BY <3>1, <4>1 DEF Granted
    <3>5. CASE job[p].kind = "cast"
      <4>1. VoteOf(p) \notin Consumed /\ Consumed' = Consumed \cup {VoteOf(p)}
        BY <3>2, <3>5 DEF Prepared, SavesVote
      <4>2. VoteOf(p) \in {digest(c) : c \in PossibleChallenges}
        BY <2>1, <3>2, <3>5 DEF HoldsLock
      <4>3. QED
        BY <3>1, <4>1, <4>2 DEF Granted
    <3>6. QED
      BY <3>3, <3>4, <3>5
  <2>3. ASSUME NEW p \in Procs, ReportVote(p)
        PROVE  [Abstract!Next]_(Abstract!vars)
    <3>1. pc[p] = "renamed" /\ job[p].kind = "cast" /\ UNCHANGED file
      BY <2>3 DEF ReportVote
    <3>2. Consumed' = Consumed
      BY <3>1 DEF Consumed
    <3>3. Granted' = Granted \cup {<<p, VoteOf(p)>>}
      BY <2>3, ReportGrants
    <3>4. VoteOf(p) \in Consumed
      BY <3>1 DEF IInv, VotesCounted, Counted
    <3>5. \A q \in Procs : <<q, VoteOf(p)>> \notin Granted
      <4>1. \A q \in Accepted : q \in Counted /\ q # p
        BY <3>1 DEF IInv, VotesCounted, Counted, Accepted
      <4>2. \A q \in Accepted : VoteOf(q) # VoteOf(p)
        BY <3>1, <4>1 DEF IInv, VotesCounted, Counted
      <4>3. QED
        BY <4>2 DEF Granted, VoteOf
    <3>6. VoteOf(p) \in {digest(c) : c \in PossibleChallenges}
      BY <2>1, <3>1 DEF HoldsLock
    <3>7. QED
      BY <3>2, <3>3, <3>4, <3>5, <3>6 DEF Granted
  <2>4. CASE UNCHANGED file /\ Granted' = Granted
    BY <2>4 DEF Consumed, Granted
  <2>5. QED
    BY <2>2, <2>3, <2>4, FileStep, GrantStep
<1>3. QED
  BY <1>1, <1>2, Inductive, PTL DEF Spec, ImplementsSingleUse, Abstract!Spec
=============================================================================
