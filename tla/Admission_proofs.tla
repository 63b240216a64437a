-------------------------- MODULE Admission_proofs --------------------------
(***************************************************************************)
(* Proofs about Admission for any groups, members, proofs, nonces and      *)
(* number of receive-verify commands, and any bounds: whoever is admitted  *)
(* answered its own challenge, a challenge admits once, and an answer that *)
(* is sent after its challenge expired admits nobody.                      *)
(*                                                                         *)
(* What Admission takes from the layers below is proved of them: that a    *)
(* transfer yields what a manifest of its sender commits to in             *)
(* Channels_proofs, and that verification is one step in                   *)
(* ReplayVerifier_proofs.                                                  *)
(***************************************************************************)
EXTENDS Admission, Attestation_proofs, TLAPS

(***************************************************************************)
(* The inductive invariant.                                                *)
(***************************************************************************)

Admissions == {None} \cup {Some(a) : a \in Targets}

\* Commands that have read a transfer and not given it up.
Running == {"checked", "verified", "allowed", "done", "failed"}

\* Messages hold retained challenges only and were sent by now, and every retained
\* challenge was issued by now with the lifetime TTL.
Provenance ==
    /\ clock \in 0 .. MaxClock
    /\ \A c \in retained :
         /\ c.issued_at_unix_ms \in 0 .. clock
         /\ c.expires_at_unix_ms = c.issued_at_unix_ms + TTL
    /\ posted \subseteq retained
    /\ held \in [Members -> SUBSET retained]
    /\ \A e \in envelopes :
         /\ e = [sender |-> e.sender, envelope |-> e.envelope, at |-> e.at]
         /\ e.envelope.challenge \in retained
         /\ e.at \in 0 .. clock
    /\ consumed \subseteq {digest(c) : c \in retained}

\* A command that runs works on a retained challenge and an envelope that was sent,
\* by the member it is to admit and for a challenge bound to that admission.
JobIsChecked(i) ==
    /\ job[i].admission \in Admissions
    /\ job[i].expected \in retained
    /\ job[i].sent \in envelopes
    /\ job[i].now \in Nat /\ job[i].sent.at <= job[i].now
    /\ \A a \in job[i].admission :
         /\ job[i].sent.sender = a[2]
         /\ admission_challenge_matches(job[i].sent.envelope.challenge, a[1], a[2])

\* A command past verification answered the challenge it expected, within the
\* challenge's life, and the challenge is spent.
JobIsVerified(i) ==
    /\ job[i].sent.envelope.challenge = job[i].expected
    /\ digest(job[i].expected) \in consumed
    /\ job[i].now <= job[i].expected.expires_at_unix_ms

Commands ==
    /\ pc \in [Invocations -> Labels]
    /\ DOMAIN job = Invocations
    /\ \A i \in Invocations : pc[i] \in Running => JobIsChecked(i)
    /\ \A i \in Past : JobIsVerified(i)

IInv ==
    /\ Provenance
    /\ Commands
    /\ group \subseteq Targets
    /\ ChallengeAdmitsOnce
    /\ AdmittedAnsweredOwnChallenge

(***************************************************************************)
(* Lemmas.                                                                 *)
(***************************************************************************)

\* The binding of a challenge names one group and one member: it matches no two.
LEMMA BindingIsInjective ==
    ASSUME NEW c, NEW a \in Targets, NEW b \in Targets,
           admission_challenge_matches(c, a[1], a[2]),
           admission_challenge_matches(c, b[1], b[2])
    PROVE  a = b
<1>1. admission_binding(c, a[1], a[2]) = admission_binding(c, b[1], b[2])
  BY DEF admission_challenge_matches
<1>2. a[1] = b[1] /\ a[2] = b[2]
  BY <1>1 DEF admission_binding, sha256
<1>3. a = <<a[1], a[2]>> /\ b = <<b[1], b[2]>>
  BY DEF Targets
<1>4. QED
  BY <1>2, <1>3

\* A challenge that the gate owner creates is issued now and lives for TTL.
LEMMA CreatedNow ==
    ASSUME NEW n,
           LET created == create_challenge(Gate, Root, Gate.context.verifier_id, clock,
                                           TTL, RandomNonce(n))
           IN  created.code = "Ok"
    PROVE  LET c == create_challenge(Gate, Root, Gate.context.verifier_id, clock,
                                     TTL, RandomNonce(n)).value
           IN  /\ c.issued_at_unix_ms = clock
               /\ c.expires_at_unix_ms = clock + TTL
               /\ \A g, m : /\ bind_admission_challenge(c, g, m).issued_at_unix_ms = clock
                            /\ bind_admission_challenge(c, g, m).expires_at_unix_ms = clock + TTL
<1> DEFINE made == new_challenge(context_hash(Gate.context), Root,
                                 Gate.context.verifier_id, RandomNonce(n), clock, clock + TTL)
<1>1. create_challenge(Gate, Root, Gate.context.verifier_id, clock, TTL,
                       RandomNonce(n)).value = made
  BY CreateIssues
<1>2. made.issued_at_unix_ms = clock /\ made.expires_at_unix_ms = clock + TTL
  BY DEF new_challenge
<1>3. ASSUME NEW g, NEW m
      PROVE  /\ bind_admission_challenge(made, g, m).issued_at_unix_ms = clock
             /\ bind_admission_challenge(made, g, m).expires_at_unix_ms = clock + TTL
  BY DEF bind_admission_challenge, new_challenge
<1>4. QED
  BY <1>1, <1>2, <1>3

\* What an invocation's accepting decision guarantees.
LEMMA DecisionAccepts ==
    ASSUME NEW i \in Invocations
    PROVE  IF Decision(i).code = "Ok"
           THEN /\ job[i].sent.envelope.challenge = job[i].expected
                /\ digest(job[i].expected) \notin consumed
                /\ Decision(i).consumed = consumed \cup {digest(job[i].expected)}
                /\ ~(job[i].now > job[i].expected.expires_at_unix_ms)
           ELSE Decision(i).consumed = consumed
<1> DEFINE e == job[i].sent.envelope
           x == job[i].expected
           v == Gate.context.verifier_id
           answer == verify(e, x, Gate, v, job[i].now, consumed)
<1>1. Decision(i) = answer
  BY DEF Decision
<1>2. CASE answer.code # "Ok"
  BY <1>1, <1>2, VerifyConsumes
<1>3. CASE answer.code = "Ok"
  <2>1. /\ validate_claims_and_signature(e, x, Gate, v, job[i].now) = "Ok"
        /\ digest(e.challenge) \notin consumed
        /\ answer.consumed = consumed \cup {digest(e.challenge)}
    BY <1>3, VerifyConsumes
  <2>2. e.challenge = x /\ ~challenge_is_expired(x, job[i].now)
    BY <2>1, ClaimsHold
  <2>3. QED
    BY <1>1, <1>3, <2>1, <2>2 DEF challenge_is_expired
<1>4. QED
  BY <1>2, <1>3

(***************************************************************************)
(* Steps of the world: time passes and messages are sent.                  *)
(***************************************************************************)

\* A step that leaves the commands alone and only adds to what was issued and
\* sent keeps everything that is known of them.
LEMMA WorldGrows ==
    ASSUME IInv, Provenance', retained \subseteq retained', envelopes \subseteq envelopes',
           UNCHANGED <<consumed, group, job, pc>>
    PROVE  IInv'
<1>1. Commands'
  BY DEF IInv, Commands, JobIsChecked, JobIsVerified, Past
<1>2. ChallengeAdmitsOnce'
  BY DEF IInv, ChallengeAdmitsOnce, Past
<1>3. AdmittedAnsweredOwnChallenge'
  BY DEF IInv, AdmittedAnsweredOwnChallenge
<1>4. QED
  BY <1>1, <1>2, <1>3 DEF IInv

\* Commands, on the other hand, leave the world alone.
LEMMA WorldStays ==
    ASSUME IInv, UNCHANGED world, consumed' \subseteq {digest(c) : c \in retained}
    PROVE  Provenance'
BY DEF IInv, Provenance, world

\* Time, the gate owner, the members and the conversation preserve IInv.
LEMMA WorldStep ==
    ASSUME IInv,
           \/ Tick
           \/ \E n \in Nonces : \/ ChallengeCreate(n)
                                \/ \E a \in Targets : AdmissionChallenge(n, a[1], a[2])
           \/ \E c \in retained : SendChallenge(c)
           \/ \E m \in Members : \/ \E target : ReceiveChallenge(m, target)
                                 \/ \E proof \in Proofs : Present(m, proof)
                                 \/ \E e \in envelopes : Forward(m, e)
    PROVE  IInv'
<1> USE DEF Provenance
<1>1. CASE Tick
  <2>1. Provenance'
    BY <1>1, AdmissionBounds DEF Tick, IInv
  <2>2. QED
    BY <1>1, <2>1, WorldGrows DEF Tick
<1>2. ASSUME NEW n \in Nonces,
             \/ ChallengeCreate(n)
             \/ \E a \in Targets : AdmissionChallenge(n, a[1], a[2])
      PROVE  IInv'
  <2>1. PICK c : /\ retained' = retained \cup {c}
                 /\ c.issued_at_unix_ms = clock
                 /\ c.expires_at_unix_ms = clock + TTL
    BY <1>2, CreatedNow DEF ChallengeCreate, AdmissionChallenge
  <2>2. UNCHANGED <<clock, posted, held, envelopes, consumed, group, job, pc>>
    BY <1>2 DEF ChallengeCreate, AdmissionChallenge
  <2>3. Provenance'
    BY <2>1, <2>2, AdmissionBounds DEF IInv
  <2>4. QED
    BY <2>1, <2>2, <2>3, WorldGrows
<1>3. ASSUME NEW c \in retained, SendChallenge(c)
      PROVE  IInv'
  <2>1. Provenance'
    BY <1>3 DEF SendChallenge, IInv
  <2>2. QED
    BY <1>3, <2>1, WorldGrows DEF SendChallenge
<1>4. ASSUME NEW m \in Members, NEW target, ReceiveChallenge(m, target)
      PROVE  IInv'
  <2>1. PICK c \in posted : held' = [held EXCEPT ![m] = Some(c)]
    BY <1>4 DEF ReceiveChallenge
  <2>2. Provenance'
    BY <1>4, <2>1 DEF ReceiveChallenge, IInv, Some
  <2>3. QED
    BY <1>4, <2>2, WorldGrows DEF ReceiveChallenge
<1>5. ASSUME NEW m \in Members, NEW proof \in Proofs, Present(m, proof)
      PROVE  IInv'
  <2>1. PICK c \in held[m] :
          /\ present(proof, c, m).code = "Ok"
          /\ envelopes' = envelopes \cup
               {[sender |-> m, envelope |-> present(proof, c, m).value, at |-> clock]}
    BY <1>5 DEF Present
  <2>2. present(proof, c, m).value.challenge = c /\ c \in retained
    BY <2>1, PresentAnswers DEF IInv
  <2>3. UNCHANGED <<clock, retained, posted, held, consumed, group, job, pc>>
    BY <1>5 DEF Present
  <2>4. \A e \in envelopes' :
          /\ e = [sender |-> e.sender, envelope |-> e.envelope, at |-> e.at]
          /\ e.envelope.challenge \in retained
          /\ e.at \in 0 .. clock
    BY <2>1, <2>2 DEF IInv
  <2>5. Provenance'
    BY <2>3, <2>4 DEF IInv
  <2>6. QED
    BY <2>1, <2>3, <2>5, WorldGrows
<1>6. ASSUME NEW m \in Members, NEW e \in envelopes, Forward(m, e)
      PROVE  IInv'
  <2>1. UNCHANGED <<clock, retained, posted, held, consumed, group, job, pc>>
    BY <1>6 DEF Forward
  <2>2. envelopes' = envelopes \cup {[sender |-> m, envelope |-> e.envelope, at |-> clock]}
    BY <1>6 DEF Forward
  <2>3. Provenance'
    BY <2>1, <2>2 DEF IInv
  <2>4. QED
    BY <2>1, <2>2, <2>3, WorldGrows
<1>7. QED
  BY <1>1, <1>2, <1>3, <1>4, <1>5, <1>6

(***************************************************************************)
(* Steps of a receive-verify command.                                      *)
(***************************************************************************)

\* A command that ends without having verified changes nothing that the other
\* commands rest on.
LEMMA CommandEnds ==
    ASSUME IInv, NEW i \in Invocations, End(i), pc[i] \in {"start", "checked"},
           UNCHANGED <<world, consumed, group>>
    PROVE  IInv'
<1>1. \A k \in Invocations : /\ pc'[k] = IF k = i THEN "ended" ELSE pc[k]
                             /\ k # i => job'[k] = job[k]
  BY DEF End, Goto, IInv, Commands
<1>2. Provenance'
  BY WorldStays DEF IInv, Provenance
<1>3. Commands'
  <2>1. pc' \in [Invocations -> Labels] /\ DOMAIN job' = Invocations
    BY DEF End, Goto, IInv, Commands, Labels
  <2>2. QED
    BY <1>1, <2>1 DEF IInv, Commands, JobIsChecked, JobIsVerified, Past, Running, world
<1>4. ChallengeAdmitsOnce'
  BY <1>1 DEF IInv, ChallengeAdmitsOnce, Past
<1>5. QED
  BY <1>2, <1>3, <1>4 DEF IInv, AdmittedAnsweredOwnChallenge, world

\* Neither does one that goes on, or fails, after it has verified.
LEMMA CommandGoesOn ==
    ASSUME IInv, NEW i \in Past, NEW l \in {"allowed", "done", "failed"}, Goto(i, l),
           UNCHANGED <<world, consumed, group, job>>
    PROVE  IInv'
<1>1. i \in Invocations /\ \A k \in Invocations : pc'[k] = IF k = i THEN l ELSE pc[k]
  BY DEF Goto, IInv, Commands, Past
<1>2. Past' = Past
  BY <1>1 DEF Past
<1>3. Provenance'
  BY WorldStays DEF IInv, Provenance
<1>4. Commands'
  BY <1>1, <1>2 DEF IInv, Commands, JobIsChecked, JobIsVerified, Past, Running, world,
                    Goto, Labels
<1>5. QED
  BY <1>2, <1>3, <1>4
  DEF IInv, ChallengeAdmitsOnce, AdmittedAnsweredOwnChallenge, world

\* A command that receives a transfer works on challenges and messages that exist.
LEMMA ReceiveStep ==
    ASSUME IInv, NEW i \in Invocations, NEW admission \in Admissions, Receive(i, admission)
    PROVE  IInv'
<1>1. PICK c \in retained, sent \in envelopes : Check(i, admission, c, sent, clock)
  BY DEF Receive
<1>2. pc[i] = "start" /\ UNCHANGED <<world, consumed, group>>
  BY DEF Receive
<1>3. CASE End(i)
  BY <1>2, <1>3, CommandEnds
<1>4. CASE ~End(i)
  <2>1. /\ \A a \in admission :
             admission_challenge_matches(sent.envelope.challenge, a[1], a[2])
        /\ job' = [job EXCEPT ![i] = [admission |-> admission, expected |-> c,
                                      sent |-> sent, now |-> clock]]
        /\ pc' = [pc EXCEPT ![i] = "checked"]
        /\ from_member(sent, admission)
    BY <1>1, <1>4 DEF Check, bound_to, Goto
  <2>2. \A k \in Invocations : /\ pc'[k] = IF k = i THEN "checked" ELSE pc[k]
                               /\ k # i => job'[k] = job[k]
    BY <2>1 DEF IInv, Commands
  <2>3. job'[i] = [admission |-> admission, expected |-> c, sent |-> sent, now |-> clock]
    BY <2>1 DEF IInv, Commands
  <2>4. Past' = Past
    BY <1>2, <2>2 DEF Past
  <2>5. Provenance'
    BY <1>2, WorldStays DEF IInv, Provenance
  <2>6. JobIsChecked(i)'
    BY <1>1, <1>2, <2>1, <2>3 DEF JobIsChecked, from_member, IInv, Provenance, world
  <2>7. Commands'
    <3>1. pc' \in [Invocations -> Labels] /\ DOMAIN job' = Invocations
      BY <2>1 DEF IInv, Commands, Labels
    <3>2. QED
      BY <1>2, <2>2, <2>4, <2>6, <3>1
      DEF IInv, Commands, JobIsChecked, JobIsVerified, Past, world
  <2>8. QED
    BY <1>2, <2>2, <2>4, <2>5, <2>7
    DEF IInv, ChallengeAdmitsOnce, AdmittedAnsweredOwnChallenge, world, Past
<1>5. QED
  BY <1>3, <1>4

\* A command that verifies spends a challenge no command before it has spent.
LEMMA VerifyStep ==
    ASSUME IInv, NEW i \in Invocations, Verify(i)
    PROVE  IInv'
<1>1. pc[i] = "checked" /\ UNCHANGED <<world, group>> /\ consumed' = Decision(i).consumed
  BY DEF Verify
<1>2. CASE Decision(i).code # "Ok"
  <2>1. consumed' = consumed
    BY <1>1, <1>2, DecisionAccepts
  <2>2. End(i)
    BY <1>2 DEF Verify, Verdict
  <2>3. QED
    BY <1>1, <2>1, <2>2, CommandEnds
<1>3. CASE Decision(i).code = "Ok"
  <2>1. /\ job[i].sent.envelope.challenge = job[i].expected
        /\ digest(job[i].expected) \notin consumed
        /\ consumed' = consumed \cup {digest(job[i].expected)}
        /\ ~(job[i].now > job[i].expected.expires_at_unix_ms)
    BY <1>1, <1>3, DecisionAccepts
  <2>2. pc' = [pc EXCEPT ![i] = "verified"] /\ job' = job
    BY <1>3 DEF Verify, Verdict, Goto
  <2>3. \A k \in Invocations : pc'[k] = IF k = i THEN "verified" ELSE pc[k]
    BY <2>2 DEF IInv, Commands
  <2>4. Past' = Past \cup {i}
    BY <2>3 DEF Past
  <2>5. JobIsChecked(i)
    BY <1>1 DEF IInv, Commands, Running
  <2>6. Provenance'
    BY <1>1, <2>1, <2>5, WorldStays DEF JobIsChecked, IInv, Provenance
  <2>7. JobIsVerified(i)'
    <3>1. /\ job[i].now \in Nat
          /\ job[i].expected.expires_at_unix_ms \in Nat
      BY <2>5, AdmissionBounds DEF JobIsChecked, IInv, Provenance
    <3>2. QED
      BY <2>1, <2>2, <3>1 DEF JobIsVerified
  <2>8. \A k \in Past : digest(job[k].expected) \in consumed
    BY DEF IInv, Commands, JobIsVerified
  <2>9. ChallengeAdmitsOnce'
    BY <2>1, <2>2, <2>4, <2>8 DEF IInv, ChallengeAdmitsOnce
  <2>10. Commands'
    <3>1. pc' \in [Invocations -> Labels]
      BY <2>2 DEF IInv, Commands, Labels
    <3>2. \A k \in Invocations : pc'[k] \in Running => JobIsChecked(k)'
      BY <1>1, <2>2, <2>3, <2>5 DEF IInv, Commands, JobIsChecked, Running, world
    <3>3. \A k \in Past' : JobIsVerified(k)'
      BY <2>1, <2>2, <2>4, <2>7 DEF IInv, Commands, JobIsVerified
    <3>4. QED
      BY <2>2, <3>1, <3>2, <3>3 DEF IInv, Commands
  <2>11. AdmittedAnsweredOwnChallenge'
    BY <1>1, <2>1 DEF IInv, AdmittedAnsweredOwnChallenge, world
  <2>12. QED
    BY <1>1, <2>6, <2>9, <2>10, <2>11 DEF IInv
<1>4. QED
  BY <1>2, <1>3

\* A member is added by a command whose challenge was bound to that group and
\* member, which is past verification.
LEMMA AddStep ==
    ASSUME IInv, NEW i \in Invocations, AddGroupMember(i)
    PROVE  IInv'
<1>1. /\ pc[i] = "allowed"
      /\ group' = group \cup job[i].admission
      /\ Goto(i, "done") \/ Goto(i, "failed")
      /\ UNCHANGED <<world, consumed, job>>
  BY DEF AddGroupMember
<1>2. i \in Past /\ JobIsChecked(i) /\ JobIsVerified(i)
  BY <1>1 DEF IInv, Commands, Past, Running
<1>3. Past' = Past /\ Commands'
  <2>1. PICK l \in {"done", "failed"} : pc' = [pc EXCEPT ![i] = l]
    BY <1>1 DEF Goto
  <2>2. \A k \in Invocations : pc'[k] = IF k = i THEN l ELSE pc[k]
    BY <2>1 DEF IInv, Commands
  <2>3. Past' = Past
    BY <1>2, <2>2 DEF Past
  <2>4. QED
    BY <1>1, <2>1, <2>2, <2>3
    DEF IInv, Commands, JobIsChecked, JobIsVerified, Running, world, Labels
<1>4. Provenance'
  BY <1>1, WorldStays DEF IInv, Provenance
<1>5. job[i].admission \subseteq Targets
  BY <1>2 DEF JobIsChecked, Admissions, None, Some
<1>6. AdmittedAnsweredOwnChallenge'
  <2> SUFFICES ASSUME NEW a \in group'
               PROVE  \E c \in retained, sent \in envelopes :
                        /\ digest(c) \in consumed
                        /\ \A b \in Targets :
                             admission_challenge_matches(c, b[1], b[2]) <=> a = b
                        /\ sent.sender = a[2]
                        /\ sent.envelope.challenge = c
    BY <1>1 DEF AdmittedAnsweredOwnChallenge, world
  <2>1. CASE a \in group
    BY <2>1 DEF IInv, AdmittedAnsweredOwnChallenge
  <2>2. CASE a \in job[i].admission
    <3>1. /\ job[i].expected \in retained /\ job[i].sent \in envelopes
          /\ digest(job[i].expected) \in consumed
          /\ job[i].sent.sender = a[2]
          /\ job[i].sent.envelope.challenge = job[i].expected
          /\ admission_challenge_matches(job[i].expected, a[1], a[2])
      BY <1>2, <2>2 DEF JobIsChecked, JobIsVerified
    <3>2. \A b \in Targets : admission_challenge_matches(job[i].expected, b[1], b[2])
                               <=> a = b
      BY <1>5, <2>2, <3>1, BindingIsInjective
    <3>3. QED
      BY <3>1, <3>2
  <2>3. QED
    BY <1>1, <2>1, <2>2
<1>7. QED
  BY <1>1, <1>3, <1>4, <1>5, <1>6 DEF IInv, ChallengeAdmitsOnce

(***************************************************************************)
(* Theorems.                                                               *)
(***************************************************************************)

\* The invariant of admission: what was sent, what the commands work on and what
\* is spent agree in every reachable state.
THEOREM Inductive == Spec => []IInv
<1>1. Init => IInv
  BY AdmissionBounds
  DEF Init, IInv, Provenance, Commands, Past, Running, Labels, ChallengeAdmitsOnce,
      AdmittedAnsweredOwnChallenge, None
<1>2. IInv /\ [Next]_vars => IInv'
  <2> SUFFICES ASSUME IInv, [Next]_vars
               PROVE  IInv'
    OBVIOUS
  <2>1. ASSUME NEW i \in Invocations, NEW admission \in Admissions, Receive(i, admission)
        PROVE  IInv'
    BY <2>1, ReceiveStep
  <2>2. ASSUME NEW i \in Invocations, Verify(i)
        PROVE  IInv'
    BY <2>2, VerifyStep
  <2>3. ASSUME NEW i \in Invocations, WriteEnvelope(i)
        PROVE  IInv'
    BY <2>3, CommandGoesOn DEF WriteEnvelope, Past
  <2>4. ASSUME NEW i \in Invocations, AddGroupMember(i)
        PROVE  IInv'
    BY <2>4, AddStep
  <2>5. ASSUME NEW i \in Invocations, Fail(i)
        PROVE  IInv'
    BY <2>5, CommandEnds, CommandGoesOn DEF Fail, Past
  <2>6. CASE UNCHANGED vars
    BY <2>6, WorldGrows DEF vars, IInv, Provenance
  <2>7. QED
    BY <2>1, <2>2, <2>3, <2>4, <2>5, <2>6, WorldStep DEF Next, Admissions
<1>3. QED
  BY <1>1, <1>2, PTL DEF Spec

\* Every value stays in its type; the cache holds digests of retained challenges.
THEOREM TypeCorrect == Spec => []TypeOK
<1>1. IInv => TypeOK
  BY DEF IInv, TypeOK, Provenance, Commands
<1>2. QED
  BY <1>1, Inductive, PTL

\* Only an answer, from the member itself, to a challenge bound to that group and
\* member gets it into the group, for any groups and members.
THEOREM OwnChallengeOnly == Spec => []AdmittedAnsweredOwnChallenge
<1>1. IInv => AdmittedAnsweredOwnChallenge
  BY DEF IInv
<1>2. QED
  BY <1>1, Inductive, PTL

\* No two receive-verify commands get past verification for one challenge.
THEOREM AdmitsOnce == Spec => []ChallengeAdmitsOnce
<1>1. IInv => ChallengeAdmitsOnce
  BY DEF IInv
<1>2. QED
  BY <1>1, Inductive, PTL

\* An answer that is sent after its challenge has expired gets nobody past
\* verification.
THEOREM NoLateAnswer == Spec => []LateAnswersAdmitNobody
<1>1. IInv => LateAnswersAdmitNobody
  <2> SUFFICES ASSUME IInv, NEW i \in Past
               PROVE  job[i].sent.at <= job[i].expected.expires_at_unix_ms
    BY DEF LateAnswersAdmitNobody
  <2>1. JobIsChecked(i) /\ JobIsVerified(i)
    BY DEF IInv, Commands, Past, Running
  <2>2. /\ job[i].sent.at \in Nat /\ job[i].now \in Nat
        /\ job[i].expected.expires_at_unix_ms \in Nat
    BY <2>1, AdmissionBounds DEF JobIsChecked, IInv, Provenance
  <2>3. QED
    BY <2>1, <2>2 DEF JobIsChecked, JobIsVerified
<1>2. QED
  BY <1>1, Inductive, PTL
=============================================================================
