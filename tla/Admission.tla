----------------------------- MODULE Admission ------------------------------
(***************************************************************************)
(* Token-gated chat admission: the gate owner issues a challenge bound to  *)
(* a group and a member, posts it, the member receives it and answers over *)
(* its own chat identity, and receive-verify checks the binding and the    *)
(* presentation, consumes the challenge, writes the envelope, prints ALLOW *)
(* and asks the chat module to add the member.                             *)
(*                                                                         *)
(* Two lower layers appear by what they promise: a transfer yields an      *)
(* envelope that a manifest of the named sender commits to (Messaging,     *)
(* ReceivedWasPacked), and verification with its replay cache is one step  *)
(* (ReplayVerifier, ImplementsSingleUse).                                  *)
(***************************************************************************)
EXTENDS Attestation, FiniteSets

CONSTANTS
    Groups, Members,     \* a member is a chat address that owns one presenter key
    Gate, Root, TTL,
    Proofs,              \* proofs the members hold
    Nonces,              \* random values drawn for challenges, each once
    Invocations,         \* receive-verify commands
    NoJob,
    MaxClock, MaxSent    \* bounds on the clock and on the envelopes sent

ASSUME AdmissionBounds == MaxClock \in Nat /\ TTL \in Nat

VARIABLES
    clock,
    retained,    \* challenge files of the gate owner
    posted,      \* challenges sent over the conversation
    held,        \* each member's challenge file
    envelopes,   \* [sender, envelope, at]: presentations sent over the conversation,
                 \* with the time of sending as history
    consumed,    \* the replay cache
    group,       \* <<group, member>> pairs the chat module was asked to admit
    job,         \* arguments and envelope of each receive-verify, kept once it verified
    pc

vars == <<clock, retained, posted, held, envelopes, consumed, group, job, pc>>
world == <<clock, retained, posted, held, envelopes>>

---------------------------------------------------------------------------
(* A nonce is a random half and a half that is random or the binding.      *)

Nonce(prefix, suffix) == [prefix |-> prefix, suffix |-> suffix]
RandomNonce(n) == Nonce(n, sha256("Random", <<n>>))

\* Mutant: the group is left out.
admission_binding_any_group(c, g, member) ==
    sha256("LogosChatAdmission",
           <<c.version, c.gate_context_hash, c.verifier_id, c.issued_at_unix_ms,
             c.expires_at_unix_ms, c.nonce.prefix, member>>)

admission_binding(c, g, member) ==
    sha256("LogosChatAdmission",
           <<c.version, c.gate_context_hash, c.verifier_id, c.issued_at_unix_ms,
             c.expires_at_unix_ms, c.nonce.prefix, g, member>>)

bind_admission_challenge(c, g, member) ==
    [c EXCEPT !.nonce = Nonce(@.prefix, admission_binding(c, g, member))]

admission_challenge_matches(c, g, member) ==
    c.nonce.suffix = admission_binding(c, g, member)

\* latest_challenge of what the conversation returned; of equally late ones the
\* order in the conversation decides.
latest_challenge(seen, c) ==
    /\ c \in seen
    /\ has_valid_window(c)
    /\ \A d \in seen : has_valid_window(d) => d.issued_at_unix_ms <= c.issued_at_unix_ms

---------------------------------------------------------------------------

Init ==
    /\ clock = 0
    /\ retained = {}
    /\ posted = {}
    /\ held = [m \in Members |-> None]
    /\ envelopes = {}
    /\ consumed = {}
    /\ group = {}
    /\ job = [i \in Invocations |-> NoJob]
    /\ pc = [i \in Invocations |-> "start"]

\* Time passes in leaps that outlive a challenge; AttestationFlow looks at the
\* exact bounds.
Tick ==
    /\ clock + TTL < MaxClock
    /\ clock' = clock + TTL + 1
    /\ UNCHANGED <<retained, posted, held, envelopes, consumed, group, job, pc>>

Fresh(n) == \A c \in retained : c.nonce.prefix # n

\* challenge create: a challenge bound to nobody.
ChallengeCreate(n) ==
    LET created == create_challenge(Gate, Root, Gate.context.verifier_id, clock, TTL,
                                    RandomNonce(n))
    IN  /\ Fresh(n)
        /\ created.code = "Ok"
        /\ retained' = retained \cup {created.value}
        /\ UNCHANGED <<clock, posted, held, envelopes, consumed, group, job, pc>>

\* messaging admission-challenge.
AdmissionChallenge(n, g, member) ==
    LET created == create_challenge(Gate, Root, Gate.context.verifier_id, clock, TTL,
                                    RandomNonce(n))
    IN  /\ Fresh(n)
        /\ created.code = "Ok"
        /\ retained' = retained \cup
             {bind_admission_challenge(created.value, g, member)}
        /\ UNCHANGED <<clock, posted, held, envelopes, consumed, group, job, pc>>

\* messaging send-challenge.
SendChallenge(c) ==
    /\ c \notin posted
    /\ posted' = posted \cup {c}
    /\ UNCHANGED <<clock, retained, held, envelopes, consumed, group, job, pc>>

\* messaging receive-challenge, with or without --gate, --group-id and
\* --member-address; the conversation may have lost or forgotten challenges.
ReceiveChallenge(member, target) ==
    /\ \E seen \in SUBSET posted, c \in posted :
         /\ latest_challenge(seen, c)
         /\ \A g \in target :
              /\ c.gate_context_hash = context_hash(Gate.context)
              /\ c.verifier_id = Gate.context.verifier_id
              /\ admission_challenge_matches(c, g, member)
              /\ ~challenge_is_expired(c, clock)
         /\ held' = [held EXCEPT ![member] = Some(c)]
    /\ UNCHANGED <<clock, retained, posted, envelopes, consumed, group, job, pc>>

\* present and messaging send: a member signs with its own proof and sends the
\* envelope; an envelope that reached a member may also be sent on.
Present(member, proof) ==
    /\ Cardinality(envelopes) < MaxSent
    /\ \E c \in held[member] :
         LET made == present(proof, c, member)
         IN  /\ made.code = "Ok"
             /\ envelopes' = envelopes \cup
                  {[sender |-> member, envelope |-> made.value, at |-> clock]}
    /\ UNCHANGED <<clock, retained, posted, held, consumed, group, job, pc>>

Forward(member, received) ==
    /\ Cardinality(envelopes) < MaxSent
    /\ envelopes' = envelopes \cup
         {[sender |-> member, envelope |-> received.envelope, at |-> clock]}
    /\ UNCHANGED <<clock, retained, posted, held, consumed, group, job, pc>>

---------------------------------------------------------------------------
(* receive-verify.                                                         *)

Goto(i, label) == pc' = [pc EXCEPT ![i] = label]

\* A command that ends without having verified leaves nothing behind.
End(i) == Goto(i, "ended") /\ job' = [job EXCEPT ![i] = NoJob]

\* With --admit-address the expected sender is the member.
from_member(sent, admission) == \A a \in admission : sent.sender = a[2]

bound_to(envelope, admission) ==
    \A a \in admission : admission_challenge_matches(envelope.challenge, a[1], a[2])

\* What a command does with a transfer: check the binding of its challenge, and hand
\* it to verification with a reading of the clock.
Check(i, admission, c, sent, now) ==
    /\ from_member(sent, admission)
    /\ IF bound_to(sent.envelope, admission)
       THEN /\ job' = [job EXCEPT ![i] = [admission |-> admission, expected |-> c,
                                          sent |-> sent, now |-> now]]
            /\ Goto(i, "checked")
       ELSE End(i)

\* Mutant: the clock is read before the transfer, at any time since the command
\* could read the challenge.
ReceiveOldClock(i, admission) ==
    /\ pc[i] = "start"
    /\ \E c \in retained, sent \in envelopes :
         \E before \in c.issued_at_unix_ms .. clock : Check(i, admission, c, sent, before)
    /\ UNCHANGED <<world, consumed, group>>

\* Read the retained challenge, wait for a transfer, check it and read the clock.
\* Challenge files do not change, so that the wait is no step of its own.
Receive(i, admission) ==
    /\ pc[i] = "start"
    /\ \E c \in retained, sent \in envelopes : Check(i, admission, c, sent, clock)
    /\ UNCHANGED <<world, consumed, group>>

Decision(i) ==
    verify(job[i].sent.envelope, job[i].expected, Gate, Gate.context.verifier_id,
           job[i].now, consumed)

Verdict(i) ==
    IF Decision(i).code = "Ok" THEN Goto(i, "verified") /\ UNCHANGED job ELSE End(i)

\* Mutants: the member is consumed instead of the challenge; the replay cache is
\* not saved.
VerifySpendsMember(i) ==
    /\ pc[i] = "checked"
    /\ consumed' = consumed \cup {job[i].sent.sender}
    /\ Verdict(i)
    /\ UNCHANGED <<world, group>>

VerifyUnsaved(i) ==
    /\ pc[i] = "checked"
    /\ Verdict(i)
    /\ UNCHANGED <<world, consumed, group>>

\* verify_received_presentation.
Verify(i) ==
    /\ pc[i] = "checked"
    /\ consumed' = Decision(i).consumed
    /\ Verdict(i)
    /\ UNCHANGED <<world, group>>

\* write_presentation, then ALLOW.
WriteEnvelope(i) ==
    /\ pc[i] = "verified"
    /\ Goto(i, IF job[i].admission = None THEN "done" ELSE "allowed")
    /\ UNCHANGED <<world, consumed, group, job>>

\* add_group_member; the request may take effect although its reply is lost.
AddGroupMember(i) ==
    /\ pc[i] = "allowed"
    /\ group' = group \cup job[i].admission
    /\ \/ Goto(i, "done") \/ Goto(i, "failed")
    /\ UNCHANGED <<world, consumed, job>>

\* A write or a request fails, or the command is killed.
Fail(i) ==
    /\ \/ pc[i] = "checked" /\ End(i)
       \/ pc[i] \in {"verified", "allowed"} /\ Goto(i, "failed") /\ UNCHANGED job
    /\ UNCHANGED <<world, consumed, group>>

Targets == Groups \X Members

Next ==
    \/ Tick
    \/ \E n \in Nonces : \/ ChallengeCreate(n)
                         \/ \E a \in Targets : AdmissionChallenge(n, a[1], a[2])
    \/ \E c \in retained : SendChallenge(c)
    \/ \E m \in Members : \/ ReceiveChallenge(m, None)
                          \/ \E g \in Groups : ReceiveChallenge(m, Some(g))
                          \/ \E proof \in Proofs : Present(m, proof)
                          \/ \E e \in envelopes : Forward(m, e)
    \/ \E i \in Invocations :
         \/ Receive(i, None)
         \/ \E a \in Targets : Receive(i, Some(a))
         \/ Verify(i) \/ WriteEnvelope(i) \/ AddGroupMember(i) \/ Fail(i)

Spec == Init /\ [][Next]_vars

---------------------------------------------------------------------------
(* Properties.                                                             *)

Labels == {"start", "checked", "ended", "verified", "allowed", "done", "failed"}

\* Types, and that the cache holds digests of retained challenges only.
TypeOK ==
    /\ clock \in 0 .. MaxClock
    /\ group \subseteq Targets
    /\ posted \subseteq retained
    /\ consumed \subseteq {digest(c) : c \in retained}
    /\ \A i \in Invocations : pc[i] \in Labels

\* Whoever is admitted to a group sent, over its own chat identity, the answer to a
\* challenge the gate owner bound to that group and member and to no other, and
\* that challenge is spent.  Answers to others' challenges, envelopes forwarded by
\* another identity and unbound challenges admit nobody.
AdmittedAnsweredOwnChallenge ==
    \A a \in group :
      \E c \in retained, sent \in envelopes :
        /\ digest(c) \in consumed
        /\ \A b \in Targets : admission_challenge_matches(c, b[1], b[2]) <=> a = b
        /\ sent.sender = a[2]
        /\ sent.envelope.challenge = c

\* One challenge admits one time: no two invocations get past verification, and so
\* print ALLOW or request an admission, for the same challenge, even when the first
\* one failed to write its envelope or to add the member.
Past == {i \in Invocations : pc[i] \in {"verified", "allowed", "done", "failed"}}
ChallengeAdmitsOnce ==
    \A i, j \in Past : job[i].expected = job[j].expected => i = j

\* An answer that is sent, or sent on, only after its challenge has expired admits
\* nobody, not even through a receive-verify that was started before and waited for
\* it: the clock is read once the transfer is complete.
LateAnswersAdmitNobody ==
    \A i \in Past : job[i].sent.at <= job[i].expected.expires_at_unix_ms
=============================================================================
