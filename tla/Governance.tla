----------------------------- MODULE Governance -----------------------------
(***************************************************************************)
(* The governance service: concurrent `challenge` and `cast` invocations   *)
(* that share one state file with the pending challenges, the consumed     *)
(* challenges and the votes of one proposal.                               *)
(*                                                                         *)
(* As in ReplayVerifier an element of Procs is one invocation.  Unlike the *)
(* off-chain verifier it reads the clock while it holds the lock and keeps *)
(* the lock until it exits; `challenge` writes the state file first and    *)
(* the challenge file for the holder second.                               *)
(***************************************************************************)
EXTENDS Attestation, FiniteSets

CONSTANTS
    Procs, NoProc,
    Proposals,       \* proposal ids
    GateOf(_),       \* the gate configuration written for a proposal
    Arguments,       \* pairs <<proposal id, proposal whose gate file is given>>
    Root, Proofs, TTL,
    Choices,
    NoJob, NoState,
    MAX_PENDING_CHALLENGES,
    MaxClock         \* bound on the clock

ASSUME GovernanceProcs == NoProc \notin Procs

ASSUME GovernanceBounds == {TTL, MaxClock, MAX_PENDING_CHALLENGES} \subseteq Nat

\* A gate file names in gate_id the proposal it was written for.
ASSUME GateAssumption ==
    /\ Arguments \subseteq Proposals \X Proposals
    /\ \A x \in Proposals : GateOf(x).context.gate_id = <<"proposal", x>>

VARIABLES
    clock,
    outputs,     \* challenge files handed to holders
    envelopes,   \* presentations holders made
    lock,        \* holder of the lock on <state>.lock
    file,        \* the state file
    tmp,         \* each invocation's <state>.tmp-<pid>
    job,         \* arguments of each invocation
    memory,      \* the GovernanceState each invocation is about to save
    issued,      \* the challenge each `challenge` invocation created
    pc

vars == <<clock, outputs, envelopes, lock, file, tmp, job, memory, issued, pc>>
inputs == <<clock, outputs, envelopes>>

File(state, data) == [state |-> state, data |-> data]
NoFile == File("absent", NoState)

PossibleChallenges ==
    {new_challenge(context_hash(GateOf(x).context), Root, GateOf(x).context.verifier_id,
                   p, t, t + TTL) : x \in Proposals, p \in Procs, t \in 0 .. MaxClock}

Ended == {"accepted", "ended"}
HoldsLock == {"locked", "decided", "writing", "written", "renamed"}

---------------------------------------------------------------------------
(* GovernanceState.                                                        *)

\* Mutant: any valid gate file is taken for the proposal's.
validate_binding_any(gate, proposal) == IF ~validate_gate(gate) THEN "InvalidGate" ELSE "Ok"

\* validate_binding: the gate must have been written for this proposal.
validate_binding(gate, proposal) ==
    IF ~validate_gate(gate) THEN "InvalidGate"
    ELSE IF /\ gate.context.application_id = "proofgate-governance"
            /\ gate.context.gate_id = <<"proposal", proposal>>
            /\ gate.context.verifier_id = <<"proofgate-governance", proposal>>
         THEN "Ok" ELSE "WrongProposalBinding"

new_state(gate, proposal) ==
    [proposal_id |-> proposal, gate_context_hash |-> context_hash(gate.context),
     pending |-> {}, consumed |-> {}, votes |-> << >>]

validate_state(state, gate, proposal) ==
    IF validate_binding(gate, proposal) # "Ok" THEN validate_binding(gate, proposal)
    ELSE IF \/ state.proposal_id # proposal
            \/ state.gate_context_hash # context_hash(gate.context)
         THEN "StateMismatch" ELSE "Ok"

\* Mutant: one challenge too many.
pending_full_late(state) == Cardinality(state.pending) > MAX_PENDING_CHALLENGES

pending_full(state) == Cardinality(state.pending) >= MAX_PENDING_CHALLENGES

\* issue_challenge: the verdict, the challenge and the new state.
issue_challenge(state, gate, now, nonce) ==
    LET created == create_challenge(gate, Root, gate.context.verifier_id,
                                    now, TTL, nonce)
        code == first_failure(<<
          <<pending_full(state), "TooManyPendingChallenges">>,
          <<created.code # "Ok", created.code>> >>)
    IN  [code      |-> code,
         challenge |-> created.value,
         state     |-> IF code = "Ok"
                       THEN [state EXCEPT !.pending = @ \cup {created.value}]
                       ELSE state]

has_voted(state, presenter) == presenter \in DOMAIN state.votes

\* The three changes of an accepted vote.
\* Mutant: the challenge stays pending.
record_vote_pending(state, challenge, presenter, consumed, record) ==
    [state EXCEPT !.consumed = consumed,
                  !.votes = [k \in DOMAIN @ \cup {presenter} |->
                               IF k = presenter THEN record ELSE @[k]]]

record_vote(state, challenge, presenter, consumed, record) ==
    [state EXCEPT !.pending = @ \ {challenge},
                  !.consumed = consumed,
                  !.votes = [k \in DOMAIN @ \cup {presenter} |->
                               IF k = presenter THEN record ELSE @[k]]]

\* cast_vote: the verdict and the new state.  The expected challenge is the
\* one stored under the envelope's challenge digest.
cast_vote(state, gate, envelope, choice, now) ==
    LET challenge == envelope.challenge
        presenter == envelope.journal.presenter_public_key
        verified == verify(envelope, challenge, gate, gate.context.verifier_id,
                           now, state.consumed)
        code == first_failure(<<
          <<challenge \notin state.pending, "UnknownChallenge">>,
          <<has_voted(state, presenter), "DuplicateVote">>,
          <<verified.code # "Ok", verified.code>> >>)
        record == [choice |-> choice, cast_at_unix_ms |-> now]
    IN  [code  |-> code,
         state |-> IF code = "Ok"
                   THEN record_vote(state, challenge, presenter,
                                    verified.consumed, record)
                   ELSE state]

---------------------------------------------------------------------------

Init ==
    /\ clock = 0
    /\ outputs = {}
    /\ envelopes = {}
    /\ lock = NoProc
    /\ file = NoFile
    /\ tmp = [p \in Procs |-> NoFile]
    /\ job = [p \in Procs |-> NoJob]
    /\ memory = [p \in Procs |-> NoState]
    /\ issued = [p \in Procs |-> None]
    /\ pc = [p \in Procs |-> "start"]

Tick ==
    /\ clock < MaxClock
    /\ clock' = clock + 1
    /\ UNCHANGED <<outputs, envelopes, lock, file, tmp, job, memory, issued, pc>>

\* A holder answers a challenge file it was handed.
Present(proof, challenge) ==
    LET result == present(proof, challenge, proof.journal.presenter_public_key)
    IN  /\ result.code = "Ok"
        /\ envelopes' = envelopes \cup {result.value}
        /\ UNCHANGED <<clock, outputs, lock, file, tmp, job, memory, issued, pc>>

Goto(p, label) == pc' = [pc EXCEPT ![p] = label]

Forget(f, p, value) == [f EXCEPT ![p] = value]

\* Leave the command: the lock, if held, is released with the File that holds
\* it, and the process' memory is gone.  Of an accepted vote the arguments are
\* kept for the properties.
Exit(p, label) ==
    /\ Goto(p, label)
    /\ lock' = IF lock = p THEN NoProc ELSE lock
    /\ job' = IF label = "accepted" THEN job ELSE Forget(job, p, NoJob)
    /\ memory' = Forget(memory, p, NoState)
    /\ issued' = Forget(issued, p, None)

StartIssue(p) ==
    /\ pc[p] = "start"
    /\ \E a \in Arguments :
         job' = [job EXCEPT ![p] = [kind |-> "issue", proposal |-> a[1],
                                    gate |-> GateOf(a[2])]]
    /\ Goto(p, "waiting")
    /\ UNCHANGED <<inputs, lock, file, tmp, memory, issued>>

StartCast(p) ==
    /\ pc[p] = "start"
    /\ \E a \in Arguments, e \in envelopes, choice \in Choices :
         job' = [job EXCEPT ![p] = [kind |-> "cast", proposal |-> a[1],
                                    gate |-> GateOf(a[2]),
                                    envelope |-> e, choice |-> choice]]
    /\ Goto(p, "waiting")
    /\ UNCHANGED <<inputs, lock, file, tmp, memory, issued>>

\* lock_state.
Lock(p) ==
    /\ pc[p] = "waiting"
    /\ lock = NoProc
    /\ lock' = p
    /\ Goto(p, "locked")
    /\ UNCHANGED <<inputs, file, tmp, job, memory, issued>>

\* `challenge` under the lock: read or create the state, validate, issue.  The
\* random nonce is the invocation itself: no two invocations draw the same one.
Issue(p) ==
    LET gate == job[p].gate
        proposal == job[p].proposal
        state == IF file.state = "whole" THEN file.data ELSE new_state(gate, proposal)
        valid == validate_state(state, gate, proposal)
        result == issue_challenge(state, gate, clock, p)
        code == IF file.state = "torn" THEN "UnreadableState"
                ELSE IF valid # "Ok" THEN valid ELSE result.code
    IN  /\ pc[p] = "locked"
        /\ job[p].kind = "issue"
        /\ IF code = "Ok"
           THEN /\ memory' = [memory EXCEPT ![p] = result.state]
                /\ issued' = [issued EXCEPT ![p] = Some(result.challenge)]
                /\ Goto(p, "decided")
                /\ UNCHANGED <<lock, job>>
           ELSE Exit(p, "ended")
        /\ UNCHANGED <<inputs, file, tmp>>

\* `cast` under the lock: read the state (it must exist), validate, cast.
Cast(p) ==
    LET gate == job[p].gate
        valid == validate_state(file.data, gate, job[p].proposal)
        result == cast_vote(file.data, gate, job[p].envelope, job[p].choice, clock)
        code == IF file.state # "whole" THEN "UnreadableState"
                ELSE IF valid # "Ok" THEN valid ELSE result.code
    IN  /\ pc[p] = "locked"
        /\ job[p].kind = "cast"
        /\ IF code = "Ok"
           THEN /\ memory' = [memory EXCEPT ![p] = result.state]
                /\ Goto(p, "decided")
                /\ UNCHANGED <<lock, job, issued>>
           ELSE Exit(p, "ended")
        /\ UNCHANGED <<inputs, file, tmp>>

\* Mutant: the challenge is handed out before the state is saved.
CreateTmpAfterOutput(p) ==
    /\ pc[p] = "decided"
    /\ outputs' = outputs \cup issued[p]
    /\ tmp' = [tmp EXCEPT ![p] = File("torn", NoState)]
    /\ Goto(p, "writing")
    /\ UNCHANGED <<clock, envelopes, lock, file, job, memory, issued>>

\* Mutant: the state file is truncated before the new state is written.
CreateTmpTruncates(p) ==
    /\ pc[p] = "decided"
    /\ tmp' = [tmp EXCEPT ![p] = File("torn", NoState)]
    /\ file' = File("torn", NoState)
    /\ Goto(p, "writing")
    /\ UNCHANGED <<inputs, lock, job, memory, issued>>

\* write_private_json_atomic: create the temporary file, write and sync it,
\* rename it over the state file.
CreateTmp(p) ==
    /\ pc[p] = "decided"
    /\ tmp' = [tmp EXCEPT ![p] = File("torn", NoState)]
    /\ Goto(p, "writing")
    /\ UNCHANGED <<inputs, lock, file, job, memory, issued>>

WriteTmp(p) ==
    /\ pc[p] = "writing"
    /\ tmp' = [tmp EXCEPT ![p] = File("whole", memory[p])]
    /\ Goto(p, "written")
    /\ UNCHANGED <<inputs, lock, file, job, memory, issued>>

Rename(p) ==
    /\ pc[p] = "written"
    /\ file' = tmp[p]
    /\ tmp' = [tmp EXCEPT ![p] = NoFile]
    /\ Goto(p, "renamed")
    /\ UNCHANGED <<inputs, lock, job, memory, issued>>

\* After the state is saved `challenge` writes the challenge file ...
WriteOutput(p) ==
    /\ pc[p] = "renamed"
    /\ job[p].kind = "issue"
    /\ outputs' = outputs \cup issued[p]
    /\ Exit(p, "ended")
    /\ UNCHANGED <<clock, envelopes, file, tmp>>

\* ... and `cast` reports the accepted vote.
ReportVote(p) ==
    /\ pc[p] = "renamed"
    /\ job[p].kind = "cast"
    /\ Exit(p, "accepted")
    /\ UNCHANGED <<inputs, file, tmp>>

\* Mutant: a save that fails is ignored.
StopIgnored(p) ==
    /\ pc[p] \in {"decided", "writing", "written"}
    /\ Goto(p, "renamed")
    /\ UNCHANGED <<inputs, lock, file, tmp, job, memory, issued>>

\* An operation on the lock, the state, the temporary or the challenge file
\* fails, or the process is killed.  The temporary file it leaves behind carries
\* its process id and is never read again.
Stop(p) ==
    /\ pc[p] \notin Ended \cup {"start"}
    /\ Exit(p, "ended")
    /\ tmp' = Forget(tmp, p, NoFile)
    /\ UNCHANGED <<inputs, file>>

Step(p) ==
    \/ Lock(p) \/ Issue(p) \/ Cast(p) \/ CreateTmp(p) \/ WriteTmp(p) \/ Rename(p)
    \/ WriteOutput(p) \/ ReportVote(p)

Next ==
    \/ Tick
    \/ \E proof \in Proofs, c \in outputs : Present(proof, c)
    \/ \E p \in Procs : StartIssue(p) \/ StartCast(p) \/ Step(p) \/ Stop(p)

\* As in ReplayVerifier only the steps of a running invocation are fair.
Spec == Init /\ [][Next]_vars /\ \A p \in Procs : WF_vars(Step(p))

---------------------------------------------------------------------------
(* Properties.                                                             *)

Pending == IF file.state = "whole" THEN file.data.pending ELSE {}
Consumed == IF file.state = "whole" THEN file.data.consumed ELSE {}
Voters == IF file.state = "whole" THEN DOMAIN file.data.votes ELSE {}

Presenter(p) == job[p].envelope.journal.presenter_public_key
Accepted == {p \in Procs : pc[p] = "accepted"}

\* Types, that the pending challenges stay within MAX_PENDING_CHALLENGES, that
\* holders answer only challenges they were handed, and that no way out of the
\* command leaves the lock taken for everyone after it.
TypeOK ==
    /\ clock \in 0 .. MaxClock
    /\ lock \in Procs \cup {NoProc}
    /\ file.state \in {"absent", "torn", "whole"}
    /\ Cardinality(Pending) <= MAX_PENDING_CHALLENGES
    /\ \A e \in envelopes : e.challenge \in outputs
    /\ \A p \in Procs :
         /\ pc[p] \in Ended \cup HoldsLock \cup {"start", "waiting"}
         /\ lock = p <=> pc[p] \in HoldsLock

\* The state file accounts for every vote exactly once: as many votes as
\* consumed challenges, and no challenge both pending and consumed.  A lost
\* update between two invocations, or half of cast_vote's three changes, breaks it.
BooksBalance ==
    /\ file.state # "torn"
    /\ Cardinality(Voters) = Cardinality(Consumed)
    /\ \A c \in Pending : digest(c) \notin Consumed

\* A vote that was reported as accepted stays in the state file, and no presenter
\* is told twice that its vote counts.
AcceptedVotesCount ==
    /\ \A p \in Accepted : Presenter(p) \in Voters
    /\ \A p, q \in Accepted : Presenter(p) = Presenter(q) => p = q

\* Only presentations for the proposal the state file belongs to are counted,
\* whatever gate file and proposal id an invocation was given.
VotesMatchProposal ==
    \A p \in Accepted :
      /\ job[p].proposal = file.data.proposal_id
      /\ job[p].envelope.journal.context_hash =
           context_hash(GateOf(file.data.proposal_id).context)

\* A challenge that reached a holder is known to the service until it is used,
\* although a crash may come between the two files `challenge` writes.
HandedOutIsKnown ==
    \A c \in outputs : c \in Pending \/ digest(c) \in Consumed

\* Votes are final: an entry of the state file is never changed or removed.
VotesAreFinal ==
    [][\A k \in Voters : /\ file'.state = "whole"
                         /\ k \in DOMAIN file'.data.votes
                         /\ file'.data.votes[k] = file.data.votes[k]]_file

\* No vote is decided after its challenge expired, however long the invocation
\* waited for the lock: the clock is read under the lock.
NoVoteAfterExpiry ==
    [][\A p \in Procs :
         pc[p] = "locked" /\ pc'[p] = "decided" /\ job[p].kind = "cast" =>
           clock <= job[p].envelope.challenge.expires_at_unix_ms]_vars

\* Counting votes implements the same promise as the off-chain verifier.
Abstract ==
    INSTANCE SingleUse WITH
        Invocations <- Procs,
        Challenges  <- {digest(c) : c \in PossibleChallenges},
        spent       <- Consumed,
        granted     <- {<<p, digest(job[p].envelope.challenge)>> : p \in Accepted}

ImplementsSingleUse == Abstract!Spec

\* "Treat 1006, 1007, and 1010 as recoverable by requesting a new verifier
\* challenge": the service refuses a new challenge for lack of room only while
\* the pending ones can still be used.
ExpiredChallengesDoNotBlock ==
    [][\A p \in Procs :
         /\ pc[p] = "locked" /\ pc'[p] = "ended" /\ job[p].kind = "issue"
         /\ file.state = "whole" /\ pending_full(file.data)
         => \E c \in Pending : clock <= c.expires_at_unix_ms]_vars
=============================================================================
