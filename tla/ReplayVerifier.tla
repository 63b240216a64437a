-------------------------- MODULE ReplayVerifier ---------------------------
(***************************************************************************)
(* Concurrent invocations of `proofgate verify` (and of the verification   *)
(* inside `messaging receive-verify`) that share one replay-cache file.    *)
(*                                                                         *)
(* Every element of Procs is one invocation, that is one operating-system  *)
(* process: it reads its inputs and the clock, waits for the advisory lock *)
(* beside the cache, loads the cache, decides, replaces the cache file     *)
(* through a temporary file and a rename, drops the lock and prints ALLOW. *)
(* It may crash between any two of these steps; the kernel then drops the  *)
(* lock and the files stay as they are.                                    *)
(***************************************************************************)
EXTENDS Attestation

CONSTANTS
    Procs,           \* invocations of the verifier
    NoProc,          \* "nobody holds the lock"
    Gate,            \* the gate configuration every invocation reads
    Root,            \* the commitment root the operator trusts
    Proofs,          \* proofs holders can present
    TTL,             \* lifetime the operator gives a challenge
    NoJob,           \* arguments of an invocation that has not started
    Nonces,          \* values OsRng draws for challenges, each once
    MaxClock         \* bound on the clock

ASSUME ProcAssumption == NoProc \notin Procs

ASSUME BoundAssumption == MaxClock \in Nat /\ TTL \in Nat

VARIABLES
    clock,       \* wall clock of the verifier's machine
    challenges,  \* challenge files the operator retained
    envelopes,   \* presentation files received from holders
    lock,        \* holder of the lock on <cache>.lock
    cache,       \* the replay-cache file
    tmp,         \* each invocation's <cache>.tmp-<pid>
    job,         \* each invocation's envelope, expected challenge and clock reading
    memory,      \* each invocation's InMemoryReplayCache
    pc

vars == <<clock, challenges, envelopes, lock, cache, tmp, job, memory, pc>>
files == <<cache, tmp>>
inputs == <<clock, challenges, envelopes>>

\* A file does not exist, holds a prefix of its JSON, or is complete.
File(state, consumed) == [state |-> state, consumed |-> consumed]
NoFile == File("absent", {})

Ended == {"allowed", "denied", "failed", "crashed"}
HoldsLock == {"locked", "verified", "writing", "written", "renamed"}

PossibleChallenges ==
    {new_challenge(context_hash(Gate.context), Root, Gate.context.verifier_id,
                   n, t, t + TTL) : n \in Nonces, t \in 0 .. MaxClock}

Spends(p) == digest(job[p].envelope.challenge)

---------------------------------------------------------------------------

Init ==
    /\ clock = 0
    /\ challenges = {}
    /\ envelopes = {}
    /\ lock = NoProc
    /\ cache = NoFile
    /\ tmp = [p \in Procs |-> NoFile]
    /\ job = [p \in Procs |-> NoJob]
    /\ memory = [p \in Procs |-> {}]
    /\ pc = [p \in Procs |-> "start"]

Tick ==
    /\ clock < MaxClock
    /\ clock' = clock + 1
    /\ UNCHANGED <<challenges, envelopes, lock, cache, tmp, job, memory, pc>>

\* challenge create: nonces of 32 random bytes never repeat.
IssueChallenge ==
    /\ \E nonce \in Nonces :
         LET result == create_challenge(Gate, Root, Gate.context.verifier_id,
                                        clock, TTL, nonce)
         IN  /\ \A c \in challenges : c.nonce # nonce
             /\ result.code = "Ok"
             /\ challenges' = challenges \cup {result.value}
    /\ UNCHANGED <<clock, envelopes, lock, cache, tmp, job, memory, pc>>

\* present: the holder of a proof answers a challenge.
Present(proof, challenge) ==
    LET result == present(proof, challenge, proof.journal.presenter_public_key)
    IN  /\ result.code = "Ok"
        /\ envelopes' = envelopes \cup {result.value}
        /\ UNCHANGED <<clock, challenges, lock, cache, tmp, job, memory, pc>>

---------------------------------------------------------------------------
(* One invocation.                                                         *)

Goto(p, label) == pc' = [pc EXCEPT ![p] = label]

\* Mutant: an exit leaves the lock taken.
ExitKeepsLock(p, label) ==
    /\ Goto(p, label)
    /\ UNCHANGED lock

\* Leave the command: the lock, if held, is released with the File that holds it.
Exit(p, label) ==
    /\ Goto(p, label)
    /\ lock' = IF lock = p THEN NoProc ELSE lock

\* run_verify samples the clock first; verify_presentation then reads the
\* envelope, the retained challenge and the gate.
Start(p) ==
    /\ pc[p] = "start"
    /\ \E e \in envelopes, c \in challenges :
         job' = [job EXCEPT ![p] = [envelope |-> e, expected |-> c, now |-> clock]]
    /\ Goto(p, "waiting")
    /\ UNCHANGED <<inputs, lock, files, memory>>

\* Mutant: the lock is taken without waiting for its holder.
LockShared(p) ==
    /\ pc[p] = "waiting"
    /\ lock' = p
    /\ Goto(p, "locked")
    /\ UNCHANGED <<inputs, files, job, memory>>

\* lock_replay_cache blocks until the exclusive lock is free.
Lock(p) ==
    /\ pc[p] = "waiting"
    /\ lock = NoProc
    /\ lock' = p
    /\ Goto(p, "locked")
    /\ UNCHANGED <<inputs, files, job, memory>>

\* load_replay_cache, which a file that does not parse ends, and verify.
Decision(p) ==
    IF cache.state = "torn"
    THEN [code |-> "UnreadableCache", consumed |-> {}]
    ELSE verify(job[p].envelope, job[p].expected, Gate, Gate.context.verifier_id,
                job[p].now, cache.consumed)

\* Mutants: the nonce is remembered instead of the digest; the lock is dropped
\* once the decision is made.
AllowByNonce(p) ==
    /\ pc[p] = "locked"
    /\ Decision(p).code = "Ok"
    /\ memory' = [memory EXCEPT ![p] =
                    cache.consumed \cup {job[p].envelope.challenge.nonce}]
    /\ Goto(p, "verified")
    /\ UNCHANGED <<inputs, lock, files, job>>

AllowUnlocks(p) ==
    /\ pc[p] = "locked"
    /\ Decision(p).code = "Ok"
    /\ memory' = [memory EXCEPT ![p] = Decision(p).consumed]
    /\ Exit(p, "verified")
    /\ UNCHANGED <<inputs, files, job>>

\* The decision changes only this process's memory.
Allow(p) ==
    /\ pc[p] = "locked"
    /\ Decision(p).code = "Ok"
    /\ memory' = [memory EXCEPT ![p] = Decision(p).consumed]
    /\ Goto(p, "verified")
    /\ UNCHANGED <<inputs, lock, files, job>>

\* A denial returns at once, which drops the lock.
Deny(p) ==
    /\ pc[p] = "locked"
    /\ Decision(p).code # "Ok"
    /\ Exit(p, "denied")
    /\ UNCHANGED <<inputs, files, job, memory>>

\* Mutant: the cache is truncated and rewritten in place.
CreateInPlace(p) ==
    /\ pc[p] = "verified"
    /\ cache' = File("torn", {})
    /\ Goto(p, "writing")
    /\ UNCHANGED <<inputs, lock, tmp, job, memory>>

\* write_json_atomic: create or truncate the temporary file ...
CreateTmp(p) ==
    /\ pc[p] = "verified"
    /\ tmp' = [tmp EXCEPT ![p] = File("torn", {})]
    /\ Goto(p, "writing")
    /\ UNCHANGED <<inputs, lock, cache, job, memory>>

\* Mutant: only the challenge just spent is written.
WriteTmpForgets(p) ==
    /\ pc[p] = "writing"
    /\ tmp' = [tmp EXCEPT ![p] = File("whole", {Spends(p)})]
    /\ Goto(p, "written")
    /\ UNCHANGED <<inputs, lock, cache, job, memory>>

\* ... fill it ...
WriteTmp(p) ==
    /\ pc[p] = "writing"
    /\ tmp' = [tmp EXCEPT ![p] = File("whole", memory[p])]
    /\ Goto(p, "written")
    /\ UNCHANGED <<inputs, lock, cache, job, memory>>

\* ... and rename it over the cache.
Rename(p) ==
    /\ pc[p] = "written"
    /\ cache' = tmp[p]
    /\ tmp' = [tmp EXCEPT ![p] = NoFile]
    /\ Goto(p, "renamed")
    /\ UNCHANGED <<inputs, lock, job, memory>>

\* Mutant: a save that fails is ignored.
FailIgnored(p) ==
    /\ pc[p] \in {"verified", "writing", "written"}
    /\ Exit(p, "unlocked")
    /\ UNCHANGED <<inputs, files, job, memory>>

\* An operation on the lock file, the cache or the temporary file fails and
\* ends the invocation with an error.
Fail(p) ==
    /\ pc[p] \in {"waiting", "locked", "verified", "writing", "written"}
    /\ Exit(p, "failed")
    /\ UNCHANGED <<inputs, files, job, memory>>

\* verify_received_presentation returns Ok: the lock's File is dropped.
Unlock(p) ==
    /\ pc[p] = "renamed"
    /\ Exit(p, "unlocked")
    /\ UNCHANGED <<inputs, files, job, memory>>

\* run_verify prints ALLOW.
PrintAllow(p) ==
    /\ pc[p] = "unlocked"
    /\ Goto(p, "allowed")
    /\ UNCHANGED <<inputs, lock, files, job, memory>>

\* The process is killed; the kernel closes its descriptors.
Crash(p) ==
    /\ pc[p] \notin Ended \cup {"start"}
    /\ Exit(p, "crashed")
    /\ UNCHANGED <<inputs, files, job, memory>>

Step(p) ==
    \/ Lock(p) \/ Allow(p) \/ Deny(p) \/ CreateTmp(p) \/ WriteTmp(p)
    \/ Rename(p) \/ Unlock(p) \/ PrintAllow(p)

Next ==
    \/ Tick
    \/ IssueChallenge
    \/ \E proof \in Proofs, c \in challenges : Present(proof, c)
    \/ \E p \in Procs : Start(p) \/ Step(p) \/ Fail(p) \/ Crash(p)

\* The scheduler runs every process that can run, and lock_exclusive returns
\* once the lock stays free; nobody is obliged to start a command, to fail or to crash.
Spec == Init /\ [][Next]_vars /\ \A p \in Procs : WF_vars(Step(p))

---------------------------------------------------------------------------
(* Properties.                                                             *)

Labels == Ended \cup HoldsLock \cup {"start", "waiting", "unlocked"}
Digests == {digest(c) : c \in challenges}
Files == [state : {"absent", "torn", "whole"}, consumed : SUBSET Digests]
Jobs == [envelope : envelopes, expected : challenges, now : 0 .. clock]

\* Types of files, memories and arguments: every invocation works on a received
\* envelope and a retained challenge, and only digests of such challenges are
\* ever in memory or on disk.
TypeOK ==
    /\ clock \in 0 .. MaxClock
    /\ challenges \subseteq PossibleChallenges
    /\ \A e \in envelopes : e.challenge \in challenges
    /\ lock \in Procs \cup {NoProc}
    /\ cache \in Files
    /\ tmp \in [Procs -> Files]
    /\ job \in [Procs -> {NoJob} \cup Jobs]
    /\ memory \in [Procs -> SUBSET Digests]
    /\ pc \in [Procs -> Labels]
    /\ \A p \in Procs : pc[p] # "start" => job[p] \in Jobs

\* However invocations interleave, wherever they crash and whatever write
\* fails, no challenge is answered ALLOW twice.
AllowAtMostOnce ==
    \A p, q \in Procs :
      pc[p] = "allowed" /\ pc[q] = "allowed" /\ Spends(p) = Spends(q) => p = q

\* A crash in the middle of a save never leaves a cache file that the next
\* invocation cannot parse, so that one crash would deny everyone from then on.
CacheNeverTorn == cache.state # "torn"

\* The parts of the discipline that makes the above inductive: one process is inside
\* the lock; what it is about to save is the file it loaded plus the challenge it
\* spends, which is not in the file yet; and whoever is past the rename finds its
\* challenge in the file and shares it with no one.
Saving == {"verified", "writing", "written"}
Saved == {"renamed", "unlocked", "allowed"}

LockDiscipline == \A p \in Procs : pc[p] \in HoldsLock <=> lock = p

SaveDiscipline ==
    \A p \in Procs :
      /\ pc[p] \in Saving => /\ Spends(p) \notin cache.consumed
                             /\ memory[p] = cache.consumed \cup {Spends(p)}
      /\ pc[p] = "written" => tmp[p] = File("whole", memory[p])
      /\ pc[p] \in Saved => Spends(p) \in cache.consumed

SpentOnce ==
    \A p, q \in Procs :
      pc[p] \in Saved /\ pc[q] \in Saved /\ Spends(p) = Spends(q) => p = q

\* The inductive invariant of the save under the lock: all four parts together.
Inv == LockDiscipline /\ CacheNeverTorn /\ SaveDiscipline /\ SpentOnce

\* A save never drops a challenge that another invocation consumed between
\* this one's load and its rename.
ConsumedStaysConsumed == [][cache.consumed \subseteq cache'.consumed]_cache

\* Every invocation that has started is answered, also when the holder of the
\* lock crashes or its save fails.
EveryInvocationEnds ==
    \A p \in Procs : pc[p] = "waiting" ~> pc[p] \in Ended

\* The processes, the lock and the files together implement SingleUse.
Granted == {<<p, Spends(p)>> : p \in {q \in Procs : pc[q] = "allowed"}}
Abstract ==
    INSTANCE SingleUse WITH
        Invocations <- Procs,
        Challenges  <- {digest(c) : c \in PossibleChallenges},
        spent       <- cache.consumed,
        granted     <- Granted

ImplementsSingleUse == Abstract!Spec

\* "Challenge expired" is denial 1007: no invocation decides for ALLOW when the
\* challenge has expired by the clock of that moment.
NoAllowAfterExpiry ==
    [][\A p \in Procs :
         pc[p] = "locked" /\ pc'[p] = "verified" =>
           clock <= job[p].expected.expires_at_unix_ms]_vars
=============================================================================
