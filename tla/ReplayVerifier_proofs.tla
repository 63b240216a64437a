----------------------- MODULE ReplayVerifier_proofs -----------------------
(***************************************************************************)
(* Proofs about ReplayVerifier for any number of invocations, challenges,  *)
(* proofs and any clock bound: its types, that a challenge is answered     *)
(* ALLOW at most once, that the cache is never torn and never shrinks, and *)
(* that the whole implements SingleUse.                                    *)
(***************************************************************************)
EXTENDS ReplayVerifier, Attestation_proofs, TLAPS

(***************************************************************************)
(* Types.                                                                  *)
(***************************************************************************)

\* create_challenge, when it succeeds, returns a challenge of PossibleChallenges.
LEMMA IssuedIsPossible ==
    ASSUME NEW n \in Nonces, NEW t \in 0 .. MaxClock,
           create_challenge(Gate, Root, Gate.context.verifier_id, t, TTL, n).code = "Ok"
    PROVE  create_challenge(Gate, Root, Gate.context.verifier_id, t, TTL, n).value
             \in PossibleChallenges
BY CreateIssues DEF PossibleChallenges

\* An accepting decision spends an unspent challenge on top of the loaded cache.
LEMMA DecisionConsumes ==
    ASSUME NEW p \in Procs, Decision(p).code = "Ok"
    PROVE  /\ Spends(p) \notin cache.consumed
           /\ Decision(p).consumed = cache.consumed \cup {Spends(p)}
<1> DEFINE answer == verify(job[p].envelope, job[p].expected, Gate,
                            Gate.context.verifier_id, job[p].now, cache.consumed)
<1>1. Decision(p) = answer
  BY DEF Decision
<1>2. answer.code = "Ok"
  BY <1>1
<1>3. QED
  BY <1>1, <1>2, VerifyConsumes DEF Spends

\* Every value stays in its type: files and memories hold digests of issued
\* challenges only, and every running invocation has arguments that exist.
THEOREM TypeCorrect == Spec => []TypeOK
<1> USE DEF Files, Digests, Jobs, File, NoFile
<1>1. Init => TypeOK
  BY BoundAssumption DEF Init, TypeOK, Labels
<1>2. TypeOK /\ [Next]_vars => TypeOK'
  <2> SUFFICES ASSUME TypeOK, [Next]_vars
               PROVE  TypeOK'
    OBVIOUS
  <2> USE DEF TypeOK
  <2>1. CASE Tick
    BY <2>1, BoundAssumption DEF Tick
  <2>2. CASE IssueChallenge
    <3>1. PICK n \in Nonces :
            LET result == create_challenge(Gate, Root, Gate.context.verifier_id,
                                           clock, TTL, n)
            IN  result.code = "Ok" /\ challenges' = challenges \cup {result.value}
      BY <2>2 DEF IssueChallenge
    <3>2. challenges' \subseteq PossibleChallenges /\ challenges \subseteq challenges'
      BY <3>1, IssuedIsPossible
    <3> HIDE DEF Labels
    <3>3. UNCHANGED <<clock, envelopes, lock, cache, tmp, job, memory, pc>>
      BY <2>2 DEF IssueChallenge
    <3>4. QED
      BY <3>2, <3>3
  <2>3. ASSUME NEW proof \in Proofs, NEW c \in challenges, Present(proof, c)
        PROVE  TypeOK'
    <3>1. /\ envelopes \subseteq envelopes'
          /\ \A e \in envelopes' : e.challenge \in challenges
      BY <2>3, PresentAnswers DEF Present
    <3>2. UNCHANGED <<clock, challenges, lock, cache, tmp, job, memory, pc>>
      BY <2>3 DEF Present
    <3>3. QED
      BY <3>1, <3>2
  <2>4. ASSUME NEW p \in Procs, Start(p)
        PROVE  TypeOK'
    BY <2>4 DEF Start, Goto, Labels, inputs, files
  <2>5. ASSUME NEW p \in Procs, Step(p) \/ Fail(p) \/ Crash(p)
        PROVE  TypeOK'
    <3> USE DEF Goto, Exit, Labels, Ended, HoldsLock, inputs, files
    <3>1. CASE Lock(p)
      BY <3>1 DEF Lock
    <3>2. CASE Allow(p)
      <4>1. Decision(p).consumed \subseteq Digests
        <5>1. job[p] \in Jobs
          BY <3>2 DEF Allow
        <5>2. Spends(p) \in Digests
          BY <5>1 DEF Spends
        <5>3. QED
          BY <3>2, <5>2, DecisionConsumes DEF Allow
      <4>2. QED
        BY <3>2, <4>1 DEF Allow
    <3>3. CASE Deny(p)
      BY <3>3 DEF Deny
    <3>4. CASE CreateTmp(p)
      BY <3>4 DEF CreateTmp
    <3>5. CASE WriteTmp(p)
      BY <3>5 DEF WriteTmp
    <3>6. CASE Rename(p)
      BY <3>6 DEF Rename
    <3>7. CASE Unlock(p)
      BY <3>7 DEF Unlock
    <3>8. CASE PrintAllow(p)
      BY <3>8 DEF PrintAllow
    <3>9. CASE Fail(p)
      BY <3>9 DEF Fail
    <3>10. CASE Crash(p)
      BY <3>10 DEF Crash
    <3>11. QED
      BY <2>5, <3>1, <3>2, <3>3, <3>4, <3>5, <3>6, <3>7, <3>8, <3>9, <3>10 DEF Step
  <2>6. CASE UNCHANGED vars
    BY <2>6 DEF vars
  <2>7. QED
    BY <2>1, <2>2, <2>3, <2>4, <2>5, <2>6 DEF Next
<1>3. QED
  BY <1>1, <1>2, PTL DEF Spec

(***************************************************************************)
(* The save discipline.                                                    *)
(***************************************************************************)

\* Lock, file and memory of all invocations agree in every reachable state.
THEOREM Discipline == Spec => []Inv
<1>1. Init => Inv
  BY ProcAssumption
  DEF Init, Inv, LockDiscipline, CacheNeverTorn, SaveDiscipline, SpentOnce,
      HoldsLock, Saving, Saved, NoFile, File
<1>2. TypeOK /\ Inv /\ [Next]_vars => Inv'
  <2> SUFFICES ASSUME TypeOK, Inv, [Next]_vars
               PROVE  Inv'
    OBVIOUS
  <2> USE ProcAssumption
      DEF Inv, LockDiscipline, CacheNeverTorn, SaveDiscipline, SpentOnce,
          HoldsLock, Saving, Saved, File
  <2>1. CASE UNCHANGED <<lock, cache, tmp, job, memory, pc>>
    BY <2>1 DEF Spends
  <2>2. ASSUME NEW p \in Procs, Start(p)
        PROVE  Inv'
    <3>1. /\ pc[p] = "start" /\ pc' = [pc EXCEPT ![p] = "waiting"]
          /\ UNCHANGED <<lock, cache, tmp, memory>>
          /\ \A q \in Procs : q # p => job'[q] = job[q]
      BY <2>2 DEF Start, Goto, TypeOK, inputs, files
    <3>2. \A q \in Procs : q # p => Spends(q)' = Spends(q)
      BY <3>1 DEF Spends
    <3>3. \A q \in Procs : pc'[q] = IF q = p THEN "waiting" ELSE pc[q]
      BY <3>1 DEF TypeOK
    <3>4. QED
      BY <3>1, <3>2, <3>3
  <2>3. ASSUME NEW p \in Procs, Step(p) \/ Fail(p) \/ Crash(p)
        PROVE  Inv'
    <3>1. job' = job /\ \A q \in Procs : Spends(q)' = Spends(q)
      BY <2>3
      DEF Step, Lock, Allow, Deny, CreateTmp, WriteTmp, Rename, Fail, Unlock,
          PrintAllow, Crash, inputs, files, Spends
    <3> USE DEF Goto, Exit, inputs, files, TypeOK
    <3>2. CASE Lock(p)
      BY <3>1, <3>2 DEF Lock
    <3>3. CASE Allow(p)
      <4>1. /\ Spends(p) \notin cache.consumed
            /\ memory'[p] = cache.consumed \cup {Spends(p)}
        BY <3>3, DecisionConsumes DEF Allow
      <4>2. QED
        BY <3>1, <3>3, <4>1 DEF Allow
    <3>4. CASE Deny(p)
      BY <3>1, <3>4 DEF Deny
    <3>5. CASE CreateTmp(p)
      BY <3>1, <3>5 DEF CreateTmp
    <3>6. CASE WriteTmp(p)
      BY <3>1, <3>6 DEF WriteTmp
    <3>7. CASE Rename(p)
      <4>1. /\ cache' = File("whole", memory[p])
            /\ cache'.state = "whole"
            /\ cache'.consumed = cache.consumed \cup {Spends(p)}
        BY <3>7 DEF Rename
      <4>2. \A q \in Procs : q # p => pc[q] \notin HoldsLock
        BY <3>7 DEF Rename
      <4>3. \A q \in Procs : pc[q] \in Saved => Spends(q) # Spends(p)
        BY <3>7 DEF Rename
      <4>4. \A q \in Procs : pc'[q] = IF q = p THEN "renamed" ELSE pc[q]
        BY <3>7 DEF Rename
      <4>5. lock' = lock /\ memory' = memory
        BY <3>7 DEF Rename
      <4>6. LockDiscipline' /\ CacheNeverTorn'
        BY <3>7, <4>1, <4>4, <4>5 DEF Rename
      <4>7. SaveDiscipline'
        BY <3>1, <4>1, <4>2, <4>4
      <4>8. SpentOnce'
        BY <3>1, <4>3, <4>4
      <4>9. QED
        BY <4>6, <4>7, <4>8
    <3>8. CASE Unlock(p)
      BY <3>1, <3>8 DEF Unlock
    <3>9. CASE PrintAllow(p)
      BY <3>1, <3>9 DEF PrintAllow
    <3>10. CASE Fail(p)
      BY <3>1, <3>10 DEF Fail
    <3>11. CASE Crash(p)
      BY <3>1, <3>11 DEF Crash, Ended
    <3>12. QED
      BY <2>3, <3>2, <3>3, <3>4, <3>5, <3>6, <3>7, <3>8, <3>9, <3>10, <3>11 DEF Step
  <2>4. QED
    BY <2>1, <2>2, <2>3 DEF Next, Tick, IssueChallenge, Present, vars
<1>3. QED
  BY <1>1, <1>2, TypeCorrect, PTL DEF Spec

\* No challenge is ever answered ALLOW by two invocations.
THEOREM SingleAllow == Spec => []AllowAtMostOnce
<1>1. Inv => AllowAtMostOnce
  BY DEF Inv, SpentOnce, AllowAtMostOnce, Saved
<1>2. QED
  BY <1>1, Discipline, PTL

\* No interruption leaves a cache file that cannot be parsed.
THEOREM NeverTorn == Spec => []CacheNeverTorn
<1>1. Inv => CacheNeverTorn
  BY DEF Inv
<1>2. QED
  BY <1>1, Discipline, PTL

(***************************************************************************)
(* Steps.                                                                  *)
(***************************************************************************)

\* The rename adds one challenge, unspent so far, to the cache file ...
LEMMA RenameSpends ==
    ASSUME Inv, NEW p \in Procs, Rename(p)
    PROVE  /\ Spends(p) \notin cache.consumed
           /\ cache'.consumed = cache.consumed \cup {Spends(p)}
<1>1. pc[p] = "written" /\ cache' = tmp[p]
  BY DEF Rename
<1>2. /\ Spends(p) \notin cache.consumed
      /\ memory[p] = cache.consumed \cup {Spends(p)}
      /\ tmp[p] = File("whole", memory[p])
  BY <1>1 DEF Inv, SaveDiscipline, Saving
<1>3. QED
  BY <1>1, <1>2 DEF File

\* ... and no other step replaces it.
LEMMA CacheStep ==
    ASSUME [Next]_vars
    PROVE  UNCHANGED cache \/ \E p \in Procs : Rename(p)
BY DEF Next, Tick, IssueChallenge, Present, Start, Step, Lock, Allow, Deny,
       CreateTmp, WriteTmp, Fail, Unlock, PrintAllow, Crash, inputs, files, vars

\* A consumed challenge is never forgotten by a later save.
THEOREM NeverForgotten == Spec => ConsumedStaysConsumed
<1>1. TypeOK /\ Inv /\ [Next]_vars => [cache.consumed \subseteq cache'.consumed]_cache
  BY CacheStep, RenameSpends
<1>2. QED
  BY <1>1, TypeCorrect, Discipline, PTL DEF Spec, ConsumedStaysConsumed

(***************************************************************************)
(* Refinement.                                                             *)
(***************************************************************************)

\* Printing ALLOW grants the invocation the challenge it spends ...
LEMMA PrintGrants ==
    ASSUME TypeOK, NEW p \in Procs, PrintAllow(p)
    PROVE  Granted' = Granted \cup {<<p, Spends(p)>>}
<1>1. \A q \in Procs : pc'[q] = "allowed" <=> (q = p \/ pc[q] = "allowed")
  BY DEF PrintAllow, Goto, TypeOK
<1>2. \A q \in Procs : Spends(q)' = Spends(q)
  BY DEF PrintAllow, Spends
<1>3. QED
  BY <1>1, <1>2 DEF Granted

\* ... and no other step grants or withdraws anything.
LEMMA GrantStep ==
    ASSUME TypeOK, [Next]_vars
    PROVE  Granted' = Granted \/ \E p \in Procs : PrintAllow(p)
<1>1. ASSUME \A q \in Procs : /\ pc'[q] = "allowed" <=> pc[q] = "allowed"
                              /\ pc[q] = "allowed" => Spends(q)' = Spends(q)
      PROVE  Granted' = Granted
  BY <1>1 DEF Granted
<1>2. ASSUME NEW p \in Procs, Start(p)
      PROVE  Granted' = Granted
  <2>1. /\ pc[p] = "start" /\ pc' = [pc EXCEPT ![p] = "waiting"]
        /\ \A q \in Procs : q # p => job'[q] = job[q]
    BY <1>2 DEF Start, Goto, TypeOK
  <2>2. QED
    BY <1>1, <2>1 DEF Spends, TypeOK
<1>3. ASSUME NEW p \in Procs, Step(p) \/ Fail(p) \/ Crash(p), ~PrintAllow(p)
      PROVE  Granted' = Granted
  <2>1. job' = job
    BY <1>3 DEF Step, Lock, Allow, Deny, CreateTmp, WriteTmp, Rename, Fail, Unlock,
                Crash, inputs, files
  <2>2. PICK l \in Labels \ {"allowed"} : pc' = [pc EXCEPT ![p] = l]
    BY <1>3 DEF Step, Lock, Allow, Deny, CreateTmp, WriteTmp, Rename, Fail, Unlock,
                Crash, Goto, Exit, Labels, Ended, HoldsLock
  <2>3. pc[p] # "allowed"
    BY <1>3 DEF Step, Lock, Allow, Deny, CreateTmp, WriteTmp, Rename, Fail, Unlock,
                Crash, Ended
  <2>4. QED
    BY <1>1, <2>1, <2>2, <2>3 DEF Spends, TypeOK
<1>4. CASE UNCHANGED <<job, pc>>
  BY <1>1, <1>4 DEF Spends
<1>5. QED
  BY <1>2, <1>3, <1>4 DEF Next, Tick, IssueChallenge, Present, vars

\* The concurrent verifier implements SingleUse: a rename that adds a challenge
\* is Spend, printing ALLOW is Grant, and every other step changes neither.
THEOREM Refinement == Spec => ImplementsSingleUse
<1>1. Init => Abstract!Init
  BY DEF Init, Abstract!Init, Granted, NoFile, File
<1>2. TypeOK /\ Inv /\ [Next]_vars => [Abstract!Next]_(Abstract!vars)
  <2> SUFFICES ASSUME TypeOK, Inv, [Next]_vars
               PROVE  [Abstract!Next]_(Abstract!vars)
    OBVIOUS
  <2> USE DEF Abstract!Next, Abstract!vars, Abstract!Spend, Abstract!Grant
  <2>1. ASSUME NEW p \in Procs, pc[p] # "start"
        PROVE  Spends(p) \in {digest(c) : c \in PossibleChallenges}
    <3>1. job[p].envelope.challenge \in challenges
      BY <2>1 DEF TypeOK, Jobs
    <3>2. QED
      BY <3>1 DEF Spends, TypeOK
  <2>2. ASSUME NEW p \in Procs, Rename(p)
        PROVE  Abstract!Next
    <3>1. /\ Spends(p) \notin cache.consumed
          /\ cache'.consumed = cache.consumed \cup {Spends(p)}
      BY <2>2, RenameSpends
    <3>2. Granted' = Granted
      <4>1. ASSUME NEW q \in Procs, PrintAllow(q)
            PROVE  FALSE
        BY <2>2, <4>1 DEF Rename, PrintAllow, Goto, TypeOK
      <4>2. QED
        BY <4>1, GrantStep
    <3>3. pc[p] # "start"
      BY <2>2 DEF Rename
    <3>4. QED
      BY <2>1, <3>1, <3>2, <3>3
  <2>3. ASSUME NEW p \in Procs, PrintAllow(p)
        PROVE  Abstract!Next
    <3>1. pc[p] = "unlocked" /\ UNCHANGED cache
      BY <2>3 DEF PrintAllow, files
    <3>2. Granted' = Granted \cup {<<p, Spends(p)>>}
      BY <2>3, PrintGrants
    <3>3. Spends(p) \in cache.consumed
      BY <3>1 DEF Inv, SaveDiscipline, Saved
    <3>4. \A q \in Procs : <<q, Spends(p)>> \notin Granted
      BY <3>1 DEF Inv, SpentOnce, Saved, Granted
    <3>5. QED
      BY <2>1, <3>1, <3>2, <3>3, <3>4
  <2>4. CASE UNCHANGED cache /\ Granted' = Granted
    BY <2>4
  <2>5. QED
    BY <2>2, <2>3, <2>4, CacheStep, GrantStep
<1>3. QED
  BY <1>1, <1>2, TypeCorrect, Discipline, PTL DEF Spec, ImplementsSingleUse, Abstract!Spec
=============================================================================
