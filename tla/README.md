# TLA+ model of LEZ TokenStudio / ProofGate

TokenStudio lets the holder of a private LEZ token account prove "my balance is
at least N" without revealing account or balance, and lets three kinds of
verifiers act on the proof: an off-chain verifier command, a governance service
that counts one vote per holder, and an on-chain gate that issues private access
badges. Proofs also travel over Logos Messaging, where they can admit a member to a
chat group, and a Basecamp desktop app drives the command line. This directory models
those parts in TLA+, model-checks them with TLC on small instances and proves, with
TLAPS and for instances of any size, every safety property the runs check.

Paths below are relative to the repository root.

## 1. Inventory

| Component | State | Operations | Interacts with |
|---|---|---|---|
| Types and challenges (`crates/attestation-types`) | none (values) | `GateContext::context_hash`, `AttestationJournal::new/is_expired`, `VerificationChallenge::new/digest/is_expired/has_valid_window` | used by everything |
| Circuit and account formats (`crates/attestation-circuit`, `crates/lez-compat`, `guests/`) | none | `evaluate`, `compute_root`, `commitment` | run inside the RISC Zero guest |
| Prover (`crates/attestation-prover`) | proof files | `prove`, `verify_receipt`, `prove_live`, `prove --input`, `wallet snapshot`, `sequencer-root` | sequencer (membership and root), wallet |
| Off-chain verifier (`crates/attestation-verifier`) | replay cache in memory | `create_challenge`, `present`, `verify` | called by CLI and governance |
| Verifier command (`crates/attestation-cli`: `challenge create`, `present`, `verify`) | challenge and envelope files, replay-cache file, its lock file | issue, present, lock / load / verify / save / unlock / print | other invocations, through the files |
| Governance service (`crates/proofgate-governance`) | one state file (pending, consumed, votes), its lock file, challenge files | `challenge`, `cast`, `status` | other invocations, `verify` |
| On-chain gate (`crates/balance-gate-core`, `programs/balance-gate`) | `GateState` account, badge accounts | `Initialize`, `Claim` | sequencer |
| On-chain client (`crates/lez-gate-sdk`, `attestation-cli/src/workflow.rs`) | gate, state, claim and badge files | `gate init`, `deploy`, `init`, `init-submit`, `state-fetch`, `claim-create`, `simulate`, `compose`, `claim-submit` | sequencer by JSON-RPC, gate program by proof composition |
| Messaging (`crates/proofgate-messaging`) | messages still to send, buffer of observed messages | `pack_envelope`, `send_bundle`, `receive_envelope` | Logos Messaging daemon |
| Chat admission (`attestation-cli`: `messaging ...`) | challenge files, replay cache, group membership | `admission-challenge`, `send-challenge`, `receive-challenge`, `send`, `receive-verify` | messaging, verifier |
| Basecamp process bridge (`apps/basecamp-tokenstudio`) | one `QProcess`, cancel timers, output buffers, configured binary | `configureProofgateBinary`, `start`, `cancel`, finish, fail | the CLI binary |
| Configuration (`crates/tokenstudio-config`) | JSON files | validate, read, write, `token select/create/mint` | everything, wallet |
| Files (`workflow.rs`, `input.rs`, `tokenstudio-config`, governance `main.rs`) | key, badge, snapshot, cache, vote, token and public files with their permissions | seven writers, each with its own order of open, restrict, write, sync and rename | the file system |

What is hard here, and what correctness means for each part:

* **Replay.** "Single use" is not a data structure but a protocol between
  processes: advisory lock, load, decide, temporary file, rename, unlock, print.
  It must survive any interleaving, a crash at every step and a failing write:
  a challenge is answered ALLOW at most once, no save forgets another process's
  consumption, and no crash leaves a cache nobody can read.
* **Meaning of ALLOW.** It must imply that a qualifying account was in the tree
  when the verifier pinned its root, and that the presenter signed this challenge
  with this receipt, however an envelope was assembled; and honest holders must
  not be turned away by the four time windows and two clocks.
* **Governance.** One state file, replaced as a whole: no vote lost, doubled or
  changed; a challenge reaches a holder only after the service remembers it.
* **On-chain gate.** Proving takes minutes, so the gate moves between a claimant's
  fetch, its re-fetch, its proof and inclusion. Claim numbers must be gapless,
  one badge per account, a claim useless to others and useless twice, included
  only in its window.
  A claim that was tried offline must not be proved for minutes in vain.
* **Files.** A key whose public half was handed out must never be replaced; a secret
  must not be readable for others even for a moment; what must be whole after a
  crash or a power loss depends on which of the seven writers was used.
* **Messaging.** Chunks are lost, repeated, reordered, pushed out of a rolling
  window and mixed with what others post, under any transfer id; the buffer is bounded.
  What is received must be what an accepted sender packed, and neither the network nor
  others must make the receive of a named transfer fail.
* **Admission.** Members answer each other's challenges and forward each other's
  envelopes; `receive-verify` may die after the challenge is consumed. Whoever is
  admitted must have answered the challenge bound to that group and member, once and
  before it expired, however long the command waited for the answer.
* **Basecamp bridge.** One `QProcess` and its buffers are reused, a cancel timer
  outlives its operation, a failed start is noticed twice, and refused starts and a
  new binary change the error text of the operation before.

`PROJECT.json` lists every hazard with its source line and the properties that
would catch it.

## 2. Plan

Done, in this order (most important behaviour first):

1. `Attestation`: the pure functions.
2. `AttestationFlow`: what ALLOW means, end to end.
3. `SingleUse` (abstract) and `ReplayVerifier` (detailed), with
   `ReplayVerifier_proofs`.
4. `Governance`, which also implements `SingleUse`.
5. `AccessLedger` (abstract) and `BalanceGate` (detailed).

6. `Messaging`, then `Admission` on top of what `Messaging` and `ReplayVerifier`
   promise.
7. `ProcessBridge`.
8. `LocalFiles`: every writer, with crashes and power loss; then the operator's
   commands, `simulate` and `compose` in `BalanceGate`, dev mode, input files and the
   sequencer's two answers in `AttestationFlow`, the daemon's replies in `Messaging`,
   and the rest of the backend in `ProcessBridge`.

9. Proofs: `Attestation_proofs` (the pure functions), `ReplayVerifier_proofs`,
   `Governance_proofs`, `BalanceGate_proofs`, `Admission_proofs`, `LocalFiles_proofs`,
   `AttestationFlow_proofs`, and `Channels_proofs` (`ProcessBridge` and `Messaging`).

Next:

10. Shorter proofs where lemmas repeat one another, and facts about the trees that are
    only model-checked so far: that a path the sequencer gives out leads to its root.

## 3. Modules and the code

| Module | Models | Composes / implements |
|---|---|---|
| `Attestation` | contexts, journals, challenges, circuit, presentation, verification policy, as pure operators | |
| `AttestationFlow` | tree growth, `prove` live and from input files, `sequencer-root`, `challenge create`, `present`, `verify` with in-memory cache; two clocks | extends `Attestation` |
| `ReplayVerifier` | concurrent `verify` processes over lock, cache and temporary files; crashes and I/O failures | extends `Attestation`, implements `SingleUse` |
| `SingleUse` | abstract: spend, then grant once | |
| `Governance` | concurrent `challenge` and `cast` processes over one state file | extends `Attestation`, implements `SingleUse` |
| `BalanceGate` | operator (gate file to initialization), claimants (fetch to send, `simulate` and `compose` included), gate program, sequencer | extends `Attestation`, implements `AccessLedger` |
| `AccessLedger` | abstract: one policy, an append-only ledger of accounts | |
| `Messaging` | packing, sending, the daemon's replies, and the receiver's polling loop over an unreliable conversation | |
| `Admission` | admission challenges, their exchange, `receive-verify` up to `add_group_member` | extends `Attestation`; uses the promises of `Messaging` and `ReplayVerifier` as steps |
| `ProcessBridge` | the Basecamp backend: configured binary, refused, failed and late starts, output, cancel, kill timer, finish, closing | |
| `LocalFiles` | the writers of all files as system calls; key, snapshot and token commands; crashes, power loss, permissions | |
| `Attestation_proofs` | lemmas about the pure functions that the other proofs cite | extends `Attestation` |
| `<Module>_proofs` | the inductive invariant of a module and its theorems (section 5), for `AttestationFlow`, `ReplayVerifier`, `Governance`, `BalanceGate`, `Admission`, `LocalFiles` | extends the module and, where it verifies presentations, `Attestation_proofs` |
| `Channels_proofs` | the same for the two channels that carry what commands say, `ProcessBridge` and `Messaging` | extends both, which is why the specification of the bridge is `BridgeSpec` and not `Spec` |
| `MC*` | the instances TLC checks | |

`PROJECT.json` maps each definition to its lines. Conventions:

* **Bytes are abstracted, decisions are not.** SHA-256 is an injective tagged
  constructor, an Ed25519 signature is the pair (key, message), a receipt is the
  pair (image, journal). These are the idealisations of a symbolic model:
  no collisions, no forgeries, sound proofs. An `Option` is a set of at most one
  element. The checks of `validate_claims_and_signature`, `evaluate` and
  `evaluate_claim` are tables in the order of the code's early returns
  (`first_failure`), because the order decides which error a caller sees.
* **Times keep their width.** `U64_MAX` is a constant; saturating and checked
  additions are translated one by one.
* **A process is an element of `Procs`** with a program counter; one step per
  system call that other processes can observe. Leaving the command, in whatever
  way, releases the lock (`Exit`), as dropping the `File` or the kernel does.
  Between two such steps the process may `Crash`, and a file operation may `Fail`;
  where the two leave the same behind they are one action, `Stop`.
* **Files** are absent, torn (a prefix of their JSON) or whole.
* `ReplayVerifier` reads the clock in `Start`, before it waits for the lock
  (`run_verify`); `Governance` reads it in `Issue` and `Cast`, under the lock.
  The two differ in the code.
* In `Governance` an invocation's random nonce is the invocation itself, and in
  `ReplayVerifier` nonces are drawn without repetition: 32 bytes of `OsRng`
  do not repeat.
* In `BalanceGate` a claimant names its presenter key and its badge account. The
  sequencer is external and is modelled from what the code relies on: a private
  transaction is included when its public pre-state is current, the block time is
  in its window and its badge account is new; it may be delivered late and more
  than once. A behaviour is one of `Instances`: a race of claimants at one moment, a
  vigil of one claimant while time passes, or a retry of one claimant with two proofs. Once the gate is open the operator's
  files can change nothing any more (`init-submit` refuses) and are forgotten.
  `SubmitInitialization` does not check the clock because
  `init-submit` does not.
* In `Messaging` an envelope has a short sequence of bytes, so that cutting and
  joining are real operations on sequences. One poll sees *any* sequence of up to
  `WINDOW` posts, which covers loss, repetition, reordering and a rolling window
  in one definition, and `observed` goes through it message by message. A message
  names its true sender; that is what the chat module is trusted for. Nothing else is
  assumed of what is posted besides the bundles (`Noise`): anyone may post chunks and
  manifests under anyone's transfer id. A call of the daemon may fail in every way `call` tells apart,
  and a message may be posted although its confirmation fails.
* In `Admission` a transfer yields an envelope that a manifest of its sender commits to
  (`ReceivedWasPacked`), whoever signed it, with the time of sending kept as history;
  waiting for it is no step of its own, because challenge files do not change
  meanwhile and the clock is read after it. Verification with its replay cache is one step
  (`ImplementsSingleUse`). A nonce has a random half and a half that is random or
  the binding, as in `bind_admission_challenge`.
* In `ProcessBridge` operations are numbered as `start` accepts them.
  The history variable `overdue` records that `waitForStarted` once gave up on a process
  that was still starting.
* In `LocalFiles` all commands of a behaviour write the same file: files of different
  kinds never meet. A value arrives in two parts, and a file is whole if both are of
  one command. `disk` holds what a power loss may leave under a path: all contents
  since the last `sync_all`. A synced new file is taken to have its directory entry on
  disk too; a rename may be undone.
* In `Attestation` a receipt made in dev mode carries no proof; `prove` and
  `run_prove` refuse dev mode and unreadable values of it, `verify_receipt` refuses
  such a receipt.
* Definitions introduced by a comment "Mutant:" are plausible mistakes in the
  definition that follows. They are used nowhere; substituting one for its
  original must violate a property, which shows that the property has teeth.

## 4. What is model-checked

| Run | Bounds | Shows |
|---|---|---|
| `attestation_flow` | tree of 4 leaves, 2 proofs, 2 challenges, clock 0..3, holder clocks up to the skew ahead, TTL 0, legal, too long | `AcceptedBalanceWasCommitted`, `AcceptedWasPresented`: over *every* envelope that can be assembled from the files around. `HonestPresentationAllowed`: no honest presentation is refused for its times |
| `replay` | 2 processes, 2 challenges, clock 0..1 | `AllowAtMostOnce`, `CacheNeverTorn`, `ConsumedStaysConsumed`, the inductive `Inv`, refinement of `SingleUse`; `EveryInvocationEnds`: every started invocation ends |
| `replay_stale_clock` | 2 processes, clock 0..2 | **violated**: see findings |
| `governance` | 4 processes, 2 voters, 2 choices, 2 pending challenges, 2 proposals with mismatched gate files, clock 0..2 | `BooksBalance`, `AcceptedVotesCount`, `HandedOutIsKnown`, `VotesMatchProposal`, `VotesAreFinal`, `NoVoteAfterExpiry`, refinement of `SingleUse`; no ended process holds the lock (`TypeOK`) |
| `governance_stuck` | 2 processes, 1 pending challenge | **violated**: see findings |
| `gate` | race: 2 claimants, no time; vigil: 1 claimant, gates without expiry and with expiry 0 and 1, issue times 0..2, clock and `U64_MAX` 3, proof ages 0 and 1 | `ClaimsNumbered`, `ClaimIsBound`, `HolderHasBadge`, `NoProvingInVain`; `IncludedInTime` at both inclusive ends of the window; refinement of `AccessLedger`, whose policy is that of a gate file although the expiry is sent as a plain number |
| `badge_overwritten` | retry: 1 claimant, 2 proofs, no time | **violated**: see findings |
| `messaging` | 2 transfers by 2 senders, 3 envelopes of 2 bytes in 1 or 2 chunks, chat text, a chunk out of range and a complete forged transfer of one sender under the id of the other, windows of 2, a buffer of exactly one transfer, receivers with and without `--transfer-id` and `--expected-sender` | `ReceivedWasPacked`: received is what a manifest of an accepted sender commits to, and what it packed if it sends manifests with `send` only; `HonestNeverRejected` when both options are given, whatever others post; a bounded buffer without repetitions |
| `admission` | 2 groups, 2 members, 2 challenges, 2 `receive-verify`, time that outlives a challenge | `AdmittedAnsweredOwnChallenge`, `ChallengeAdmitsOnce`; `LateAnswersAdmitNobody`: an answer sent after the expiry admits nobody, although the command was started before |
| `bridge` | 3 operations a session, 2 pending kill timers, a command with and one without input files | `ReportedTruly`, `CancelledEnds`, the view is never busy without a process |
| `bridge_restart` | the same | **violated**: see findings |
| `local_files` | 3 commands on one file, 9 kinds of files | `FilesWellFormed`: the votes are whole even after a power loss, the replay cache unless power was lost since it was replaced, no configuration of a token that was not created. `AnnouncedIsKept`: reported keys are never replaced or lost. `SecretsStayPrivate` |

**Why the bounds are enough.** Two verifier processes are one inside the lock and one waiting
for it, or one that has finished and one that comes later; the theorems cover any
number of them. Two challenges tell "forgets mine" from "forgets yours". Four governance invocations
are two issues and two casts, enough for a double vote with two challenges and
for two voters. The pending limit of 2 is reached and exceeded. Two racing claimants,
each with retries and duplicates, are the winner and the one whose files are stale;
the vigil meets each end of the window and the u64 limit from both sides. Three
commands are one that writes, one that races with it and one that comes after a
crash. Two transfers and two chunks are
enough to mix transfers, to miss a chunk and to conflict on one; a window smaller than
a transfer forces several polls; a bundle goes out once, since a window may repeat any post. Two groups and two members give every way to
answer somebody else's challenge. Two timers outlive two operations while a
third runs. Clocks run past every window
by at least one unit, so each boundary is met from both sides; only in `admission` time
leaps past the life of a challenge. Constants of
milliseconds are scaled to 1..3, which keeps their order.
Symmetry is used for interchangeable processes, nonces, voters, choices,
claimants, groups, members and file commands in runs that check only safety.

Deadlock is not checked: all models are sets of commands that users may stop
issuing, and with bounded processes and clocks every behaviour comes to rest. That nobody
rests *inside* a command is what `EveryInvocationEnds` and `CancelledEnds` check.

**Fairness.** `WF(Step(p))` for every process: the operating system runs a process
that can run, and since every step of the holder of the lock is also fair and each
holder passes once through the lock, a waiting process meets a free lock for good.
`Fail` and `Crash` are never fair. In `ProcessBridge` an armed timer fires
(`WF(KillTimer)`, Qt's event loop) and a process that received SIGKILL ends; a command
may run for ever and ignore SIGTERM, and nobody has to press a button. The other
modules state safety only: claimants on chain, senders and chat members are users who
may stop at any time, and the code has no retry loop of its own that would justify
fairness for them. (That the receiver's polling loop ends with its timeout is plain from
the loop.)

## 5. What is proved

Each `_proofs` module states an inductive invariant (`Inv` in `ReplayVerifier`,
`BridgeInv` and `WireInv` in `Channels_proofs`, `IInv` in the others), proves that the initial states satisfy
it and every action keeps it, one lemma per action, and derives the properties of section
4 from it. TLC has checked these on the instances of the runs but for `WireInv`, which
quantifies over unbounded domains, so there TLC checks the three properties that follow
from it. The theorems hold for every value of the constants under named assumptions,
which TLC evaluates in every run:

| Module | Assumptions |
|---|---|
| `Attestation` | `TimeAssumption`: the time limits are naturals |
| `AttestationFlow` | `FlowAssumption`: the tree starts with accounts of the model, an empty leaf is not the leaf of an account, balances and times are naturals, and no holder's clock is ahead of the verifier's by more than `MAX_CLOCK_SKEW_MS` or beyond a u64 (the clocks `HonestPresentationAllowed` is about) |
| `ReplayVerifier` | `ProcAssumption`: the value "nobody" is not a process; `BoundAssumption`: bounds are naturals |
| `Governance` | `GovernanceProcs`, `GovernanceBounds`: the same; `GateAssumption`: a gate file's gate id names its proposal |
| `BalanceGate` | `BalanceGateAssumption`: limits, horizons, expiries and issue times are naturals, and the proof files of the claimants have genuine receipts |
| `Messaging` | `MessagingAssumption`: sizes and limits are naturals; the buffer has room for a manifest and `MAX_CHUNKS` chunks (the code reserves four times that: `MAX_PENDING_WIRE_MESSAGES` = (128 + 1) * 4); an envelope's bytes are not empty and determine it; options have at most one element; posts that no send command made are text, chunks or manifests, of anyone and under any id |
| `Admission`, `ProcessBridge` | `AdmissionBounds`, `ProcessBridgeBounds`: bounds are naturals |
| `LocalFiles` | `LocalFilesAssumption`: the kinds are those of the module, processes are finitely many, and file names and "absent" are values of their own |

### Pure functions

`Attestation_proofs` says once what the checks guarantee, and the other proofs cite it.
`FirstFailureOk` and `FirstFailureNone`: a chain of early returns answers "Ok" exactly
when none of its conditions holds. From them follow `CreateIssues`, `PresentAnswers`,
`PresentMakes`, `HoldingQualifies`, `EvaluateAttests`, `ProveIsGenuine` (no value of
`RISC0_DEV_MODE` that passes `ensure_real_proving_mode` makes a fake receipt),
`ClaimsHold` with its converse `ClaimsAccepted`, and `VerifyConsumes` with its converse
`VerifyAccepts`. `ComputeRootUnfolds` unrolls the recursion of `compute_root`.

### The flow (`AttestationFlow_proofs`)

| Theorem | Statement |
|---|---|
| `Inductive` | `Spec => []IInv` |
| `TypeCorrect` | `Spec => []TypeOK` |
| `Committed` | `Spec => []AcceptedBalanceWasCommitted` |
| `Presented` | `Spec => []AcceptedWasPresented` |
| `Honest` | `Spec => []HonestPresentationAllowed` |

The properties speak about verdicts on files, so the invariant speaks about where files
come from: a proof is the genuine receipt of a journal that `evaluate` returned for a
qualifying account and a path of some earlier tree (`GenuineProof`), a challenge pins
the root of an earlier tree all of whose leaves had been committed when it was issued
(`PinsRoot`), an envelope joins one such proof to one such challenge (`Joins`). An
accepted envelope put together from parts is shown to equal one the holder made, since
the signature determines key, challenge and receipt, and the receipt the journal. That
the account behind the journal is a leaf of the pinned tree, and not only of the tree
the path was taken from, is `MembershipSound`: a path of the tree's depth from the
commitment of an account to the root of a tree starts at a leaf with that commitment. It
descends level by level from the root: if the running digest of `compute_root` is some
node of level l, it is one of that node's children at level l - 1. The descent, and that
the recursive functions exist at all, are inductions done by hand on a least
counterexample (`LeastIndex`), because the library's induction schemes cannot be
instantiated.

### Replay (`ReplayVerifier_proofs`)

| Theorem | Statement |
|---|---|
| `TypeCorrect` | `Spec => []TypeOK` |
| `Discipline` | `Spec => []Inv` |
| `SingleAllow` | `Spec => []AllowAtMostOnce` |
| `NeverTorn` | `Spec => []CacheNeverTorn` |
| `NeverForgotten` | `Spec => ConsumedStaysConsumed` |
| `Refinement` | `Spec => ImplementsSingleUse` |

`AllowAtMostOnce` speaks about processes that have printed ALLOW and is
not inductive: a process that is about to print must already be known to spend a
challenge of its own, which depends on what was in the cache when it renamed, which
depends on nobody else having renamed since it loaded. `Inv` says just that:
`LockDiscipline` (who is between lock and unlock holds the lock, so there is one such
process), `SaveDiscipline` (what it will save is the file as it is *now* plus its own
challenge, which is not in the file; whoever is past the rename finds its
challenge in the file), `SpentOnce` (two processes past the rename spend different
challenges). At a rename the renaming process's challenge is not in the file while
those of all earlier ones are, which gives `SpentOnce`. From the policy the proofs use one fact, the
lemma `VerifyConsumes`. The refinement maps `spent` to the cache file and
`granted` to the processes that printed ALLOW: `Rename` is `Spend`, `PrintAllow` is
`Grant`, every other step stutters. `TypeCorrect` matters for more than types: it
keeps in memory and on disk only digests of challenges that were retained.

### Governance (`Governance_proofs`)

| Theorem | Statement |
|---|---|
| `Inductive` | `Spec => []IInv` |
| `TypeCorrect` | `Spec => []TypeOK` |
| `Balance` | `Spec => []BooksBalance` |
| `EveryVoteCounts` | `Spec => []AcceptedVotesCount` |
| `RightProposal` | `Spec => []VotesMatchProposal` |
| `HandedOut` | `Spec => []HandedOutIsKnown` |
| `VotesFinal` | `Spec => VotesAreFinal` |
| `NoLateVote` | `Spec => NoVoteAfterExpiry` |
| `Refinement` | `Spec => ImplementsSingleUse` |

The books balance in the file, but a save could unbalance them: `SaveDiscipline` says of
the invocation inside the lock that what it will save is the file as it is now with one
change of its own, one more pending challenge that nobody drew before, or one pending
challenge moved to the consumed ones together with one vote of a presenter that has
none. `VotesCounted` says that the votes of all invocations past the rename are in the
file under different presenters and different challenges. Cardinalities (as many votes as
consumed challenges, the pending limit) follow from the theorems on finite sets.

### The on-chain gate (`BalanceGate_proofs`)

| Theorem | Statement |
|---|---|
| `Inductive` | `Spec => []IInv` |
| `TypeCorrect` | `Spec => []TypeOK` |
| `Numbered` | `Spec => []ClaimsNumbered` |
| `Bound` | `Spec => []ClaimIsBound` |
| `BadgeIsKept` | `Spec => []HolderHasBadge` |
| `ProvedForSomething` | `Spec => []NoProvingInVain` |
| `InTime` | `Spec => IncludedInTime` |
| `Refinement` | `Spec => ImplementsLedger` |

What is included on chain was computed by the program for the gate the claimant fetched,
long before. The invariant therefore says the same of a composed claim (`IsClaim`: the
program returned it for the gate state in its pre-state, for a claim signed for that
state and account) while it is in the memory of the command, in the pool and on
chain. Inclusion compares the pre-state with the gate; since the counter is part of the
state, a second inclusion of any claim on that state is impossible, and the number
the program gave is the next one. `Round` ties the files of a claimant to the step of
its command, and `BadgeKept` says when the badge file may be overwritten.

### Admission (`Admission_proofs`)

| Theorem | Statement |
|---|---|
| `Inductive` | `Spec => []IInv` |
| `TypeCorrect` | `Spec => []TypeOK` |
| `OwnChallengeOnly` | `Spec => []AdmittedAnsweredOwnChallenge` |
| `AdmitsOnce` | `Spec => []ChallengeAdmitsOnce` |
| `NoLateAnswer` | `Spec => []LateAnswersAdmitNobody` |

`Provenance`: messages carry retained challenges only. `Commands`: a `receive-verify`
past its checks works on an envelope its sender sent for a challenge bound to this
admission, no later than the clock reading it verifies with, and one past verification
has its challenge in the cache and made that reading before the expiry. The binding in the
nonce names one group and one member (`BindingIsInjective`).

### The messaging transfer (`Channels_proofs`)

| Theorem | Statement |
|---|---|
| `TransferInductive` | `Spec => []WireInv` |
| `TransferTypeCorrect` | `Spec => []TypeOK` |
| `OnlyWhatWasPacked` | `Spec => []ReceivedWasPacked` |
| `HonestTransferGetsThrough` | `Spec => []HonestNeverRejected` |

A result says nothing of the messages it was assembled from, and the buffer nothing of
who posted them, so the invariant follows the messages: what is posted or still to be
sent under a transfer id is noise or comes from the one bundle packed under that id
(`Covers`), and what the receiver keeps was posted by whom it expects, is valid and is
kept once (`Buffered`). A successful `assemble` found a manifest, which somebody the
receiver accepts posted, and its hash is that of the joined bytes; it does not matter
where the chunks came from. If that sender posts manifests through `send` only
(`ForgesNoManifest`), the manifest is of the bundle packed under the id, and so are the
bytes (`ManifestCommits`): that is `OnlyWhatWasPacked`. A receiver that names no
`--expected-sender` accepts everybody, and then only the first half holds of forgers.

`HonestTransferGetsThrough` needs the opposite direction. Its sender posts nothing else
under the requested id (`KeepsToBundle`), and what others post is not from the expected
sender, so the messages such a receive regards all belong to one bundle (`AskedRegards`), so they are valid, no two of them
conflict (`NoConflicts`), they fit into the buffer (`TransferFits`, by counting chunk
indexes), and `assemble` either lacks one of them or succeeds (`AssembleHonest`). The
last point rests on `ChunksJoin`: the pieces of `slice::chunks`, joined again, are the
bytes that were cut, for every length and chunk size. The recursion in `FlattenSeq` and in
`observed` is unrolled once and for all by `TableExists`, and properties of its rounds
are proved with `IndexInduction`, an induction with a set in the place of the predicate.

### The desktop bridge (`Channels_proofs`)

| Theorem | Statement |
|---|---|
| `BridgeInductive` | `BridgeSpec => []BridgeInv` |
| `BridgeTypeCorrect` | `BridgeSpec => []BridgeTypeOK` |
| `Reporting` | `BridgeSpec => []ReportedTruly` |

`ReportedTruly` does not say why a report made now is the first of its operation. The
invariant adds that, unless a start was given up, the view is busy exactly while the
process of the last operation runs, and that the buffers were cleared when it was
accepted.

### Files (`LocalFiles_proofs`)

| Theorem | Statement |
|---|---|
| `Inductive` | `Spec => []IInv` |
| `WellFormed` | `Spec => []FilesWellFormed` |
| `Kept` | `Spec => []AnnouncedIsKept` |
| `Private` | `Spec => []SecretsStayPrivate` |

A power loss brings back anything the disk may hold, so what is said of files is said of
everything that may be on disk (`Disk`). A report of success is worth something because
of how far the command has come; the invariant follows each command through its writer,
whose remaining calls are always a tail of the same list (`Chain`), and says what the
file holds at each call (`InPlace`, `Replaced`).

### Only model-checked

* Liveness: `EveryInvocationEnds` and `CancelledEnds` are outside the prover's reach.
* That an honest path leads to its root (completeness of `membership_proof`), which
  needs facts about powers of two; the flow's soundness does not use it.
* The violations of section 6, which are counterexamples.

## 6. Findings

* `replay_stale_clock` / `NoAllowAfterExpiry`: `run_verify` reads the clock
  before waiting for the replay lock, and decides with that reading after the wait.
  A verification that waits longer than the rest of the challenge's life prints
  ALLOW for an expired challenge, for which `docs/ERROR_CODES.md` gives denial 1007. It
  is still answered once only. The governance service reads the clock under the lock
  and does not have the problem (`NoVoteAfterExpiry` holds).
* `governance_stuck` / `ExpiredChallengesDoNotBlock`: `issue_challenge` counts expired
  challenges as pending and nothing removes them. Once `MAX_PENDING_CHALLENGES` have
  been abandoned, every request is refused for ever, although `docs/ERROR_CODES.md`
  tells clients to recover from an expired challenge by requesting a new one.
* `bridge_restart` / `OnlyCancelledAreKilled`: the timer armed by `cancel` is not
  disarmed when the cancelled command ends, and acts on whatever the shared `QProcess`
  runs when it fires. A command restarted within the grace period is killed.
* `badge_overwritten` / `LocalBadgeIsCommitted`: `claim-submit` and `compose` write the
  badge over the output file before anything is sent. In the trace a claimant sends a
  claim, runs `compose` with a newer proof into the same file while that claim waits for
  inclusion, and the first claim is then included: the file holds a badge with another
  proof than the one on chain, although `docs/ON_CHAIN_GATE.md` says that inclusion binds
  the local artifact to the committed output. `HolderHasBadge` shows that only such a
  second run separates the two.

Worth knowing, without a run of its own (the first three are hazards that no property
covers, because the code does not rule them out):

* Without `--transfer-id`, `unpack_envelope` looks only at the transfer whose manifest
  came last. If a chunk of that one does not arrive, the receiver times out although its
  buffer holds a complete transfer. `HonestNeverRejected` shows that this does not happen
  with a requested id.
* When `waitForStarted` gives up on a process that is still starting, `failToStart`
  clears `busy` but leaves the process: the next operation is accepted and stands for
  the old process, and an operation may be reported twice. `ReportedTruly` therefore
  promises exactly one report only while no start has timed out (`overdue`).
* The replay cache is renamed without being synced, the governance state after. After a
  power loss the cache may be torn or empty, which stops every verification, or older,
  which lets a consumed challenge be used again within its life (without a
  power loss `FilesWellFormed` excludes the first and `AnnouncedIsKept` the second).
* Nothing ties the presenter key of an envelope to the chat address that is admitted, so
  `AdmittedAnsweredOwnChallenge` says that the member *sent* the answer, not that it
  holds the account: another holder may have signed it.
* `receive-verify` also reads its clock before it waits for the replay lock, as in
  `replay_stale_clock`; `LateAnswersAdmitNobody` shows that it reads it after the
  transfer, so that no answer sent after the expiry is admitted.
* `badge-fetch` asks the sequencer for a public account, while badges are private
  accounts; it therefore finds no badge that `claim-submit` created.
* A half-written key file of a command that died blocks the path until somebody deletes
  it: `write_private_json_new` refuses existing files, and the readers refuse this one.
* A commitment stays in the tree when its account is spent, so a proof speaks about a
  balance that was committed, not about one that is still there.

## 7. Not modelled

* RISC Zero proving and verification, Ed25519, SHA-256: idealised as above.
* The LEZ sequencer, wallet and PPE circuit: external, modelled where the code relies
  on them (commitment tree, inclusion rule).
* Formats: Borsh, JSON, hex, base58 and the parsers; label and version checks of
  configuration files are the one flag `well_formed`.
* `--now-unix-ms`, which replaces the clock on purpose, and the commands that only read
  and print: `status`, `badge-fetch`, `on-chain challenge`, `program-id`, `gate hash`
  and `gate show`.
* The Logos Messaging daemon and `QProcess`: external, by what the code relies on.
* The QML pages, scripts, demos and examples hold no logic of their own.
