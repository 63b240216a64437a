----------------------------- MODULE LocalFiles -----------------------------
(***************************************************************************)
(* How the commands write the files they leave behind, one system call per *)
(* step: keys, private badges, wallet snapshots, token configurations, the *)
(* replay cache, the votes of the governance service, and the public JSON  *)
(* files (proofs, challenges, envelopes).                                  *)
(*                                                                         *)
(* All commands of a behaviour have the same file for their output: files  *)
(* of different kinds never meet.  serde_json writes straight into the     *)
(* file, so that a value arrives in two parts; the value a process writes  *)
(* is named after the process, and the file is whole if both its parts are *)
(* of one process.  Process crashes keep what was written.  After a power  *)
(* loss a file may have any of the contents it had since it was last       *)
(* synced, and a rename may or may not have happened.                      *)
(***************************************************************************)
EXTENDS Naturals, Sequences, FiniteSets

CONSTANTS
    Procs,    \* invocations of commands
    Kinds,    \* the kinds of files that are looked at
    Target,   \* path of the output file; process p has the temporary file p
    Absent    \* no file under this path

KeyKinds == {"presenter_key", "lez_account_key", "lez_private_account_key"}
AtomicKinds == {"replay_cache", "votes"}
SecretKinds == KeyKinds \cup {"badge", "snapshot", "votes"}
AllKinds == SecretKinds \cup {"replay_cache", "token", "public"}

Paths == Procs \cup {Target}

Values == Procs \cup {Absent}
File == [content : UNION {[1 .. n -> Values] : n \in 0 .. 2}, private : BOOLEAN]

ASSUME LocalFilesAssumption ==
    /\ Kinds \subseteq AllKinds
    /\ Target \notin Procs /\ IsFiniteSet(Procs)
    /\ Absent \notin Procs \cup File

VARIABLES
    kind,       \* the kind of the output file, fixed at the start
    files,      \* path -> Absent or [content, private]
    disk,       \* path -> what may be found there after a power loss
    rest,       \* process -> the steps it still has to take
    status,     \* process -> "idle", "running", "done" or "stopped"
    creators,   \* history: token create commands without --dry-run
    token,      \* the token on chain: "none", "created" or "minted"
    announced,  \* history: processes that reported their file as written
    shown,      \* history: keys that a show command printed
    superseded, \* history: whose file others wrote to, or a power loss took
    exposed,    \* history: whose values the user made readable for others
    powerLost   \* history: there was a power loss since the last replacement

vars == <<kind, files, disk, rest, status, creators, token, announced, shown, superseded,
          exposed, powerLost>>

History == <<announced, shown, superseded, exposed, powerLost>>

---------------------------------------------------------------------------
(* The writers, as the system calls they make.                             *)

\* Mutant: an existing key file is taken over.
write_private_json_new_truncating ==
    <<"open_private", "restrict", "put", "finish", "sync">>

\* workflow.rs: keys.  The file must not exist.
write_private_json_new == <<"create_new", "put", "finish", "sync">>

\* Mutant: the permissions are restricted when the value is written.
write_private_json_late == <<"open_private", "put", "finish", "restrict", "sync">>

\* workflow.rs: badges.
write_private_json == <<"open_private", "restrict", "put", "finish", "sync">>

\* input.rs: snapshots.
input_write_private_json == <<"open_private", "restrict", "put", "finish">>

\* workflow.rs, input.rs: proofs, challenges, envelopes.
write_json == <<"open", "put", "finish">>

\* tokenstudio-config: token configurations, through fs::write.
config_write_json == <<"open", "put", "finish">>

\* workflow.rs: the replay cache.
write_json_atomic == write_json \o <<"rename">>

\* Mutant: the state file is renamed before it is synced.
write_private_json_atomic_unsynced ==
    <<"open_private", "restrict", "put", "finish", "rename">>

\* proofgate-governance: the state file.
write_private_json_atomic ==
    <<"open_private", "restrict", "put", "finish", "sync", "rename">>

\* The path a process writes to before it renames.
at(p) == IF kind \in AtomicKinds THEN p ELSE Target

Whole(v) == <<v, v>>

Holds(path, v) == files[path] # Absent /\ files[path].content = Whole(v)

---------------------------------------------------------------------------
(* Starting commands.                                                      *)

Init ==
    /\ kind \in Kinds
    /\ files = [path \in Paths |-> Absent]
    /\ disk = [path \in Paths |-> {Absent}]
    /\ rest = [p \in Procs |-> <<>>]
    /\ status = [p \in Procs |-> "idle"]
    /\ creators = {}
    /\ token = "none"
    /\ announced = {} /\ shown = {} /\ superseded = {} /\ exposed = {}
    /\ powerLost = FALSE

Start(p, steps) ==
    /\ status[p] = "idle"
    /\ status' = [status EXCEPT ![p] = "running"]
    /\ rest' = [rest EXCEPT ![p] = steps]
    /\ creators' = IF "wallet_new" \in {steps[i] : i \in DOMAIN steps}
                   THEN creators \cup {p} ELSE creators
    /\ UNCHANGED <<kind, files, disk, token, History>>

\* A key file holds the secret in its first part and in its second the public
\* key or the account id that follows from it.
signing_key(content) == content[1] = content[2]
private_key(content) == content[1] = content[2]
identity(content) == content[1] = content[2]

generate_presenter_key(p) ==
    /\ kind = "presenter_key"
    /\ Start(p, write_private_json_new)

generate_lez_account_key(p) ==
    /\ kind = "lez_account_key"
    /\ private_key(Whole(p))
    /\ Start(p, write_private_json_new)

generate_lez_private_account_key(p) ==
    /\ kind = "lez_private_account_key"
    /\ identity(Whole(p))
    /\ Start(p, write_private_json_new)

\* What the wallet's answer to wallet snapshot may be: an account, or one of the
\* ways in which the mention of the account or the output is not usable.
WalletAnswers ==
    {"account", "InvalidPrivateAccountMention", "WalletCommandFailed",
     "MissingWalletJson", "InvalidAccount"}

capture_wallet_snapshot(p, answer) ==
    /\ kind = "snapshot"
    /\ answer = "account"
    /\ Start(p, input_write_private_json)

\* Commands whose output file is written at their end: claims and compositions,
\* verifications, votes, and everything that is published.
WriteOutput(p) ==
    \/ kind = "badge" /\ Start(p, write_private_json)
    \/ kind = "replay_cache" /\ Start(p, write_json_atomic)
    \/ kind = "votes" /\ Start(p, write_private_json_atomic)
    \/ kind = "public" /\ Start(p, write_json)

\* token select takes the operator's word for the token; token create has the
\* wallet create it first, unless it is a dry run.
TokenSelect(p) ==
    /\ kind = "token"
    /\ Start(p, config_write_json)

TokenCreate(p, dry_run) ==
    /\ kind = "token"
    /\ Start(p, IF dry_run THEN config_write_json
                ELSE <<"wallet_new">> \o config_write_json)

---------------------------------------------------------------------------
(* The steps.                                                              *)

IsNext(p, op) == status[p] = "running" /\ rest[p] # <<>> /\ Head(rest[p]) = op

Advance(p) ==
    /\ rest' = [rest EXCEPT ![p] = Tail(@)]
    /\ UNCHANGED <<kind, status, token, creators, shown, announced>>

\* The file under path is now file, which a power loss may or may not undo.
Put(path, file) ==
    /\ files' = [files EXCEPT ![path] = file]
    /\ disk' = [disk EXCEPT ![path] = @ \cup {file}]

\* Processes that have the output file open.
Writing == {p \in Procs : /\ status[p] = "running" /\ kind \notin AtomicKinds
                          /\ rest[p] # <<>>
                          /\ Head(rest[p]) \in {"restrict", "put", "finish", "sync"}}

\* OpenOptions::create_new with mode 0600: an existing file is an error.
CreateNew(p) ==
    /\ IsNext(p, "create_new")
    /\ files[at(p)] = Absent
    /\ Put(at(p), [content |-> <<>>, private |-> TRUE])
    /\ superseded' = superseded \ {p}
    /\ Advance(p)
    /\ UNCHANGED <<exposed, powerLost>>

\* OpenOptions::create.truncate, File::create: a new file gets the mode that is
\* asked for, an old one is emptied and keeps its own.
Open(p) ==
    /\ IsNext(p, "open") \/ IsNext(p, "open_private")
    /\ Put(at(p), [content |-> <<>>,
                   private |-> IF files[at(p)] = Absent
                               THEN IsNext(p, "open_private")
                               ELSE files[at(p)].private])
    /\ superseded' = IF at(p) = p THEN superseded
                     ELSE Procs \ (IF Writing = {} THEN {p} ELSE {})
    /\ Advance(p)
    /\ UNCHANGED <<exposed, powerLost>>

\* File::set_permissions(0600).
Restrict(p) ==
    /\ IsNext(p, "restrict")
    /\ Put(at(p), [files[at(p)] EXCEPT !.private = TRUE])
    /\ Advance(p)
    /\ UNCHANGED <<superseded, exposed, powerLost>>

\* Two writes at the process's own offset.  What others wrote behind it stays;
\* a hole before it reads as zeros, which are nobody's.
Write(p) ==
    /\ IsNext(p, "put") \/ IsNext(p, "finish")
    /\ LET offset == IF IsNext(p, "put") THEN 1 ELSE 2
           old == files[at(p)].content
           size == IF Len(old) > offset THEN Len(old) ELSE offset
       IN  Put(at(p), [files[at(p)] EXCEPT !.content =
                          [i \in 1 .. size |-> IF i = offset THEN p
                                               ELSE IF i \in DOMAIN old THEN old[i]
                                               ELSE Absent]])
    /\ Advance(p)
    /\ UNCHANGED <<superseded, exposed, powerLost>>

\* File::sync_all.
Sync(p) ==
    /\ IsNext(p, "sync")
    /\ disk' = [disk EXCEPT ![at(p)] = {files[at(p)]}]
    /\ Advance(p)
    /\ UNCHANGED <<files, superseded, exposed, powerLost>>

\* fs::rename of the temporary file: the old or the new file is found after a
\* power loss, the new one as far as it was on disk.
Rename(p) ==
    /\ IsNext(p, "rename")
    /\ files' = [files EXCEPT ![Target] = files[p], ![p] = Absent]
    /\ disk' = [disk EXCEPT ![Target] = @ \cup (disk[p] \ {Absent}),
                            ![p] = {Absent}]
    /\ superseded' = Procs \ {p}
    /\ powerLost' = FALSE
    /\ Advance(p)
    /\ UNCHANGED exposed

\* WalletInvocation::run for token new (external): a second token cannot have
\* the same definition account.
WalletNew(p) ==
    /\ IsNext(p, "wallet_new")
    /\ token = "none"
    /\ token' = "created"
    /\ rest' = [rest EXCEPT ![p] = Tail(@)]
    /\ UNCHANGED <<kind, files, disk, status, creators, History>>

\* The command prints what it wrote and ends.
Report(p) ==
    /\ status[p] = "running" /\ rest[p] = <<>>
    /\ status' = [status EXCEPT ![p] = "done"]
    /\ announced' = announced \cup {p}
    /\ UNCHANGED <<kind, files, disk, rest, token, creators, shown, superseded,
                   exposed, powerLost>>

\* A step fails, which ends the command with an error, or the process is killed:
\* what was written stays, temporary files too.
Stop(p) ==
    /\ status[p] = "running"
    /\ status' = [status EXCEPT ![p] = "stopped"]
    /\ rest' = [rest EXCEPT ![p] = <<>>]
    /\ UNCHANGED <<kind, files, disk, token, creators, History>>

\* Processes end and every file is one of those it may be on disk.
PowerLoss ==
    /\ files' \in {f \in [Paths -> UNION {disk[path] : path \in Paths}] :
                      \A path \in Paths : f[path] \in disk[path]}
    /\ disk' = [path \in Paths |-> {files'[path]}]
    /\ status' = [p \in Procs |-> IF status[p] = "running" THEN "stopped" ELSE status[p]]
    /\ rest' = [p \in Procs |-> <<>>]
    /\ superseded' = IF kind \in KeyKinds \cup {"badge"} THEN superseded ELSE Procs
    /\ powerLost' = TRUE
    /\ UNCHANGED <<kind, token, creators, announced, shown, exposed>>

---------------------------------------------------------------------------
(* Readers and the user.                                                   *)

ensure_private_file(file) == file.private

\* read_json: a file that does not parse is an error.
read_json(path) == files[path] # Absent /\ Len(files[path].content) = 2

\* presenter public-key, on-chain account-id, on-chain private-account-id.
ShowKey ==
    /\ kind \in KeyKinds
    /\ files[Target] # Absent
    /\ ensure_private_file(files[Target])
    /\ read_json(Target)
    /\ CASE kind = "presenter_key"   -> signing_key(files[Target].content)
         [] kind = "lez_account_key" -> private_key(files[Target].content)
         [] OTHER                    -> identity(files[Target].content)
    /\ shown' = shown \cup {files[Target].content[2]}
    /\ UNCHANGED <<kind, files, disk, rest, status, token, creators, announced,
                   superseded, exposed, powerLost>>

\* mint_token_invocation.
mint_token_invocation(holder, amount) == holder # "" /\ amount > 0

\* token mint reads the configuration and runs the wallet (external), which
\* needs the token; a dry run stops before and changes nothing.
TokenMint(holder, amount) ==
    /\ kind = "token"
    /\ read_json(Target)
    /\ mint_token_invocation(holder, amount)
    /\ token # "none"
    /\ token' = "minted"
    /\ UNCHANGED <<kind, files, disk, rest, status, creators, History>>

\* The user makes a file readable for others while no command writes it.
Expose ==
    /\ Writing = {}
    /\ files[Target] # Absent
    /\ files[Target].private
    /\ Put(Target, [files[Target] EXCEPT !.private = FALSE])
    /\ exposed' = exposed \cup {files[Target].content[i] : i \in DOMAIN files[Target].content}
    /\ UNCHANGED <<kind, rest, status, token, creators, announced, shown,
                   superseded, powerLost>>

\* The user deletes an unfinished key file that was left behind.
RemoveTorn ==
    /\ kind \in KeyKinds
    /\ Writing = {}
    /\ files[Target] # Absent
    /\ ~read_json(Target)
    /\ Put(Target, Absent)
    /\ UNCHANGED <<kind, rest, status, token, creators, History>>

Command(p) ==
    \/ generate_presenter_key(p)
    \/ generate_lez_account_key(p)
    \/ generate_lez_private_account_key(p)
    \/ \E answer \in WalletAnswers : capture_wallet_snapshot(p, answer)
    \/ WriteOutput(p)
    \/ TokenSelect(p)
    \/ \E dry_run \in BOOLEAN : TokenCreate(p, dry_run)

Next ==
    \/ \E p \in Procs :
          \/ Command(p)
          \/ CreateNew(p) \/ Open(p) \/ Restrict(p) \/ Write(p) \/ Sync(p)
          \/ Rename(p) \/ WalletNew(p) \/ Report(p) \/ Stop(p)
    \/ PowerLoss \/ ShowKey \/ Expose \/ RemoveTorn
    \/ \E holder \in {"", "holder"}, amount \in 0 .. 1 : TokenMint(holder, amount)

Spec == Init /\ [][Next]_vars

---------------------------------------------------------------------------
(* Properties.                                                             *)

\* A file that is there holds one value from its first byte to its last.
IsWhole(file) == file = Absent \/ \E v \in Procs : file.content = Whole(v)

\* The types, and what is found under the path of each kind whatever processes
\* crash and write at the same time: the votes of the governance service are
\* absent or whole even after a power loss, the replay cache unless power was
\* lost since its last replacement, because write_json_atomic does not sync; and
\* a configuration of token create names a token that exists.
FilesWellFormed ==
    /\ kind \in Kinds
    /\ files \in [Paths -> File \cup {Absent}]
    /\ \A path \in Paths : files[path] \in disk[path] /\ disk[path] \subseteq File \cup {Absent}
    /\ status \in [Procs -> {"idle", "running", "done", "stopped"}]
    /\ token \in {"none", "created", "minted"}
    /\ kind = "votes" => IsWhole(files[Target])
    /\ kind = "replay_cache" => IsWhole(files[Target]) \/ powerLost
    /\ \A v \in creators : (kind = "token" /\ Holds(Target, v)) => token # "none"

\* What a command reported as written is what the file holds.  For keys nothing
\* ends this, neither other generate commands nor crashes nor a power loss; a
\* badge survives a power loss, and like the other files is replaced only by a
\* later command.  A key that was shown is in the file unless power was lost
\* before the command that generated it was done.
AnnouncedIsKept ==
    /\ \A v \in announced :
          kind \in KeyKinds \/ v \notin superseded => Holds(Target, v)
    /\ \A v \in shown : Holds(Target, v) \/ powerLost

\* Nothing of a key, a badge, a snapshot or a vote is ever in a file that others
\* may read, unless the user made that very value readable: an old public file
\* is restricted before it is filled (write_private_json and its siblings).
SecretsStayPrivate ==
    kind \in SecretKinds =>
      \A path \in Paths :
        files[path] # Absent /\ ~files[path].private =>
          \A i \in DOMAIN files[path].content : files[path].content[i] \in exposed
=============================================================================
