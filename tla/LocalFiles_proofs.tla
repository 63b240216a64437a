------------------------- MODULE LocalFiles_proofs --------------------------
(***************************************************************************)
(* Proofs about the files the commands leave behind, for any number of     *)
(* invocations and every kind of file: what is found under the path,       *)
(* whatever crashes, interleaves or loses power, what a report of success  *)
(* is worth, and that no secret is ever in a file others may read.         *)
(*                                                                         *)
(* None of these is inductive.  A power loss brings back anything the disk *)
(* may hold, so what is said of the files is said of everything on disk;   *)
(* and a report is worth something because of how far each command has     *)
(* come, so the invariant follows the commands through their system calls. *)
(***************************************************************************)
EXTENDS LocalFiles, TLAPS

---------------------------------------------------------------------------
(* The commands, by their next system call.                                *)

AfterFinish(k) ==
    IF k \in KeyKinds \cup {"badge", "votes"} THEN "sync"
    ELSE IF k = "replay_cache" THEN "rename" ELSE "end"

\* The call that follows op in the writer of a file of kind k.
After(k, op) ==
    CASE op = "wallet_new"   -> "open"
      [] op = "open_private" -> "restrict"
      [] op \in {"create_new", "open", "restrict"} -> "put"
      [] op = "put"          -> "finish"
      [] op = "finish"       -> AfterFinish(k)
      [] op = "sync"         -> IF k = "votes" THEN "rename" ELSE "end"
      [] OTHER               -> "end"

CallsOf(k) ==
    CASE k \in KeyKinds       -> {"create_new", "put", "finish", "sync"}
      [] k = "badge"          -> {"open_private", "restrict", "put", "finish", "sync"}
      [] k = "snapshot"       -> {"open_private", "restrict", "put", "finish"}
      [] k = "token"          -> {"wallet_new", "open", "put", "finish"}
      [] k = "public"         -> {"open", "put", "finish"}
      [] k = "replay_cache"   -> {"open", "put", "finish", "rename"}
      [] OTHER -> {"open_private", "restrict", "put", "finish", "sync", "rename"}

\* The rest of the writer of a file of kind k.
Chain(k, steps) ==
    /\ steps \in Seq(CallsOf(k))
    /\ \A i \in 1 .. Len(steps) :
         After(k, steps[i]) = IF i = Len(steps) THEN "end" ELSE steps[i + 1]

\* What p does next.
Op(p) == IF status[p] # "running" THEN "none"
         ELSE IF rest[p] = <<>> THEN "end" ELSE Head(rest[p])

InFile == {"restrict", "put", "finish", "sync"}

---------------------------------------------------------------------------
(* The inductive invariant.                                                *)

Shapes ==
    /\ kind \in Kinds
    /\ files \in [Paths -> File \cup {Absent}]
    /\ DOMAIN disk = Paths
    /\ status \in [Procs -> {"idle", "running", "done", "stopped"}]
    /\ DOMAIN rest = Procs
    /\ token \in {"none", "created", "minted"}
    /\ announced \subseteq Procs /\ creators \subseteq Procs
    /\ \A p \in Procs : status[p] = "running" => Chain(kind, rest[p])
    /\ \A p \in announced : status[p] = "done"
    /\ \A p \in creators : status[p] # "idle"

\* Anything that may be found on disk is by processes that were started, of tokens
\* that exist, and private if it is secret.
Allowed(f) ==
    f # Absent =>
      /\ f \in File
      /\ \A i \in DOMAIN f.content : f.content[i] \in Procs =>
           /\ status[f.content[i]] # "idle"
           /\ kind = "token" /\ f.content[i] \in creators => token # "none"
      /\ kind \in SecretKinds /\ ~f.private =>
           \A i \in DOMAIN f.content : f.content[i] \in exposed

Disk == \A path \in Paths : files[path] \in disk[path] /\ \A f \in disk[path] : Allowed(f)

\* A command that is writing has a file, and a private one if it is secret.
HasFile(p) ==
    /\ Op(p) \in InFile \cup {"rename"} => files[at(p)] # Absent
    /\ kind \in SecretKinds /\ Op(p) \in {"put", "finish", "sync", "rename"} =>
         files[at(p)].private
    /\ kind = "token" /\ p \in creators /\ Op(p) \notin {"none", "wallet_new"} =>
         token # "none"

\* What the file of v holds when v alone writes it.
Stage(v) == IF Op(v) \in {"restrict", "put"} THEN <<>>
            ELSE IF Op(v) = "finish" THEN <<v>> ELSE Whole(v)

\* v is writing or has written, and nobody has come in between.
Sole(v) == v \notin superseded /\ (Op(v) \in InFile \cup {"end"} \/ v \in announced)

Settled(v) == Op(v) = "end" \/ v \in announced

SyncedKinds == KeyKinds \cup {"badge"}

\* Files that are written in place.
InPlace(v) ==
    kind \notin AtomicKinds /\ Sole(v) =>
      /\ files[Target] # Absent /\ files[Target].content = Stage(v)
      /\ \A q \in Writing : q = v
      /\ kind \in SyncedKinds /\ Settled(v) =>
           \A f \in disk[Target] : f # Absent /\ f.content = Whole(v)

\* Files that are replaced.
Replaced(v) ==
    kind \in AtomicKinds =>
      /\ Op(v) \in InFile \cup {"rename"} => files[v] # Absent /\ files[v].content = Stage(v)
      /\ kind = "votes" /\ Op(v) = "rename" => disk[v] = {files[v]}
      /\ v \notin superseded /\ Settled(v) => Holds(Target, v)

TargetWhole ==
    /\ kind = "votes" => \A f \in disk[Target] : IsWhole(f)
    /\ kind = "replay_cache" => IsWhole(files[Target]) \/ powerLost

KeysShown ==
    /\ kind \in KeyKinds => superseded = {}
    /\ kind \notin KeyKinds => shown = {}
    /\ \A v \in shown : Holds(Target, v) \/ powerLost

IInv ==
    /\ Shapes /\ Disk /\ TargetWhole /\ KeysShown
    /\ \A p \in Procs : HasFile(p) /\ InPlace(p) /\ Replaced(p)

---------------------------------------------------------------------------
(* Following a command.                                                    *)

\* What is left after one call is again the rest of the writer.
LEMMA ChainTail ==
    ASSUME NEW k, NEW steps, Chain(k, steps), steps # <<>>
    PROVE  /\ Head(steps) \in CallsOf(k)
           /\ Chain(k, Tail(steps))
           /\ After(k, Head(steps)) = IF Tail(steps) = <<>> THEN "end" ELSE Head(Tail(steps))
<1> DEFINE S == CallsOf(k)
           A(x) == After(k, x)
           t == Tail(steps)
<1>1. /\ steps \in Seq(S)
      /\ \A i \in 1 .. Len(steps) :
           A(steps[i]) = IF i = Len(steps) THEN "end" ELSE steps[i + 1]
  BY DEF Chain
<1> HIDE DEF S, A
<1>2. /\ Len(steps) \in Nat \ {0} /\ Head(steps) = steps[1] /\ steps[1] \in S
      /\ t \in Seq(S) /\ Len(t) = Len(steps) - 1
      /\ \A i \in 1 .. Len(t) : t[i] = steps[i + 1]
  BY <1>1
<1> HIDE DEF t
<1>3. t # <<>> => Len(t) # 0 /\ Head(t) = t[1]
  BY <1>2
<1>4. t = <<>> => Len(t) = 0
  OBVIOUS
<1>5. \A i \in 1 .. Len(t) : A(t[i]) = IF i = Len(t) THEN "end" ELSE t[i + 1]
  BY <1>1, <1>2
<1>6. A(steps[1]) = IF t = <<>> THEN "end" ELSE Head(t)
  BY <1>1, <1>2, <1>3, <1>4
<1>7. QED
  BY <1>2, <1>5, <1>6 DEF Chain, S, A, t

\* The writers, call by call.
LEMMA WritersChain ==
    /\ \A k \in KeyKinds : Chain(k, write_private_json_new)
    /\ Chain("badge", write_private_json)
    /\ Chain("snapshot", input_write_private_json)
    /\ Chain("public", write_json)
    /\ Chain("token", config_write_json)
    /\ Chain("token", <<"wallet_new">> \o config_write_json)
    /\ Chain("replay_cache", write_json_atomic)
    /\ Chain("votes", write_private_json_atomic)
<1>1. ASSUME NEW k \in KeyKinds PROVE Chain(k, write_private_json_new)
  <2>1. /\ CallsOf(k) = {"create_new", "put", "finish", "sync"}
        /\ After(k, "create_new") = "put" /\ After(k, "put") = "finish"
        /\ After(k, "finish") = "sync" /\ After(k, "sync") = "end"
    BY DEF CallsOf, After, AfterFinish, KeyKinds
  <2>2. QED
    BY <2>1 DEF Chain, write_private_json_new
<1> USE DEF Chain, CallsOf, After, AfterFinish, KeyKinds
<1>2. Chain("badge", write_private_json)
  BY DEF write_private_json
<1>3. Chain("snapshot", input_write_private_json)
  BY DEF input_write_private_json
<1>4. Chain("public", write_json)
  BY DEF write_json
<1>5. Chain("token", config_write_json)
  BY DEF config_write_json
<1>6. Chain("token", <<"wallet_new">> \o config_write_json)
  <2> DEFINE s == <<"wallet_new">> \o <<"open", "put", "finish">>
  <2>1. s \in Seq({"wallet_new", "open", "put", "finish"}) /\ Len(s) = 4
    OBVIOUS
  <2>2. s[1] = "wallet_new" /\ s[2] = "open" /\ s[3] = "put" /\ s[4] = "finish"
    OBVIOUS
  <2> HIDE DEF s
  <2>3. Chain("token", s)
    BY <2>1, <2>2
  <2>4. QED
    BY <2>3 DEF config_write_json, s
<1>7. Chain("replay_cache", write_json_atomic)
  <2> DEFINE s == <<"open", "put", "finish">> \o <<"rename">>
  <2>1. s \in Seq({"open", "put", "finish", "rename"}) /\ Len(s) = 4
    OBVIOUS
  <2>2. s[1] = "open" /\ s[2] = "put" /\ s[3] = "finish" /\ s[4] = "rename"
    OBVIOUS
  <2> HIDE DEF s
  <2>3. Chain("replay_cache", s)
    BY <2>1, <2>2
  <2>4. QED
    BY <2>3 DEF write_json_atomic, write_json, s
<1>8. Chain("votes", write_private_json_atomic)
  BY DEF write_private_json_atomic
<1>9. QED
  BY <1>1, <1>2, <1>3, <1>4, <1>5, <1>6, <1>7, <1>8

\* A call takes a command to the next one and leaves the other commands alone.
LEMMA CallDone ==
    ASSUME Shapes, NEW p \in Procs, NEW op, IsNext(p, op),
           rest' = [rest EXCEPT ![p] = Tail(@)], UNCHANGED <<kind, status>>
    PROVE  /\ Op(p) = op /\ op \in CallsOf(kind)
           /\ Op(p)' = After(kind, op)
           /\ \A q \in Procs \ {p} : Op(q)' = Op(q)
           /\ DOMAIN rest' = Procs
           /\ \A q \in Procs : status[q] = "running" => Chain(kind, rest'[q])
<1>1. status[p] = "running" /\ rest[p] # <<>> /\ Head(rest[p]) = op /\ Chain(kind, rest[p])
  BY DEF IsNext, Shapes
<1>2. /\ op \in CallsOf(kind) /\ Chain(kind, Tail(rest[p]))
      /\ After(kind, op) = IF Tail(rest[p]) = <<>> THEN "end" ELSE Head(Tail(rest[p]))
  BY <1>1, ChainTail
<1>3. rest'[p] = Tail(rest[p]) /\ \A q \in Procs \ {p} : rest'[q] = rest[q]
  BY DEF Shapes
<1>4. Op(p) = op /\ Op(p)' = After(kind, op)
  BY <1>1, <1>2, <1>3 DEF Op
<1>5. \A q \in Procs \ {p} : Op(q)' = Op(q)
  BY <1>3 DEF Op
<1>6. QED
  BY <1>2, <1>3, <1>4, <1>5 DEF Shapes

\* A call that has no business with a kind is never made for it.
LEMMA OpKinds ==
    ASSUME Shapes, NEW p \in Procs
    PROVE  /\ Op(p) \in CallsOf(kind) \cup {"none", "end"}
           /\ Op(p) = "end" <=> status[p] = "running" /\ rest[p] = <<>>
           /\ Op(p) = "none" <=> status[p] # "running"
<1>1. "none" \notin CallsOf(kind) /\ "end" \notin CallsOf(kind)
  BY DEF CallsOf
<1>2. QED
  BY <1>1, ChainTail DEF Op, Shapes

\* The two writes, into an empty file and behind the first.
LEMMA Written ==
    ASSUME NEW p \in Procs, NEW old \in UNION {[1 .. n -> Values] : n \in 0 .. 2},
           NEW offset \in {1, 2}
    PROVE  LET size == IF Len(old) > offset THEN Len(old) ELSE offset
               new == [i \in 1 .. size |-> IF i = offset THEN p
                                           ELSE IF i \in DOMAIN old THEN old[i] ELSE Absent]
           IN  /\ new \in UNION {[1 .. n -> Values] : n \in 0 .. 2}
               /\ \A i \in DOMAIN new :
                    new[i] = p \/ new[i] = Absent \/ \E j \in DOMAIN old : new[i] = old[j]
               /\ old = <<>> /\ offset = 1 => new = <<p>>
               /\ old = <<p>> /\ offset = 2 => new = <<p, p>>
<1> DEFINE size == IF Len(old) > offset THEN Len(old) ELSE offset
           new == [i \in 1 .. size |-> IF i = offset THEN p
                                       ELSE IF i \in DOMAIN old THEN old[i] ELSE Absent]
<1>1. PICK m \in 0 .. 2 : old \in [1 .. m -> Values]
  OBVIOUS
<1>2. Len(old) = m /\ DOMAIN old = 1 .. m
  BY <1>1
<1>3. size \in 0 .. 2
  BY <1>2
<1>4. new \in [1 .. size -> Values]
  BY <1>1, <1>2 DEF Values
<1>5. \A i \in DOMAIN new :
        new[i] = p \/ new[i] = Absent \/ \E j \in DOMAIN old : new[i] = old[j]
  OBVIOUS
<1>6. old = <<>> /\ offset = 1 => new = <<p>>
  BY <1>2
<1>7. ASSUME old = <<p>>, offset = 2 PROVE new = <<p, p>>
  <2>1. Len(old) = 1 /\ DOMAIN old = 1 .. 1 /\ old[1] = p
    BY <1>7
  <2>2. size = 2
    BY <1>7, <2>1
  <2>3. \A i \in 1 .. 2 : new[i] = p
    BY <1>7, <2>1, <2>2
  <2>4. QED
    BY <2>2, <2>3
<1>8. QED
  BY <1>3, <1>4, <1>5, <1>6, <1>7

---------------------------------------------------------------------------
(* Kinds, calls and files.                                                 *)

\* The kind of the output file is one of the repository's.
LEMMA KindKnown == Shapes => kind \in AllKinds
BY LocalFilesAssumption DEF Shapes

\* Which writers make which calls.
LEMMA CallKinds ==
    ASSUME NEW k \in AllKinds, NEW op \in CallsOf(k)
    PROVE  /\ op \in {"create_new", "open", "open_private", "wallet_new", "rename"} \cup InFile
           /\ op = "create_new" => k \in KeyKinds
           /\ op \in {"open_private", "restrict"} => k \in {"badge", "snapshot", "votes"}
           /\ op = "open" => k \in {"token", "public", "replay_cache"}
           /\ op = "sync" => k \in SyncedKinds \cup {"votes"}
           /\ op = "rename" => k \in AtomicKinds
           /\ op = "wallet_new" => k = "token"
BY DEF CallsOf, AllKinds, KeyKinds, SecretKinds, SyncedKinds, AtomicKinds, InFile

\* Writing names the commands in the middle of a file they write in place.
LEMMA WritingOps ==
    /\ Writing = {q \in Procs : kind \notin AtomicKinds /\ Op(q) \in InFile}
    /\ Writing' = {q \in Procs : kind' \notin AtomicKinds /\ Op(q)' \in InFile}
BY DEF Writing, Op, InFile

Content == UNION {[1 .. n -> Values] : n \in 0 .. 2}

\* A file has a content and permissions, and is not the absence of one.
LEMMA FileFields ==
    ASSUME NEW f \in File
    PROVE  f.content \in Content /\ f.private \in BOOLEAN /\ f # Absent
BY LocalFilesAssumption DEF File, Content

\* Changing the permissions leaves the content alone.
LEMMA SetPrivate ==
    ASSUME NEW f \in File, NEW b \in BOOLEAN
    PROVE  /\ [f EXCEPT !.private = b] \in File
           /\ [f EXCEPT !.private = b].content = f.content
           /\ [f EXCEPT !.private = b].private = b
<1>1. File = [content : Content, private : BOOLEAN]
  BY DEF File, Content
<1> HIDE DEF Content
<1>2. QED
  BY <1>1

\* Writing leaves the permissions alone.
LEMMA SetContent ==
    ASSUME NEW f \in File, NEW c \in Content
    PROVE  /\ [f EXCEPT !.content = c] \in File
           /\ [f EXCEPT !.content = c].content = c
           /\ [f EXCEPT !.content = c].private = f.private
<1>1. File = [content : Content, private : BOOLEAN]
  BY DEF File, Content
<1> HIDE DEF Content
<1>2. QED
  BY <1>1

\* A file that was just opened.
LEMMA EmptyFile ==
    ASSUME NEW b \in BOOLEAN
    PROVE  LET f == [content |-> <<>>, private |-> b]
           IN  f \in File /\ f # Absent /\ f.content = <<>> /\ f.private = b
<1> DEFINE e == <<>>
<1>1. e \in Content
  BY DEF Content
<1>2. File = [content : Content, private : BOOLEAN]
  BY DEF File, Content
<1> HIDE DEF e, Content
<1>3. /\ [content |-> e, private |-> b] \in File
      /\ [content |-> e, private |-> b].content = e
      /\ [content |-> e, private |-> b].private = b
  BY <1>1, <1>2
<1>4. QED
  BY <1>3, LocalFilesAssumption DEF e

\* An empty file and one that was begun are not finished.
LEMMA Unfinished ==
    ASSUME NEW v, NEW w
    PROVE  <<>> # Whole(v) /\ <<w>> # Whole(v) /\ Len(Whole(v)) = 2
BY DEF Whole

\* What is allowed on disk stays so while commands start, tokens come into being
\* and the user exposes files.
LEMMA AllowedStays ==
    ASSUME NEW f, Allowed(f), kind' = kind,
           \A q \in Procs : status[q] # "idle" =>
             status'[q] # "idle" /\ (q \in creators' => q \in creators),
           token # "none" => token' # "none",
           exposed \subseteq exposed'
    PROVE  Allowed(f)'
BY DEF Allowed

\* A step that changes one file.
LEMMA PutKeeps ==
    ASSUME Shapes, Disk, NEW path \in Paths, NEW f, Put(path, f),
           f \in File \cup {Absent}, Allowed(f)',
           \A g : Allowed(g) => Allowed(g)'
    PROVE  /\ Disk'
           /\ files' \in [Paths -> File \cup {Absent}] /\ DOMAIN disk' = Paths
           /\ files'[path] = f /\ disk'[path] = disk[path] \cup {f}
           /\ \A other \in Paths \ {path} :
                files'[other] = files[other] /\ disk'[other] = disk[other]
<1>1. /\ files' = [files EXCEPT ![path] = f]
      /\ disk' = [disk EXCEPT ![path] = disk[path] \cup {f}]
  BY DEF Put
<1>2. files \in [Paths -> File \cup {Absent}] /\ DOMAIN disk = Paths
  BY DEF Shapes
<1>3. /\ files' \in [Paths -> File \cup {Absent}] /\ DOMAIN disk' = Paths
      /\ files'[path] = f /\ disk'[path] = disk[path] \cup {f}
      /\ \A other \in Paths \ {path} :
           files'[other] = files[other] /\ disk'[other] = disk[other]
  BY <1>1, <1>2
<1>4. ASSUME NEW x \in Paths
      PROVE  files'[x] \in disk'[x] /\ \A g \in disk'[x] : Allowed(g)'
  BY <1>3 DEF Disk
<1>5. QED
  BY <1>3, <1>4 DEF Disk

---------------------------------------------------------------------------
(* Steps that leave the files alone.                                       *)

\* A step that leaves files and disk alone keeps the invariant, provided no command
\* gets into its file by it and only commands that are through report.
LEMMA QuietStep ==
    ASSUME IInv, Shapes', KeysShown',
           UNCHANGED <<kind, files, disk, superseded, exposed, powerLost>>,
           \A q \in Procs : status[q] # "idle" =>
             status'[q] # "idle" /\ (q \in creators' => q \in creators),
           token # "none" => token' # "none",
           \A q \in Procs : Op(q)' = Op(q) \/ Op(q)' \notin InFile \cup {"rename", "end"},
           \A q \in Procs : q \in announced' => q \in announced \/ Op(q) = "end",
           \A q \in Procs : kind = "token" /\ q \in creators'
                              /\ Op(q)' \notin {"none", "wallet_new"} => token' # "none"
    PROVE  IInv'
<1>1. Disk'
  <2>1. \A f : Allowed(f) => Allowed(f)'
    BY AllowedStays
  <2>2. QED
    BY <2>1 DEF IInv, Disk
<1>2. TargetWhole'
  BY DEF IInv, TargetWhole
<1>3. ASSUME NEW v \in Procs PROVE HasFile(v)'
  <2>1. at(v)' = at(v) /\ files' = files /\ kind' = kind
    BY DEF at
  <2>2. CASE Op(v)' = Op(v)
    BY <2>1, <2>2 DEF IInv, HasFile
  <2>3. CASE Op(v)' \notin InFile \cup {"rename", "end"}
    BY <2>1, <2>3 DEF HasFile, InFile
  <2>4. QED
    BY <2>2, <2>3
<1>4. \A v \in Procs : v \in announced \cup announced' => Op(v) \in {"none", "end"}
  BY DEF IInv, Shapes, Op
<1>5. \A v \in Procs : v \in announced' => Op(v)' = "none"
  BY DEF Shapes, Op
<1>6. ASSUME NEW v \in Procs, Sole(v)' PROVE Sole(v) /\ Stage(v)' = Stage(v)
  <2>1. CASE v \in announced'
    BY <1>4, <1>5, <2>1, <1>6 DEF Sole, Stage, InFile
  <2>2. CASE v \notin announced'
    BY <2>2, <1>6 DEF Sole, Stage
  <2>3. QED
    BY <2>1, <2>2
<1>7. \A v \in Procs : Settled(v)' => Settled(v)
  BY DEF Settled
<1>8. Writing' \subseteq Writing
  BY WritingOps
<1>9. ASSUME NEW v \in Procs PROVE InPlace(v)'
  BY <1>6, <1>7, <1>8 DEF IInv, InPlace
<1>10. ASSUME NEW v \in Procs PROVE Replaced(v)'
  <2>1. Op(v)' \in InFile \cup {"rename"} => Op(v)' = Op(v) /\ Stage(v)' = Stage(v)
    BY DEF Stage
  <2>2. QED
    BY <1>7, <2>1 DEF IInv, Replaced, Holds
<1>11. QED
  BY <1>1, <1>2, <1>3, <1>9, <1>10 DEF IInv

\* A command starts: it has not opened its file yet.
LEMMA StartStep ==
    ASSUME IInv, NEW p \in Procs, NEW steps, Start(p, steps), Chain(kind, steps),
           steps # <<>>,
           Head(steps) \in {"create_new", "open", "open_private", "wallet_new"},
           kind = "token" /\ "wallet_new" \in {steps[i] : i \in DOMAIN steps} =>
             Head(steps) = "wallet_new"
    PROVE  IInv'
<1>1. Shapes /\ KeysShown
  BY DEF IInv
<1>2. /\ status[p] = "idle" /\ status' = [status EXCEPT ![p] = "running"]
      /\ rest' = [rest EXCEPT ![p] = steps]
      /\ creators' \subseteq creators \cup {p}
      /\ p \in creators' => p \in creators \/ "wallet_new" \in {steps[i] : i \in DOMAIN steps}
      /\ UNCHANGED <<kind, files, disk, token, announced, shown, superseded, exposed, powerLost>>
  BY DEF Start, History
<1>3. /\ status'[p] = "running" /\ rest'[p] = steps
      /\ \A q \in Procs \ {p} : status'[q] = status[q] /\ rest'[q] = rest[q]
      /\ status' \in [Procs -> {"idle", "running", "done", "stopped"}] /\ DOMAIN rest' = Procs
  BY <1>1, <1>2 DEF Shapes
<1>4. p \notin announced /\ p \notin creators
  BY <1>1, <1>2 DEF Shapes
<1>5. Shapes'
  BY <1>1, <1>2, <1>3, <1>4 DEF Shapes
<1>6. Op(p)' = Head(steps) /\ \A q \in Procs \ {p} : Op(q)' = Op(q)
  BY <1>3 DEF Op
<1>7. KeysShown'
  BY <1>1, <1>2 DEF KeysShown, Holds
<1>8. ASSUME NEW q \in Procs, status[q] # "idle"
      PROVE  status'[q] # "idle" /\ (q \in creators' => q \in creators)
  BY <1>2, <1>3, <1>8
<1>9. ASSUME NEW q \in Procs PROVE Op(q)' = Op(q) \/ Op(q)' \notin InFile \cup {"rename", "end"}
  BY <1>6 DEF InFile
<1>10. ASSUME NEW q \in Procs, kind = "token", q \in creators',
              Op(q)' \notin {"none", "wallet_new"}
       PROVE  token' # "none"
  <2>1. q # p
    BY <1>2, <1>4, <1>6, <1>10
  <2>2. QED
    BY <1>2, <1>6, <1>10, <2>1 DEF IInv, HasFile
<1>11. QED
  BY <1>2, <1>5, <1>7, <1>8, <1>9, <1>10, QuietStep

\* Every command starts with one of the writers.
LEMMA CommandStep ==
    ASSUME IInv, NEW p \in Procs, Command(p)
    PROVE  IInv'
<1>1. CASE kind \in KeyKinds /\ Start(p, write_private_json_new)
  <2>1. /\ write_private_json_new # <<>> /\ Head(write_private_json_new) = "create_new"
        /\ kind # "token"
    BY <1>1 DEF write_private_json_new, KeyKinds
  <2>2. QED
    BY <1>1, <2>1, WritersChain, StartStep
<1>2. CASE kind = "snapshot" /\ Start(p, input_write_private_json)
  <2>1. input_write_private_json # <<>> /\ Head(input_write_private_json) = "open_private"
    BY DEF input_write_private_json
  <2>2. QED
    BY <1>2, <2>1, WritersChain, StartStep
<1>3. CASE kind = "badge" /\ Start(p, write_private_json)
  <2>1. write_private_json # <<>> /\ Head(write_private_json) = "open_private"
    BY DEF write_private_json
  <2>2. QED
    BY <1>3, <2>1, WritersChain, StartStep
<1>4. CASE kind = "replay_cache" /\ Start(p, write_json_atomic)
  <2>1. write_json_atomic # <<>> /\ Head(write_json_atomic) = "open"
    BY DEF write_json_atomic, write_json
  <2>2. QED
    BY <1>4, <2>1, WritersChain, StartStep
<1>5. CASE kind = "votes" /\ Start(p, write_private_json_atomic)
  <2>1. write_private_json_atomic # <<>> /\ Head(write_private_json_atomic) = "open_private"
    BY DEF write_private_json_atomic
  <2>2. QED
    BY <1>5, <2>1, WritersChain, StartStep
<1>6. CASE kind = "public" /\ Start(p, write_json)
  <2>1. write_json # <<>> /\ Head(write_json) = "open"
    BY DEF write_json
  <2>2. QED
    BY <1>6, <2>1, WritersChain, StartStep
<1>7. CASE kind = "token" /\ Start(p, config_write_json)
  <2>1. /\ config_write_json # <<>> /\ Head(config_write_json) = "open"
        /\ "wallet_new" \notin {config_write_json[i] : i \in DOMAIN config_write_json}
    BY DEF config_write_json
  <2>2. QED
    BY <1>7, <2>1, WritersChain, StartStep
<1>8. CASE kind = "token" /\ Start(p, <<"wallet_new">> \o config_write_json)
  <2> DEFINE s == <<"wallet_new">> \o config_write_json
  <2>1. s # <<>> /\ Head(s) = "wallet_new"
    BY DEF config_write_json
  <2> HIDE DEF s
  <2>2. Start(p, s) /\ Chain(kind, s)
    BY <1>8, WritersChain DEF s
  <2>3. QED
    BY <2>1, <2>2, StartStep
<1>9. \/ kind \in KeyKinds /\ Start(p, write_private_json_new)
      \/ kind = "snapshot" /\ Start(p, input_write_private_json)
      \/ kind = "badge" /\ Start(p, write_private_json)
      \/ kind = "replay_cache" /\ Start(p, write_json_atomic)
      \/ kind = "votes" /\ Start(p, write_private_json_atomic)
      \/ kind = "public" /\ Start(p, write_json)
      \/ kind = "token" /\ Start(p, config_write_json)
      \/ kind = "token" /\ Start(p, <<"wallet_new">> \o config_write_json)
  BY DEF Command, generate_presenter_key, generate_lez_account_key,
         generate_lez_private_account_key, capture_wallet_snapshot, WriteOutput,
         TokenSelect, TokenCreate, KeyKinds
<1>10. QED
  BY <1>1, <1>2, <1>3, <1>4, <1>5, <1>6, <1>7, <1>8, <1>9

\* The wallet creates the token.
LEMMA WalletStep ==
    ASSUME IInv, NEW p \in Procs, WalletNew(p)
    PROVE  IInv'
<1>1. Shapes /\ KeysShown
  BY DEF IInv
<1>2. /\ IsNext(p, "wallet_new") /\ token' = "created"
      /\ rest' = [rest EXCEPT ![p] = Tail(@)]
      /\ UNCHANGED <<kind, files, disk, status, creators, announced, shown, superseded,
                     exposed, powerLost>>
  BY DEF WalletNew, History
<1>3. /\ Op(p)' = After(kind, "wallet_new")
      /\ \A q \in Procs \ {p} : Op(q)' = Op(q)
      /\ DOMAIN rest' = Procs
      /\ \A q \in Procs : status[q] = "running" => Chain(kind, rest'[q])
  BY <1>1, <1>2, CallDone
<1>4. Op(p)' = "open"
  BY <1>3 DEF After
<1>5. Shapes'
  BY <1>1, <1>2, <1>3 DEF Shapes
<1>6. KeysShown'
  BY <1>1, <1>2 DEF KeysShown, Holds
<1>7. \A q \in Procs : Op(q)' = Op(q) \/ Op(q)' \notin InFile \cup {"rename", "end"}
  BY <1>3, <1>4 DEF InFile
<1>8. QED
  BY <1>2, <1>5, <1>6, <1>7, QuietStep

\* A command reports success.
LEMMA ReportStep ==
    ASSUME IInv, NEW p \in Procs, Report(p)
    PROVE  IInv'
<1>1. Shapes /\ KeysShown
  BY DEF IInv
<1>2. /\ status[p] = "running" /\ rest[p] = <<>>
      /\ status' = [status EXCEPT ![p] = "done"]
      /\ announced' = announced \cup {p}
      /\ UNCHANGED <<kind, files, disk, rest, token, creators, shown, superseded, exposed,
                     powerLost>>
  BY DEF Report
<1>3. /\ status'[p] = "done" /\ \A q \in Procs \ {p} : status'[q] = status[q]
      /\ status' \in [Procs -> {"idle", "running", "done", "stopped"}]
  BY <1>1, <1>2 DEF Shapes
<1>4. Op(p) = "end" /\ Op(p)' = "none" /\ \A q \in Procs \ {p} : Op(q)' = Op(q)
  BY <1>2, <1>3 DEF Op
<1>5. Shapes'
  BY <1>1, <1>2, <1>3 DEF Shapes
<1>6. KeysShown'
  BY <1>1, <1>2 DEF KeysShown, Holds
<1>7. \A q \in Procs : Op(q)' = Op(q) \/ Op(q)' \notin InFile \cup {"rename", "end"}
  BY <1>4 DEF InFile
<1>8. ASSUME NEW q \in Procs, kind = "token", q \in creators',
             Op(q)' \notin {"none", "wallet_new"}
      PROVE  token' # "none"
  BY <1>2, <1>4, <1>8 DEF IInv, HasFile
<1>9. \A q \in Procs : status[q] # "idle" =>
        status'[q] # "idle" /\ (q \in creators' => q \in creators)
  BY <1>2, <1>3
<1>10. \A q \in Procs : q \in announced' => q \in announced \/ Op(q) = "end"
  BY <1>2, <1>4
<1>11. QED
  BY <1>2, <1>5, <1>6, <1>7, <1>8, <1>9, <1>10, QuietStep

\* A command fails or is killed.
LEMMA StopStep ==
    ASSUME IInv, NEW p \in Procs, Stop(p)
    PROVE  IInv'
<1>1. Shapes /\ KeysShown
  BY DEF IInv
<1>2. /\ status[p] = "running"
      /\ status' = [status EXCEPT ![p] = "stopped"] /\ rest' = [rest EXCEPT ![p] = <<>>]
      /\ UNCHANGED <<kind, files, disk, token, creators, announced, shown, superseded,
                     exposed, powerLost>>
  BY DEF Stop, History
<1>3. /\ status'[p] = "stopped"
      /\ \A q \in Procs \ {p} : status'[q] = status[q] /\ rest'[q] = rest[q]
      /\ status' \in [Procs -> {"idle", "running", "done", "stopped"}] /\ DOMAIN rest' = Procs
  BY <1>1, <1>2 DEF Shapes
<1>4. Op(p)' = "none" /\ \A q \in Procs \ {p} : Op(q)' = Op(q)
  BY <1>2, <1>3 DEF Op
<1>5. Shapes'
  <2>1. p \notin announced
    BY <1>1, <1>2 DEF Shapes
  <2>2. QED
    BY <1>1, <1>2, <1>3, <2>1 DEF Shapes
<1>6. KeysShown'
  BY <1>1, <1>2 DEF KeysShown, Holds
<1>7. \A q \in Procs : Op(q)' = Op(q) \/ Op(q)' \notin InFile \cup {"rename", "end"}
  BY <1>4 DEF InFile
<1>8. ASSUME NEW q \in Procs, kind = "token", q \in creators',
             Op(q)' \notin {"none", "wallet_new"}
      PROVE  token' # "none"
  BY <1>2, <1>4, <1>8 DEF IInv, HasFile
<1>9. \A q \in Procs : status[q] # "idle" =>
        status'[q] # "idle" /\ (q \in creators' => q \in creators)
  BY <1>2, <1>3
<1>10. QED
  BY <1>2, <1>5, <1>6, <1>7, <1>8, <1>9, QuietStep

\* Steps that only read: the commands that show a key, and token mint.
LEMMA CommandsRest ==
    ASSUME IInv, KeysShown', token' \in {"none", "created", "minted"},
           token # "none" => token' # "none",
           UNCHANGED <<kind, files, disk, rest, status, creators, announced, superseded,
                       exposed, powerLost>>
    PROVE  IInv'
<1>1. Shapes'
  BY DEF IInv, Shapes
<1>2. \A q : Op(q)' = Op(q)
  BY DEF Op
<1>3. ASSUME NEW q \in Procs, kind = "token", q \in creators',
             Op(q)' \notin {"none", "wallet_new"}
      PROVE  token' # "none"
  BY <1>2, <1>3 DEF IInv, HasFile
<1>4. QED
  BY <1>1, <1>2, <1>3, QuietStep

\* Showing a key: what is shown is the whole content of the file.
LEMMA ShowKeyStep ==
    ASSUME IInv, ShowKey
    PROVE  IInv'
<1> DEFINE c == files[Target].content
<1>1. /\ kind \in KeyKinds /\ files[Target] # Absent /\ Len(c) = 2 /\ c[1] = c[2]
      /\ shown' = shown \cup {c[2]}
      /\ UNCHANGED <<kind, files, disk, rest, status, token, creators, announced,
                     superseded, exposed, powerLost>>
  BY DEF ShowKey, read_json, signing_key, private_key, identity
<1>2. c \in Content
  <2>1. files[Target] \in File
    BY <1>1 DEF IInv, Shapes, Paths
  <2>2. QED
    BY <2>1 DEF File, Content
<1>3. c = Whole(c[2])
  <2> HIDE DEF c
  <2>1. PICK n \in 0 .. 2 : c \in [1 .. n -> Values]
    BY <1>2 DEF Content
  <2>2. n = 2
    BY <1>1, <2>1
  <2>3. QED
    BY <1>1, <2>1, <2>2 DEF Whole
<1>4. \A v \in shown' : Holds(Target, v)' \/ powerLost'
  BY <1>1, <1>3 DEF IInv, KeysShown, Holds
<1>5. KeysShown'
  BY <1>1, <1>4 DEF IInv, KeysShown
<1>6. token \in {"none", "created", "minted"}
  BY DEF IInv, Shapes
<1>7. QED
  BY <1>1, <1>5, <1>6, CommandsRest

\* token mint changes nothing but the token.
LEMMA MintStep ==
    ASSUME IInv, NEW holder, NEW amount, TokenMint(holder, amount)
    PROVE  IInv'
<1>1. /\ token' = "minted"
      /\ UNCHANGED <<kind, files, disk, rest, status, creators, announced, shown, superseded,
                     exposed, powerLost>>
  BY DEF TokenMint, History
<1>2. KeysShown'
  BY <1>1 DEF IInv, KeysShown, Holds
<1>3. QED
  BY <1>1, <1>2, CommandsRest

---------------------------------------------------------------------------
(* Calls on the file a command has open.                                   *)

\* Every call: where the commands are after it, and what stays.
LEMMA CallMade ==
    ASSUME IInv, NEW p \in Procs, NEW op, IsNext(p, op), Advance(p), UNCHANGED exposed
    PROVE  /\ Op(p) = op /\ op \in CallsOf(kind) /\ kind \in AllKinds
           /\ Op(p)' = After(kind, op)
           /\ \A q \in Procs \ {p} : Op(q)' = Op(q)
           /\ p \notin announced /\ status[p] = "running"
           /\ UNCHANGED <<kind, status, token, creators, shown, announced>>
           /\ \A q : at(q)' = at(q)
           /\ \A f : Allowed(f) => Allowed(f)'
           /\ files' \in [Paths -> File \cup {Absent}] /\ DOMAIN disk' = Paths => Shapes'
<1>1. Shapes
  BY DEF IInv
<1>2. /\ rest' = [rest EXCEPT ![p] = Tail(@)]
      /\ UNCHANGED <<kind, status, token, creators, shown, announced>>
      /\ status[p] = "running"
  BY DEF Advance, IsNext
<1>3. /\ Op(p) = op /\ op \in CallsOf(kind)
      /\ Op(p)' = After(kind, op)
      /\ \A q \in Procs \ {p} : Op(q)' = Op(q)
      /\ DOMAIN rest' = Procs
      /\ \A q \in Procs : status[q] = "running" => Chain(kind, rest'[q])
  BY <1>1, <1>2, CallDone
<1>4. p \notin announced /\ kind \in AllKinds
  BY <1>1, <1>2, KindKnown DEF Shapes
<1>5. \A q : at(q)' = at(q)
  BY <1>2 DEF at
<1>6. \A f : Allowed(f) => Allowed(f)'
  BY <1>2, AllowedStays
<1>7. files' \in [Paths -> File \cup {Absent}] /\ DOMAIN disk' = Paths => Shapes'
  BY <1>1, <1>2, <1>3 DEF Shapes
<1>8. QED
  BY <1>2, <1>3, <1>4, <1>5, <1>6, <1>7

\* The file of a command that has it open.
LEMMA OpenFile ==
    ASSUME IInv, NEW p \in Procs, Op(p) \in InFile \cup {"rename"}
    PROVE  /\ at(p) \in Paths /\ Target \in Paths /\ p \in Paths /\ p # Target
           /\ files[at(p)] \in File /\ files[at(p)] # Absent
           /\ files[at(p)] \in disk[at(p)] /\ Allowed(files[at(p)])
           /\ kind \in AtomicKinds => at(p) = p /\ files[p].content = Stage(p)
           /\ kind \notin AtomicKinds => at(p) = Target
<1>1. at(p) \in Paths /\ Target \in Paths /\ p \in Paths /\ p # Target
  BY LocalFilesAssumption DEF at, Paths
<1>2. files[at(p)] # Absent
  BY DEF IInv, HasFile
<1>3. files[at(p)] \in File
  BY <1>1, <1>2 DEF IInv, Shapes
<1>4. files[at(p)] \in disk[at(p)] /\ Allowed(files[at(p)])
  BY <1>1 DEF IInv, Disk
<1>5. kind \in AtomicKinds => at(p) = p /\ files[p].content = Stage(p)
  BY DEF IInv, Replaced, at
<1>6. kind \notin AtomicKinds => at(p) = Target
  BY DEF at
<1>7. QED
  BY <1>1, <1>2, <1>3, <1>4, <1>5, <1>6

\* create_new makes a key file where there was none.
LEMMA CreateNewStep ==
    ASSUME IInv, NEW p \in Procs, CreateNew(p)
    PROVE  IInv'
<1> DEFINE f == [content |-> <<>>, private |-> TRUE]
<1>1. /\ IsNext(p, "create_new") /\ files[at(p)] = Absent /\ Put(at(p), f)
      /\ superseded' = superseded \ {p} /\ Advance(p) /\ UNCHANGED <<exposed, powerLost>>
  BY DEF CreateNew
<1>2. /\ Op(p) = "create_new" /\ "create_new" \in CallsOf(kind) /\ kind \in AllKinds
      /\ Op(p)' = After(kind, "create_new")
      /\ \A q \in Procs \ {p} : Op(q)' = Op(q)
      /\ p \notin announced
      /\ UNCHANGED <<kind, status, token, creators, shown, announced>>
      /\ \A q : at(q)' = at(q)
      /\ \A g : Allowed(g) => Allowed(g)'
      /\ files' \in [Paths -> File \cup {Absent}] /\ DOMAIN disk' = Paths => Shapes'
  BY <1>1, CallMade
<1>3. kind \in KeyKinds /\ kind \notin AtomicKinds /\ kind # "token"
  BY <1>2, CallKinds DEF KeyKinds, AtomicKinds
<1>4. Op(p)' = "put"
  BY <1>2 DEF After
<1>5. \A q \in Procs : at(q) = Target
  BY <1>3 DEF at
<1>6. f \in File /\ f # Absent /\ f.content = <<>> /\ f.private
  BY EmptyFile
<1> HIDE DEF f
<1>7. Allowed(f)'
  BY <1>6 DEF Allowed
<1>8. /\ Disk'
      /\ files' \in [Paths -> File \cup {Absent}] /\ DOMAIN disk' = Paths
      /\ files'[Target] = f
  BY <1>1, <1>2, <1>5, <1>6, <1>7, PutKeeps DEF IInv, Paths
<1>9. Shapes'
  BY <1>2, <1>8
<1>10. files[Target] = Absent /\ superseded = {} /\ superseded' = {}
  BY <1>1, <1>3, <1>5 DEF IInv, KeysShown
<1>11. \A q \in Procs : Op(q) \notin InFile \cup {"rename"}
  BY <1>5, <1>10 DEF IInv, HasFile
<1>12. \A q \in Procs : ~Sole(q)
  BY <1>3, <1>10 DEF IInv, InPlace
<1>13. ASSUME NEW q \in Procs PROVE HasFile(q)'
  BY <1>2, <1>3, <1>5, <1>6, <1>8 DEF HasFile
<1>14. ASSUME NEW q \in Procs PROVE InPlace(q)'
  <2>1. CASE q = p
    <3>1. Writing' \subseteq {p}
      BY <1>2, <1>11, WritingOps
    <3>2. Stage(p)' = <<>> /\ ~Settled(p)'
      BY <1>2, <1>4 DEF Stage, Settled
    <3>3. QED
      BY <1>6, <1>8, <2>1, <3>1, <3>2 DEF InPlace
  <2>2. CASE q # p
    BY <1>2, <1>10, <1>12, <2>2 DEF InPlace, Sole
  <2>3. QED
    BY <2>1, <2>2
<1>15. ASSUME NEW q \in Procs PROVE Replaced(q)'
  BY <1>2, <1>3 DEF Replaced
<1>16. KeysShown'
  BY <1>1, <1>2, <1>3, <1>10 DEF IInv, KeysShown, Holds
<1>17. TargetWhole'
  BY <1>2, <1>3 DEF TargetWhole, KeyKinds
<1>18. QED
  BY <1>8, <1>9, <1>13, <1>14, <1>15, <1>16, <1>17 DEF IInv

\* A call on the temporary file of p.
LEMMA TempStep ==
    ASSUME IInv, NEW p \in Procs, kind \in AtomicKinds, Shapes', Disk',
           \A q \in Procs \ {p} : Op(q)' = Op(q), p \notin announced,
           UNCHANGED <<kind, token, creators, shown, announced, superseded, powerLost>>,
           \A path \in Paths \ {p} : files'[path] = files[path] /\ disk'[path] = disk[path],
           Op(p)' \in InFile \cup {"rename"},
           files'[p] # Absent /\ files'[p].content = Stage(p)',
           kind = "votes" /\ Op(p)' = "rename" => disk'[p] = {files'[p]},
           kind \in SecretKinds /\ Op(p)' \in {"put", "finish", "sync", "rename"} =>
             files'[p].private
    PROVE  IInv'
<1>1. \A q : at(q) = q /\ at(q)' = q
  BY DEF at
<1>2. /\ p # Target /\ Target \in Paths /\ \A q \in Procs : q \in Paths
      /\ \A q \in Procs \ {p} : q \in Paths \ {p}
      /\ Target \in Paths \ {p}
  BY LocalFilesAssumption DEF Paths
<1>3. kind # "token" /\ kind \notin KeyKinds
  BY DEF AtomicKinds, KeyKinds
<1>4. ASSUME NEW q \in Procs PROVE HasFile(q)'
  <2>1. CASE q = p
    BY <1>1, <1>3, <2>1 DEF HasFile
  <2>2. CASE q # p
    BY <1>1, <1>2, <1>3, <2>2 DEF IInv, HasFile
  <2>3. QED
    BY <2>1, <2>2
<1>5. ASSUME NEW q \in Procs PROVE InPlace(q)'
  BY DEF InPlace
<1>6. ASSUME NEW q \in Procs PROVE Replaced(q)'
  <2>1. CASE q = p
    <3>1. ~Settled(p)'
      BY DEF Settled, InFile
    <3>2. QED
      BY <2>1, <3>1 DEF Replaced
  <2>2. CASE q # p
    <3>1. Stage(q)' = Stage(q) /\ (Settled(q)' <=> Settled(q))
      BY <2>2 DEF Stage, Settled
    <3>2. files'[q] = files[q] /\ disk'[q] = disk[q] /\ files'[Target] = files[Target]
      BY <1>2, <2>2
    <3>3. QED
      BY <2>2, <3>1, <3>2 DEF IInv, Replaced, Holds
  <2>3. QED
    BY <2>1, <2>2
<1>7. TargetWhole'
  BY <1>2 DEF IInv, TargetWhole
<1>8. KeysShown'
  BY <1>3 DEF IInv, KeysShown
<1>9. QED
  BY <1>4, <1>5, <1>6, <1>7, <1>8 DEF IInv

\* A call of p on the output file, which p has open.
LEMMA FileStep ==
    ASSUME IInv, NEW p \in Procs, kind \notin AtomicKinds, Shapes', Disk', KeysShown',
           \A q \in Procs \ {p} : Op(q)' = Op(q), p \notin announced,
           UNCHANGED <<kind, token, creators, announced, superseded, powerLost>>,
           Op(p) \in InFile, Op(p)' \in InFile \cup {"end"},
           files'[Target] # Absent, kind \in SecretKinds => files'[Target].private,
           Sole(p) => files'[Target].content = Stage(p)',
           Sole(p) /\ kind \in SyncedKinds /\ Op(p)' = "end" =>
             \A f \in disk'[Target] : f # Absent /\ f.content = Whole(p)
    PROVE  IInv'
<1>1. \A q : at(q) = Target /\ at(q)' = Target
  BY DEF at
<1>2. kind \notin {"votes", "replay_cache"}
  BY DEF AtomicKinds
<1>3. p \in Writing /\ Writing' \subseteq Writing
  BY WritingOps
<1>4. ASSUME NEW q \in Procs PROVE HasFile(q)'
  <2>1. kind = "token" /\ q \in creators /\ Op(q)' \notin {"none", "wallet_new"} =>
          token # "none"
    BY DEF IInv, HasFile, InFile
  <2>2. QED
    BY <1>1, <2>1 DEF HasFile
<1>5. ASSUME NEW q \in Procs PROVE InPlace(q)'
  <2>1. Sole(q)' => Sole(q)
    BY DEF Sole
  <2>2. Sole(q)' => q = p
    BY <1>3, <2>1 DEF IInv, InPlace
  <2>3. Sole(q)' => \A r \in Writing' : r = q
    BY <1>3, <2>1 DEF IInv, InPlace
  <2>4. Settled(p)' => Op(p)' = "end"
    BY DEF Settled
  <2>5. QED
    BY <2>1, <2>2, <2>3, <2>4 DEF InPlace
<1>6. ASSUME NEW q \in Procs PROVE Replaced(q)'
  BY DEF Replaced
<1>7. TargetWhole'
  BY <1>2 DEF TargetWhole
<1>8. QED
  BY <1>4, <1>5, <1>6, <1>7 DEF IInv

\* Opening a file empties it; whoever has it open already is disturbed.
LEMMA OpenStep ==
    ASSUME IInv, NEW p \in Procs, Open(p)
    PROVE  IInv'
<1> DEFINE asked == IsNext(p, "open_private")
           old == IF files[at(p)] = Absent THEN asked ELSE files[at(p)].private
<1>1. PICK op \in {"open", "open_private"} : IsNext(p, op)
  BY DEF Open
<1>2. /\ Put(at(p), [content |-> <<>>, private |-> old])
      /\ Advance(p) /\ UNCHANGED <<exposed, powerLost>>
      /\ superseded' = IF at(p) = p THEN superseded
                       ELSE Procs \ (IF Writing = {} THEN {p} ELSE {})
  BY DEF Open
<1>3. /\ Op(p) = op /\ op \in CallsOf(kind) /\ kind \in AllKinds
      /\ Op(p)' = After(kind, op)
      /\ \A q \in Procs \ {p} : Op(q)' = Op(q)
      /\ p \notin announced
      /\ UNCHANGED <<kind, status, token, creators, shown, announced>>
      /\ \A q : at(q)' = at(q)
      /\ \A g : Allowed(g) => Allowed(g)'
      /\ files' \in [Paths -> File \cup {Absent}] /\ DOMAIN disk' = Paths => Shapes'
  BY <1>1, <1>2, CallMade
<1>4. /\ op = "open_private" => kind \in {"badge", "snapshot", "votes"} /\ Op(p)' = "restrict"
      /\ op = "open" => kind \in {"token", "public", "replay_cache"} /\ Op(p)' = "put"
  BY <1>3, CallKinds DEF After
<1>5. at(p) \in Paths /\ Target \in Paths /\ p \in Paths /\ p # Target
  BY LocalFilesAssumption DEF at, Paths
<1>6. old \in BOOLEAN
  <2>1. files[at(p)] \in File \cup {Absent}
    BY <1>5 DEF IInv, Shapes
  <2>2. asked \in BOOLEAN
    BY DEF IsNext
  <2> HIDE DEF asked
  <2>3. QED
    BY <2>1, <2>2 DEF File
<1>7. files[at(p)] # Absent => old = files[at(p)].private
  OBVIOUS
<1> HIDE DEF old
<1>8. PICK f \in File : /\ f # Absent /\ f.content = <<>> /\ f.private = old
                       /\ Put(at(p), f)
  BY <1>2, <1>6, EmptyFile
<1>9. Allowed(f)'
  <2>1. \A i : i \notin DOMAIN f.content
    BY <1>8
  <2>2. QED
    BY <1>8, <2>1 DEF Allowed
<1>10. /\ Disk'
       /\ files' \in [Paths -> File \cup {Absent}] /\ DOMAIN disk' = Paths
       /\ files'[at(p)] = f
       /\ \A path \in Paths \ {at(p)} :
            files'[path] = files[path] /\ disk'[path] = disk[path]
  BY <1>3, <1>5, <1>8, <1>9, PutKeeps DEF IInv
<1>11. Shapes'
  BY <1>3, <1>10
<1>12. Stage(p)' = <<>> /\ Op(p)' \in {"restrict", "put"}
  BY <1>1, <1>4 DEF Stage
<1>13. CASE kind \in AtomicKinds
  <2>1. at(p) = p /\ superseded' = superseded
    BY <1>2, <1>13 DEF at
  <2>2. kind \in SecretKinds => Op(p)' = "restrict"
    BY <1>1, <1>4 DEF SecretKinds, KeyKinds
  <2>3. QED
    BY <1>2, <1>3, <1>8, <1>10, <1>11, <1>12, <1>13, <2>1, <2>2, TempStep DEF InFile
<1>14. CASE kind \notin AtomicKinds
  <2>1. \A q : at(q) = Target /\ at(q)' = Target
    BY <1>3, <1>14 DEF at
  <2>2. superseded' = Procs \ (IF Writing = {} THEN {p} ELSE {})
    BY <1>2, <1>5, <2>1
  <2>3. /\ kind \notin KeyKinds /\ kind \notin {"votes", "replay_cache"}
        /\ kind = "token" => op = "open"
        /\ kind \in SecretKinds => op = "open_private"
    BY <1>1, <1>4, <1>14 DEF AtomicKinds, KeyKinds, SecretKinds
  <2>4. ASSUME NEW q \in Procs PROVE HasFile(q)'
    <3>1. CASE q = p
      <4>1. kind = "token" /\ p \in creators => token # "none"
        BY <1>1, <1>3 DEF IInv, HasFile
      <4>2. kind \in SecretKinds => Op(p)' = "restrict"
        BY <1>1, <1>4, <2>3
      <4>3. QED
        BY <1>3, <1>8, <1>10, <2>1, <3>1, <4>1, <4>2 DEF HasFile
    <3>2. CASE q # p
      BY <1>3, <1>7, <1>8, <1>10, <2>1, <3>2 DEF IInv, HasFile, InFile
    <3>3. QED
      BY <3>1, <3>2
  <2>5. ASSUME NEW q \in Procs PROVE InPlace(q)'
    <3>1. Sole(q)' => q = p /\ Writing = {}
      BY <2>2 DEF Sole
    <3>2. Writing = {} => Writing' \subseteq {p}
      BY <1>3, WritingOps
    <3>3. ~Settled(p)'
      BY <1>3, <1>12 DEF Settled
    <3>4. QED
      BY <1>8, <1>10, <1>12, <2>1, <3>1, <3>2, <3>3 DEF InPlace
  <2>6. ASSUME NEW q \in Procs PROVE Replaced(q)'
    BY <1>3, <1>14 DEF Replaced
  <2>7. TargetWhole' /\ KeysShown'
    BY <1>3, <2>3 DEF IInv, TargetWhole, KeysShown
  <2>8. QED
    BY <1>10, <1>11, <2>4, <2>5, <2>6, <2>7 DEF IInv
<1>15. QED
  BY <1>13, <1>14

\* set_permissions closes the file for others before anything is in it.
LEMMA RestrictStep ==
    ASSUME IInv, NEW p \in Procs, Restrict(p)
    PROVE  IInv'
<1>1. /\ IsNext(p, "restrict") /\ Put(at(p), [files[at(p)] EXCEPT !.private = TRUE])
      /\ Advance(p) /\ UNCHANGED <<superseded, exposed, powerLost>>
  BY DEF Restrict
<1>2. /\ Op(p) = "restrict" /\ "restrict" \in CallsOf(kind) /\ kind \in AllKinds
      /\ Op(p)' = After(kind, "restrict")
      /\ \A q \in Procs \ {p} : Op(q)' = Op(q)
      /\ p \notin announced
      /\ UNCHANGED <<kind, status, token, creators, shown, announced>>
      /\ \A g : Allowed(g) => Allowed(g)'
      /\ files' \in [Paths -> File \cup {Absent}] /\ DOMAIN disk' = Paths => Shapes'
  BY <1>1, CallMade
<1>3. kind \in {"badge", "snapshot", "votes"} /\ Op(p)' = "put"
  BY <1>2, CallKinds DEF After
<1>4. /\ at(p) \in Paths /\ files[at(p)] \in File /\ Allowed(files[at(p)])
      /\ kind \in AtomicKinds => at(p) = p /\ files[p].content = Stage(p)
      /\ kind \notin AtomicKinds => at(p) = Target
  BY <1>2, OpenFile DEF InFile
<1>5. PICK f \in File : /\ f # Absent /\ f.content = files[at(p)].content /\ f.private
                        /\ Put(at(p), f)
  <2> DEFINE g == [files[at(p)] EXCEPT !.private = TRUE]
  <2>1. g \in File /\ g.content = files[at(p)].content /\ g.private
    BY <1>4, SetPrivate
  <2> HIDE DEF g
  <2>2. g # Absent
    BY <2>1, FileFields
  <2>3. Put(at(p), g)
    BY <1>1 DEF g
  <2>4. QED
    BY <2>1, <2>2, <2>3
<1>6. Allowed(f)'
  <2>1. files[at(p)] # Absent
    BY <1>4, FileFields
  <2>2. Allowed(f)
    BY <1>4, <1>5, <2>1 DEF Allowed
  <2>3. QED
    BY <1>2, <2>2
<1>7. /\ Disk'
      /\ files' \in [Paths -> File \cup {Absent}] /\ DOMAIN disk' = Paths
      /\ files'[at(p)] = f
      /\ \A path \in Paths \ {at(p)} : files'[path] = files[path] /\ disk'[path] = disk[path]
  BY <1>2, <1>4, <1>5, <1>6, PutKeeps DEF IInv
<1>8. Shapes'
  BY <1>2, <1>7
<1>9. Stage(p) = <<>> /\ Stage(p)' = <<>>
  BY <1>2, <1>3 DEF Stage
<1>10. CASE kind \in AtomicKinds
  BY <1>1, <1>2, <1>3, <1>4, <1>5, <1>7, <1>8, <1>9, <1>10, TempStep DEF InFile
<1>11. CASE kind \notin AtomicKinds
  <2>1. Sole(p) => files[Target].content = <<>>
    BY <1>9, <1>11 DEF IInv, InPlace
  <2>2. KeysShown'
    BY <1>2, <1>3 DEF IInv, KeysShown, KeyKinds
  <2>3. QED
    BY <1>1, <1>2, <1>3, <1>4, <1>5, <1>7, <1>8, <1>9, <1>11, <2>1, <2>2, FileStep DEF InFile
<1>12. QED
  BY <1>10, <1>11

\* The content after a write, and what the file is then allowed to be.
LEMMA WriteAllowed ==
    ASSUME IInv, NEW p \in Procs, Op(p) \in {"put", "finish"}, status[p] = "running",
           NEW f \in File, f.private = files[at(p)].private,
           \A i \in DOMAIN f.content :
             \/ f.content[i] = p \/ f.content[i] = Absent
             \/ \E j \in DOMAIN files[at(p)].content :
                  f.content[i] = files[at(p)].content[j]
    PROVE  Allowed(f)
<1>1. Allowed(files[at(p)]) /\ files[at(p)] # Absent
  BY OpenFile DEF InFile
<1>2. /\ kind \in SecretKinds => f.private
      /\ kind = "token" /\ p \in creators => token # "none"
  BY DEF IInv, HasFile
<1>3. Absent \notin Procs
  BY LocalFilesAssumption
<1>4. ASSUME NEW i \in DOMAIN f.content, f.content[i] \in Procs
      PROVE  /\ status[f.content[i]] # "idle"
             /\ kind = "token" /\ f.content[i] \in creators => token # "none"
  BY <1>1, <1>2, <1>3, <1>4 DEF Allowed
<1>5. QED
  BY <1>2, <1>4 DEF Allowed

\* The two writes: a command that is alone fills the file with its value.
LEMMA WriteStep ==
    ASSUME IInv, NEW p \in Procs, Write(p)
    PROVE  IInv'
<1> DEFINE offset == IF IsNext(p, "put") THEN 1 ELSE 2
           old == files[at(p)].content
           size == IF Len(old) > offset THEN Len(old) ELSE offset
           new == [i \in 1 .. size |-> IF i = offset THEN p
                                       ELSE IF i \in DOMAIN old THEN old[i] ELSE Absent]
<1>1. PICK op \in {"put", "finish"} : IsNext(p, op)
  BY DEF Write
<1>2. /\ Put(at(p), [files[at(p)] EXCEPT !.content = new])
      /\ Advance(p) /\ UNCHANGED <<superseded, exposed, powerLost>>
  BY DEF Write
<1>3. /\ Op(p) = op /\ op \in CallsOf(kind) /\ kind \in AllKinds
      /\ Op(p)' = After(kind, op)
      /\ \A q \in Procs \ {p} : Op(q)' = Op(q)
      /\ p \notin announced /\ status[p] = "running"
      /\ UNCHANGED <<kind, status, token, creators, shown, announced>>
      /\ \A g : Allowed(g) => Allowed(g)'
      /\ files' \in [Paths -> File \cup {Absent}] /\ DOMAIN disk' = Paths => Shapes'
  BY <1>1, <1>2, CallMade
<1>4. /\ at(p) \in Paths /\ files[at(p)] \in File
      /\ kind \in AtomicKinds => at(p) = p /\ files[p].content = Stage(p)
      /\ kind \notin AtomicKinds => at(p) = Target
  BY <1>1, <1>3, OpenFile DEF InFile
<1>5. offset = IF op = "put" THEN 1 ELSE 2
  BY <1>1 DEF IsNext
<1>6. /\ new \in Content
      /\ \A i \in DOMAIN new :
           new[i] = p \/ new[i] = Absent \/ \E j \in DOMAIN old : new[i] = old[j]
      /\ old = <<>> /\ offset = 1 => new = <<p>>
      /\ old = <<p>> /\ offset = 2 => new = <<p, p>>
  <2>1. old \in Content
    BY <1>4 DEF File, Content
  <2>2. offset \in {1, 2}
    OBVIOUS
  <2> HIDE DEF offset
  <2>3. QED
    BY <2>1, <2>2, Written DEF Content
<1>7. Stage(p) = (IF op = "put" THEN <<>> ELSE <<p>>)
  BY <1>1, <1>3 DEF Stage
<1>8. old = Stage(p) => new = IF op = "put" THEN <<p>> ELSE Whole(p)
  <2> HIDE DEF old, new, offset
  <2>1. QED
    BY <1>1, <1>5, <1>6, <1>7 DEF Whole
<1> HIDE DEF offset, size, new, old
<1>9. PICK f \in File : /\ f # Absent /\ f.content = new /\ f.private = files[at(p)].private
                        /\ Put(at(p), f)
  <2> DEFINE g == [files[at(p)] EXCEPT !.content = new]
  <2>1. g \in File /\ g.content = new /\ g.private = files[at(p)].private
    BY <1>4, <1>6, SetContent
  <2> HIDE DEF g
  <2>2. g # Absent
    BY <2>1, FileFields
  <2>3. Put(at(p), g)
    BY <1>2 DEF g
  <2>4. QED
    BY <2>1, <2>2, <2>3
<1>10. Allowed(f)'
  <2>1. Allowed(f)
    BY <1>1, <1>3, <1>6, <1>9, WriteAllowed DEF old
  <2>2. QED
    BY <1>3, <2>1
<1>11. /\ Disk'
       /\ files' \in [Paths -> File \cup {Absent}] /\ DOMAIN disk' = Paths
       /\ files'[at(p)] = f
       /\ \A path \in Paths \ {at(p)} : files'[path] = files[path] /\ disk'[path] = disk[path]
  BY <1>3, <1>4, <1>9, <1>10, PutKeeps DEF IInv
<1>12. Shapes'
  BY <1>3, <1>11
<1>13. /\ op = "put" => Op(p)' = "finish"
       /\ op = "finish" => Op(p)' = AfterFinish(kind)
  BY <1>3 DEF After
<1>14. Stage(p)' = IF op = "put" THEN <<p>> ELSE Whole(p)
  BY <1>1, <1>13 DEF Stage, AfterFinish
<1>15. kind \in SecretKinds => f.private
  BY <1>1, <1>3, <1>9 DEF IInv, HasFile
<1>16. CASE kind \in AtomicKinds
  <2>1. /\ Op(p)' \in InFile \cup {"rename"}
        /\ kind = "votes" => Op(p)' # "rename"
    BY <1>1, <1>13, <1>16 DEF AfterFinish, InFile, AtomicKinds, KeyKinds
  <2>2. f.content = Stage(p)'
    BY <1>4, <1>8, <1>9, <1>14, <1>16 DEF old
  <2>3. QED
    BY <1>2, <1>3, <1>4, <1>9, <1>11, <1>12, <1>15, <1>16, <2>1, <2>2, TempStep
<1>17. CASE kind \notin AtomicKinds
  <2>1. Op(p) \in InFile /\ Op(p)' \in InFile \cup {"end"}
    BY <1>1, <1>3, <1>13, <1>17 DEF AfterFinish, InFile, AtomicKinds
  <2>2. kind \in SyncedKinds => Op(p)' # "end"
    BY <1>1, <1>13 DEF AfterFinish, SyncedKinds
  <2>3. Sole(p) => old = Stage(p) /\ f.content = Stage(p)'
    BY <1>4, <1>8, <1>9, <1>14, <1>17 DEF IInv, InPlace, old
  <2>4. KeysShown'
    <3>1. CASE kind \notin KeyKinds
      BY <1>3, <3>1 DEF IInv, KeysShown
    <3>2. CASE kind \in KeyKinds
      <4>1. superseded = {} /\ Sole(p)
        BY <1>17, <2>1, <3>2 DEF IInv, KeysShown, Sole
      <4>2. files[Target].content \in {<<>>, <<p>>}
        BY <1>4, <1>7, <1>17, <2>3, <4>1 DEF old
      <4>3. \A v \in shown : ~Holds(Target, v)
        BY <4>2, Unfinished DEF Holds
      <4>4. QED
        BY <1>2, <1>3, <3>2, <4>1, <4>3 DEF IInv, KeysShown
    <3>3. QED
      BY <3>1, <3>2
  <2>5. QED
    BY <1>2, <1>3, <1>4, <1>9, <1>11, <1>12, <1>15, <1>17, <2>1, <2>2, <2>3, <2>4, FileStep
<1>18. QED
  BY <1>16, <1>17

\* sync_all leaves one content on disk, that of the file.
LEMMA SyncStep ==
    ASSUME IInv, NEW p \in Procs, Sync(p)
    PROVE  IInv'
<1>1. /\ IsNext(p, "sync") /\ disk' = [disk EXCEPT ![at(p)] = {files[at(p)]}]
      /\ Advance(p) /\ UNCHANGED <<files, superseded, exposed, powerLost>>
  BY DEF Sync
<1>2. /\ Op(p) = "sync" /\ "sync" \in CallsOf(kind) /\ kind \in AllKinds
      /\ Op(p)' = After(kind, "sync")
      /\ \A q \in Procs \ {p} : Op(q)' = Op(q)
      /\ p \notin announced
      /\ UNCHANGED <<kind, status, token, creators, shown, announced>>
      /\ \A g : Allowed(g) => Allowed(g)'
      /\ files' \in [Paths -> File \cup {Absent}] /\ DOMAIN disk' = Paths => Shapes'
  BY <1>1, CallMade
<1>3. kind \in SyncedKinds \cup {"votes"} /\ Op(p)' = IF kind = "votes" THEN "rename" ELSE "end"
  BY <1>2, CallKinds DEF After
<1>4. /\ at(p) \in Paths /\ files[at(p)] # Absent
      /\ kind \in AtomicKinds => at(p) = p /\ files[p].content = Stage(p)
      /\ kind \notin AtomicKinds => at(p) = Target
  BY <1>2, OpenFile DEF InFile
<1>5. /\ files' \in [Paths -> File \cup {Absent}] /\ DOMAIN disk' = Paths
      /\ disk'[at(p)] = {files[at(p)]}
      /\ \A path \in Paths \ {at(p)} : disk'[path] = disk[path]
  BY <1>1, <1>4 DEF IInv, Shapes
<1>6. Shapes'
  BY <1>2, <1>5
<1>7. Disk'
  BY <1>1, <1>2, <1>5 DEF IInv, Disk
<1>8. Stage(p) = Whole(p) /\ Stage(p)' = Whole(p)
  BY <1>2, <1>3 DEF Stage
<1>9. kind \in SecretKinds => files[at(p)].private
  BY <1>2 DEF IInv, HasFile
<1>10. CASE kind \in AtomicKinds
  <2>1. kind = "votes"
    BY <1>3, <1>10 DEF AtomicKinds, SyncedKinds, KeyKinds
  <2>2. QED
    BY <1>1, <1>2, <1>3, <1>4, <1>5, <1>6, <1>7, <1>8, <1>9, <1>10, <2>1, TempStep
<1>11. CASE kind \notin AtomicKinds
  <2>1. Op(p)' = "end"
    BY <1>3, <1>11 DEF AtomicKinds
  <2>2. Sole(p) => files[Target].content = Whole(p)
    BY <1>8, <1>11 DEF IInv, InPlace
  <2>3. KeysShown'
    BY <1>1, <1>2 DEF IInv, KeysShown, Holds
  <2>4. QED
    BY <1>1, <1>2, <1>4, <1>5, <1>6, <1>7, <1>8, <1>9, <1>11, <2>1, <2>2, <2>3, FileStep
       DEF InFile
<1>12. QED
  BY <1>10, <1>11

\* A rename makes the whole temporary file the output file.
LEMMA RenameStep ==
    ASSUME IInv, NEW p \in Procs, Rename(p)
    PROVE  IInv'
<1>1. /\ IsNext(p, "rename") /\ Advance(p) /\ UNCHANGED exposed
      /\ files' = [files EXCEPT ![Target] = files[p], ![p] = Absent]
      /\ disk' = [disk EXCEPT ![Target] = disk[Target] \cup (disk[p] \ {Absent}),
                              ![p] = {Absent}]
      /\ superseded' = Procs \ {p} /\ powerLost' = FALSE
  BY DEF Rename
<1>2. /\ Op(p) = "rename" /\ "rename" \in CallsOf(kind) /\ kind \in AllKinds
      /\ Op(p)' = After(kind, "rename")
      /\ \A q \in Procs \ {p} : Op(q)' = Op(q)
      /\ p \notin announced
      /\ UNCHANGED <<kind, status, token, creators, shown, announced>>
      /\ \A q : at(q)' = at(q)
      /\ \A g : Allowed(g) => Allowed(g)'
      /\ files' \in [Paths -> File \cup {Absent}] /\ DOMAIN disk' = Paths => Shapes'
  BY <1>1, CallMade
<1>3. kind \in AtomicKinds /\ Op(p)' = "end"
  BY <1>2, CallKinds DEF After
<1>4. /\ Target \in Paths /\ p \in Paths /\ p # Target
      /\ files[p] \in File /\ files[p] # Absent /\ files[p] \in disk[p]
      /\ files[p].content = Whole(p)
  BY <1>2, <1>3, OpenFile DEF Stage
<1>5. /\ files' \in [Paths -> File \cup {Absent}] /\ DOMAIN disk' = Paths
      /\ files'[Target] = files[p] /\ files'[p] = Absent
      /\ disk'[Target] = disk[Target] \cup (disk[p] \ {Absent}) /\ disk'[p] = {Absent}
      /\ \A path \in Paths \ {p, Target} :
           files'[path] = files[path] /\ disk'[path] = disk[path]
  BY <1>1, <1>4 DEF IInv, Shapes
<1>6. Shapes'
  BY <1>2, <1>5
<1>7. Disk'
  <2>1. Allowed(Absent)'
    BY DEF Allowed
  <2>2. ASSUME NEW x \in Paths
        PROVE  files'[x] \in disk'[x] /\ \A g \in disk'[x] : Allowed(g)'
    <3>1. CASE x = p
      BY <1>5, <2>1, <3>1
    <3>2. CASE x = Target
      BY <1>2, <1>4, <1>5, <3>2 DEF IInv, Disk
    <3>3. CASE x \notin {p, Target}
      BY <1>2, <1>5, <3>3 DEF IInv, Disk
    <3>4. QED
      BY <3>1, <3>2, <3>3
  <2>3. QED
    BY <2>2 DEF Disk
<1>8. kind # "token" /\ kind \notin KeyKinds
  BY <1>3 DEF AtomicKinds, KeyKinds
<1>9. \A q : at(q) = q
  BY <1>3 DEF at
<1>10. \A q \in Procs \ {p} : q \in Paths \ {p, Target}
  BY LocalFilesAssumption DEF Paths
<1>11. ASSUME NEW q \in Procs PROVE HasFile(q)'
  <2>1. CASE q = p
    BY <1>2, <1>3, <1>8, <2>1 DEF HasFile, InFile
  <2>2. CASE q # p
    BY <1>2, <1>5, <1>8, <1>9, <1>10, <2>2 DEF IInv, HasFile
  <2>3. QED
    BY <2>1, <2>2
<1>12. ASSUME NEW q \in Procs PROVE InPlace(q)'
  BY <1>2, <1>3 DEF InPlace
<1>13. ASSUME NEW q \in Procs PROVE Replaced(q)'
  <2>1. CASE q = p
    BY <1>3, <1>4, <1>5, <2>1 DEF Replaced, Holds, InFile
  <2>2. CASE q # p
    <3>1. q \in superseded'
      BY <1>1, <2>2
    <3>2. Stage(q)' = Stage(q)
      BY <1>2, <2>2 DEF Stage
    <3>3. QED
      BY <1>2, <1>5, <1>10, <2>2, <3>1, <3>2 DEF IInv, Replaced
  <2>3. QED
    BY <2>1, <2>2
<1>14. TargetWhole'
  <2>1. IsWhole(files[p])
    BY <1>4 DEF IsWhole
  <2>2. IsWhole(files[Target])'
    BY <1>4, <1>5 DEF IsWhole
  <2>3. kind = "votes" => disk[p] = {files[p]}
    BY <1>2, <1>3 DEF IInv, Replaced
  <2>4. \A f : IsWhole(f) => IsWhole(f)'
    BY DEF IsWhole
  <2>5. kind = "votes" => \A f \in disk'[Target] : IsWhole(f)'
    <3>1. kind = "votes" => disk'[Target] = disk[Target] \cup {files[p]}
      BY <1>4, <1>5, <2>3
    <3>2. kind = "votes" => \A f \in disk[Target] : IsWhole(f)
      BY DEF IInv, TargetWhole
    <3>3. PICK g : g = files[p]
      OBVIOUS
    <3>4. IsWhole(g)
      BY <2>1, <3>3
    <3>5. kind = "votes" => \A f \in disk[Target] \cup {g} : IsWhole(f)
      BY <3>2, <3>4
    <3>6. QED
      BY <2>4, <3>1, <3>3, <3>5
  <2>6. QED
    BY <1>2, <2>2, <2>5 DEF TargetWhole
<1>15. KeysShown'
  BY <1>2, <1>8 DEF IInv, KeysShown
<1>16. QED
  BY <1>6, <1>7, <1>11, <1>12, <1>13, <1>14, <1>15 DEF IInv

---------------------------------------------------------------------------
(* Power losses and the user.                                              *)

\* A power loss ends all commands and leaves of each file something that was on disk.
LEMMA PowerLossStep ==
    ASSUME IInv, PowerLoss
    PROVE  IInv'
<1>1. /\ DOMAIN files' = Paths /\ \A path \in Paths : files'[path] \in disk[path]
      /\ disk' = [path \in Paths |-> {files'[path]}]
      /\ status' = [q \in Procs |-> IF status[q] = "running" THEN "stopped" ELSE status[q]]
      /\ rest' = [q \in Procs |-> <<>>]
      /\ superseded' = IF kind \in SyncedKinds THEN superseded ELSE Procs
      /\ powerLost' = TRUE
      /\ UNCHANGED <<kind, token, creators, announced, shown, exposed>>
  BY DEF PowerLoss, SyncedKinds
<1>2. \A f : Allowed(f) => Allowed(f)'
  <2>1. \A q \in Procs : status[q] # "idle" => status'[q] # "idle"
    BY <1>1
  <2>2. QED
    BY <1>1, <2>1, AllowedStays
<1>3. \A path \in Paths : disk'[path] = {files'[path]} /\ Allowed(files'[path])
  BY <1>1 DEF IInv, Disk
<1>4. Disk'
  BY <1>2, <1>3 DEF Disk
<1>5. files' \in [Paths -> File \cup {Absent}]
  <2>1. \A path \in Paths : files'[path] \in File \cup {Absent}
    BY <1>3 DEF Allowed
  <2>2. files' = [path \in Paths |-> files'[path]]
    BY DEF PowerLoss
  <2>3. QED
    BY <2>1, <2>2
<1>6. /\ status' \in [Procs -> {"idle", "running", "done", "stopped"}]
      /\ \A q \in Procs : status'[q] # "running"
      /\ \A q \in Procs : status[q] = "done" => status'[q] = "done"
      /\ \A q \in Procs : status[q] # "idle" => status'[q] # "idle"
      /\ DOMAIN rest' = Procs
  BY <1>1 DEF IInv, Shapes
<1>7. Shapes'
  BY <1>1, <1>5, <1>6 DEF IInv, Shapes
<1>8. \A q \in Procs : Op(q)' = "none"
  BY <1>6 DEF Op
<1>9. ASSUME NEW q \in Procs PROVE HasFile(q)'
  BY <1>8 DEF HasFile, InFile
<1>10. ASSUME NEW q \in Procs PROVE InPlace(q)'
  <2>1. SUFFICES ASSUME kind \notin AtomicKinds, Sole(q)' PROVE InPlace(q)'
    BY <1>1 DEF InPlace
  <2>2. q \in announced /\ kind \in SyncedKinds /\ superseded' = superseded
    BY <1>1, <1>8, <2>1 DEF Sole, InFile
  <2>3. Sole(q) /\ Settled(q)
    BY <2>1, <2>2 DEF Sole, Settled
  <2>4. \A f \in disk[Target] : f # Absent /\ f.content = Whole(q)
    BY <2>1, <2>2, <2>3 DEF IInv, InPlace
  <2>5. Stage(q)' = Whole(q) /\ Writing' = {}
    BY <1>8, WritingOps DEF Stage, InFile
  <2>6. files'[Target] # Absent /\ files'[Target].content = Whole(q)
    BY <1>1, <2>4 DEF Paths
  <2>7. disk'[Target] = {files'[Target]}
    BY <1>3 DEF Paths
  <2>8. QED
    BY <2>5, <2>6, <2>7 DEF InPlace
<1>11. ASSUME NEW q \in Procs PROVE Replaced(q)'
  <2>1. kind \in AtomicKinds => superseded' = Procs
    BY <1>1 DEF AtomicKinds, SyncedKinds, KeyKinds
  <2>2. QED
    BY <1>1, <1>8, <2>1 DEF Replaced, InFile
<1>12. TargetWhole'
  <2>1. Target \in Paths
    BY DEF Paths
  <2>2. \A f : IsWhole(f) => IsWhole(f)'
    BY DEF IsWhole
  <2>3. kind = "votes" => \A f \in disk[Target] : IsWhole(f)'
    BY <2>2 DEF IInv, TargetWhole
  <2>4. kind = "votes" => \A f \in disk'[Target] : IsWhole(f)'
    BY <1>1, <2>1, <2>3
  <2>5. QED
    BY <1>1, <2>4 DEF TargetWhole
<1>13. KeysShown'
  BY <1>1 DEF IInv, KeysShown, SyncedKinds
<1>14. QED
  BY <1>4, <1>7, <1>9, <1>10, <1>11, <1>12, <1>13 DEF IInv

\* The user makes a file readable; its content stays and is known to be exposed.
LEMMA ExposeStep ==
    ASSUME IInv, Expose
    PROVE  IInv'
<1>1. /\ Writing = {} /\ files[Target] # Absent
      /\ Put(Target, [files[Target] EXCEPT !.private = FALSE])
      /\ exposed' = exposed \cup {files[Target].content[i] : i \in DOMAIN files[Target].content}
      /\ UNCHANGED <<kind, rest, status, token, creators, announced, shown, superseded,
                     powerLost>>
  BY DEF Expose
<1>2. Target \in Paths /\ files[Target] \in File /\ files[Target] \in disk[Target]
  BY <1>1 DEF IInv, Shapes, Disk, Paths
<1>3. PICK f \in File : /\ f # Absent /\ f.content = files[Target].content
                        /\ Put(Target, f)
  <2> DEFINE g == [files[Target] EXCEPT !.private = FALSE]
  <2>1. g \in File /\ g.content = files[Target].content
    BY <1>2, SetPrivate
  <2> HIDE DEF g
  <2>2. g # Absent
    BY <2>1, FileFields
  <2>3. Put(Target, g)
    BY <1>1 DEF g
  <2>4. QED
    BY <2>1, <2>2, <2>3
<1>4. \A g : Allowed(g) => Allowed(g)'
  BY <1>1, AllowedStays
<1>5. Allowed(f)'
  <2>1. Allowed(files[Target])
    BY <1>2 DEF IInv, Disk
  <2>2. \A i \in DOMAIN f.content : f.content[i] \in exposed'
    BY <1>1, <1>3
  <2>3. \A i \in DOMAIN f.content : f.content[i] \in Procs =>
          /\ status[f.content[i]] # "idle"
          /\ kind = "token" /\ f.content[i] \in creators => token # "none"
    BY <1>1, <1>3, <2>1 DEF Allowed
  <2>4. QED
    BY <1>1, <1>3, <2>2, <2>3 DEF Allowed
<1>6. /\ Disk'
      /\ files' \in [Paths -> File \cup {Absent}] /\ DOMAIN disk' = Paths
      /\ files'[Target] = f /\ disk'[Target] = disk[Target] \cup {f}
      /\ \A path \in Paths \ {Target} :
           files'[path] = files[path] /\ disk'[path] = disk[path]
  BY <1>2, <1>3, <1>4, <1>5, PutKeeps DEF IInv
<1>7. Shapes'
  BY <1>1, <1>6 DEF IInv, Shapes
<1>8. \A q : Op(q)' = Op(q) /\ at(q)' = at(q)
  BY <1>1 DEF Op, at
<1>9. \A q \in Procs : kind \notin AtomicKinds => Op(q) \notin InFile \cup {"rename"}
  <2>1. ASSUME NEW q \in Procs, Op(q) = "rename" PROVE kind \in AtomicKinds
    <3>1. "rename" \in CallsOf(kind)
      BY <2>1, OpKinds DEF IInv
    <3>2. QED
      BY <3>1, CallKinds, KindKnown DEF IInv
  <2>2. QED
    BY <1>1, <2>1, WritingOps
<1>10. \A q \in Procs : q \in Paths \ {Target}
  BY LocalFilesAssumption DEF Paths
<1>11. \A v : Holds(Target, v)' <=> Holds(Target, v)
  BY <1>1, <1>3, <1>6 DEF Holds
<1>12. \A q : Stage(q)' = Stage(q) /\ (Sole(q)' <=> Sole(q)) /\ (Settled(q)' <=> Settled(q))
  BY <1>1, <1>8 DEF Stage, Sole, Settled
<1>13. ASSUME NEW q \in Procs PROVE HasFile(q)'
  <2>1. CASE kind \in AtomicKinds
    BY <1>1, <1>6, <1>8, <1>10, <2>1 DEF IInv, HasFile, at
  <2>2. CASE kind \notin AtomicKinds
    BY <1>1, <1>8, <1>9, <2>2 DEF IInv, HasFile, InFile
  <2>3. QED
    BY <2>1, <2>2
<1>14. ASSUME NEW q \in Procs PROVE InPlace(q)'
  <2>1. Writing' = {}
    BY <1>1, <1>8, WritingOps
  <2>2. SUFFICES ASSUME kind \notin AtomicKinds, Sole(q) PROVE InPlace(q)'
    BY <1>1, <1>12 DEF InPlace
  <2>3. /\ files[Target].content = Stage(q)
        /\ kind \in SyncedKinds /\ Settled(q) =>
             \A g \in disk[Target] : g # Absent /\ g.content = Whole(q)
    BY <2>2 DEF IInv, InPlace
  <2>4. kind \in SyncedKinds /\ Settled(q) =>
          \A g \in disk'[Target] : g # Absent /\ g.content = Whole(q)
    BY <1>2, <1>3, <1>6, <2>3
  <2>5. QED
    BY <1>1, <1>3, <1>6, <1>12, <2>1, <2>3, <2>4 DEF InPlace
<1>15. ASSUME NEW q \in Procs PROVE Replaced(q)'
  BY <1>1, <1>6, <1>8, <1>10, <1>11, <1>12 DEF IInv, Replaced
<1>16. TargetWhole'
  <2>1. IsWhole(files[Target]) => IsWhole(f)
    BY <1>1, <1>3 DEF IsWhole
  <2>2. \A g : IsWhole(g)' <=> IsWhole(g)
    BY DEF IsWhole
  <2>3. kind = "votes" => \A g \in disk'[Target] : IsWhole(g)'
    BY <1>2, <1>6, <2>1, <2>2 DEF IInv, TargetWhole
  <2>4. IsWhole(files[Target])' <=> IsWhole(f)
    BY <1>6 DEF IsWhole
  <2>5. kind = "replay_cache" => IsWhole(f) \/ powerLost
    BY <2>1 DEF IInv, TargetWhole
  <2>6. QED
    BY <1>1, <2>3, <2>4, <2>5 DEF TargetWhole
<1>17. KeysShown'
  BY <1>1, <1>11 DEF IInv, KeysShown
<1>18. QED
  BY <1>6, <1>7, <1>13, <1>14, <1>15, <1>16, <1>17 DEF IInv

\* Only key files that nobody finished, reported or showed are deleted.
LEMMA RemoveStep ==
    ASSUME IInv, RemoveTorn
    PROVE  IInv'
<1>1. /\ kind \in KeyKinds /\ Writing = {} /\ files[Target] # Absent
      /\ Len(files[Target].content) # 2
      /\ Put(Target, Absent)
      /\ UNCHANGED <<kind, rest, status, token, creators, announced, shown, superseded,
                     exposed, powerLost>>
  BY DEF RemoveTorn, History, read_json
<1>2. Target \in Paths
  BY DEF Paths
<1>3. \A g : Allowed(g) => Allowed(g)'
  BY <1>1, AllowedStays
<1>4. Allowed(Absent)'
  BY DEF Allowed
<1>5. /\ Disk'
      /\ files' \in [Paths -> File \cup {Absent}] /\ DOMAIN disk' = Paths
      /\ files'[Target] = Absent
      /\ \A path \in Paths \ {Target} :
           files'[path] = files[path] /\ disk'[path] = disk[path]
  BY <1>1, <1>2, <1>3, <1>4, PutKeeps DEF IInv
<1>6. Shapes'
  BY <1>1, <1>5 DEF IInv, Shapes
<1>7. \A q : Op(q)' = Op(q)
  BY <1>1 DEF Op
<1>8. /\ kind \notin AtomicKinds /\ kind # "token"
      /\ kind \notin {"votes", "replay_cache"}
  BY <1>1 DEF KeyKinds, AtomicKinds
<1>9. \A q \in Procs : Op(q) \notin InFile \cup {"rename"}
  <2>1. ASSUME NEW q \in Procs, Op(q) = "rename" PROVE FALSE
    <3>1. "rename" \in CallsOf(kind)
      BY <2>1, OpKinds DEF IInv
    <3>2. QED
      BY <1>8, <3>1, CallKinds, KindKnown DEF IInv
  <2>2. QED
    BY <1>1, <1>8, <2>1, WritingOps
<1>10. \A v : files[Target].content # Whole(v)
  BY <1>1, Unfinished
<1>11. \A q \in Procs : ~Sole(q)
  <2>1. ASSUME NEW q \in Procs, Sole(q) PROVE FALSE
    <3>1. files[Target].content = Stage(q)
      BY <1>8, <2>1 DEF IInv, InPlace
    <3>2. Stage(q) = Whole(q)
      BY <1>9 DEF Stage, InFile
    <3>3. QED
      BY <1>10, <3>1, <3>2
  <2>2. QED
    BY <2>1
<1>12. ASSUME NEW q \in Procs PROVE HasFile(q)'
  BY <1>1, <1>7, <1>8, <1>9 DEF HasFile, InFile
<1>13. ASSUME NEW q \in Procs PROVE InPlace(q)'
  BY <1>1, <1>7, <1>11 DEF InPlace, Sole
<1>14. ASSUME NEW q \in Procs PROVE Replaced(q)'
  BY <1>1, <1>8 DEF Replaced
<1>15. TargetWhole'
  BY <1>1, <1>8 DEF TargetWhole
<1>16. KeysShown'
  BY <1>1, <1>10 DEF IInv, KeysShown, Holds
<1>17. QED
  BY <1>5, <1>6, <1>12, <1>13, <1>14, <1>15, <1>16 DEF IInv

---------------------------------------------------------------------------
(* The theorems.                                                           *)

\* The invariant: whatever may be found on disk is accounted for, and a command
\* that got through undisturbed finds its value where it left it.
THEOREM Inductive == Spec => []IInv
<1>1. Init => IInv
  <2> SUFFICES ASSUME Init PROVE IInv
    OBVIOUS
  <2>1. \A p \in Procs : Op(p) = "none" /\ status[p] = "idle"
    BY DEF Init, Op
  <2>2. Shapes
    BY DEF Init, Shapes
  <2>3. Disk
    BY DEF Init, Disk, Allowed
  <2>4. TargetWhole
    BY DEF Init, TargetWhole, IsWhole, Paths
  <2>5. KeysShown
    BY DEF Init, KeysShown
  <2>6. ASSUME NEW p \in Procs PROVE HasFile(p)
    BY <2>1 DEF HasFile, InFile
  <2>7. ASSUME NEW p \in Procs PROVE ~Sole(p) /\ ~Settled(p)
    BY <2>1 DEF Init, Sole, Settled, InFile
  <2>8. ASSUME NEW p \in Procs PROVE InPlace(p) /\ Replaced(p)
    BY <2>1, <2>7 DEF InPlace, Replaced, InFile
  <2>9. QED
    BY <2>2, <2>3, <2>4, <2>5, <2>6, <2>8 DEF IInv
<1>2. IInv /\ [Next]_vars => IInv'
  <2> SUFFICES ASSUME IInv, [Next]_vars PROVE IInv'
    OBVIOUS
  <2>1. CASE UNCHANGED vars
    <3>1. UNCHANGED <<kind, files, disk, rest, status, creators, token, announced, shown,
                      superseded, exposed, powerLost>>
      BY <2>1 DEF vars
    <3>2. KeysShown' /\ token \in {"none", "created", "minted"}
      BY <3>1 DEF IInv, KeysShown, Holds, Shapes
    <3>3. QED
      BY <3>1, <3>2, CommandsRest
  <2>2. ASSUME NEW p \in Procs, Command(p) PROVE IInv'
    BY <2>2, CommandStep
  <2>3. ASSUME NEW p \in Procs,
               CreateNew(p) \/ Open(p) \/ Restrict(p) \/ Write(p) \/ Sync(p) \/ Rename(p)
        PROVE  IInv'
    BY <2>3, CreateNewStep, OpenStep, RestrictStep, WriteStep, SyncStep, RenameStep
  <2>4. ASSUME NEW p \in Procs, WalletNew(p) \/ Report(p) \/ Stop(p) PROVE IInv'
    BY <2>4, WalletStep, ReportStep, StopStep
  <2>5. CASE PowerLoss \/ ShowKey \/ Expose \/ RemoveTorn
    BY <2>5, PowerLossStep, ShowKeyStep, ExposeStep, RemoveStep
  <2>6. ASSUME NEW holder \in {"", "holder"}, NEW amount \in 0 .. 1, TokenMint(holder, amount)
        PROVE  IInv'
    BY <2>6, MintStep
  <2>7. QED
    BY <2>1, <2>2, <2>3, <2>4, <2>5, <2>6 DEF Next
<1>3. QED
  BY <1>1, <1>2, PTL DEF Spec

\* What is found under the path of each kind, whatever commands crash, interleave
\* or lose power: votes absent or whole, the replay cache too unless power was lost
\* since its last replacement, and no configuration of token create without token.
THEOREM WellFormed == Spec => []FilesWellFormed
<1>1. IInv => FilesWellFormed
  <2> SUFFICES ASSUME IInv PROVE FilesWellFormed
    OBVIOUS
  <2>1. Target \in Paths
    BY DEF Paths
  <2>2. \A path \in Paths : files[path] \in disk[path] /\ disk[path] \subseteq File \cup {Absent}
    BY DEF IInv, Disk, Allowed
  <2>3. kind = "votes" => IsWhole(files[Target])
    BY <2>1 DEF IInv, TargetWhole, Disk
  <2>4. kind = "replay_cache" => IsWhole(files[Target]) \/ powerLost
    BY DEF IInv, TargetWhole
  <2>5. ASSUME NEW v \in creators, kind = "token", Holds(Target, v)
        PROVE  token # "none"
    <3>1. /\ v \in Procs /\ files[Target] # Absent /\ Allowed(files[Target])
          /\ files[Target].content = <<v, v>>
      BY <2>1, <2>5 DEF IInv, Shapes, Disk, Holds, Whole
    <3>2. 1 \in DOMAIN files[Target].content /\ files[Target].content[1] = v
      BY <3>1
    <3>3. QED
      BY <2>5, <3>1, <3>2 DEF Allowed
  <2>6. /\ kind \in Kinds
        /\ files \in [Paths -> File \cup {Absent}]
        /\ status \in [Procs -> {"idle", "running", "done", "stopped"}]
        /\ token \in {"none", "created", "minted"}
    BY DEF IInv, Shapes
  <2>7. QED
    BY <2>2, <2>3, <2>4, <2>5, <2>6 DEF FilesWellFormed
<1>2. QED
  BY <1>1, Inductive, PTL

\* A report of success is kept: a reported key for good, whatever others generate
\* and whenever power is lost, other files until a later command replaces them.
THEOREM Kept == Spec => []AnnouncedIsKept
<1>1. IInv => AnnouncedIsKept
  <2> SUFFICES ASSUME IInv PROVE AnnouncedIsKept
    OBVIOUS
  <2>1. ASSUME NEW v \in announced, kind \in KeyKinds \/ v \notin superseded
        PROVE  Holds(Target, v)
    <3>1. v \in Procs /\ v \notin superseded
      BY <2>1 DEF IInv, Shapes, KeysShown
    <3>2. Settled(v) /\ Sole(v) /\ Op(v) = "none"
      BY <2>1, <3>1 DEF IInv, Shapes, Settled, Sole, Op
    <3>3. Stage(v) = Whole(v)
      BY <3>2 DEF Stage
    <3>4. CASE kind \in AtomicKinds
      BY <3>1, <3>2, <3>4 DEF IInv, Replaced
    <3>5. CASE kind \notin AtomicKinds
      BY <3>1, <3>2, <3>3, <3>5 DEF IInv, InPlace, Holds
    <3>6. QED
      BY <3>4, <3>5
  <2>2. QED
    BY <2>1 DEF AnnouncedIsKept, IInv, KeysShown
<1>2. QED
  BY <1>1, Inductive, PTL

\* No part of a secret is ever in a file that others may read, unless the user made
\* that very value readable.
THEOREM Private == Spec => []SecretsStayPrivate
<1>1. IInv => SecretsStayPrivate
  BY DEF IInv, Disk, Allowed, SecretsStayPrivate
<1>2. QED
  BY <1>1, Inductive, PTL

=============================================================================
