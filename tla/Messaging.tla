----------------------------- MODULE Messaging ------------------------------
(***************************************************************************)
(* The transfer of a presentation over Logos Messaging: an envelope is cut *)
(* into chunks that are sent before the manifest that commits to them; the *)
(* receiver polls a rolling window of the conversation, keeps what belongs *)
(* to the protocol and tries to assemble a transfer after every poll.      *)
(*                                                                         *)
(* The conversation is external.  Nothing is assumed about it but that a   *)
(* message it returns was sent by the sender it names: messages are lost,  *)
(* repeated, reordered and pushed out of the window, and anyone may post   *)
(* chunks and manifests of his own making under any transfer id.           *)
(*                                                                         *)
(* An envelope is a record with its serialized bytes, a short sequence, so *)
(* that cutting and joining are the real operations on sequences.          *)
(***************************************************************************)
EXTENDS Naturals, Sequences, SequencesExt

CONSTANTS
    Transfers,                   \* transfer ids, one for each send command
    SenderOf(_),                 \* the chat identity that runs a send command
    Envelopes,                   \* [bytes, transport, context_hash, challenge_digest]
    ChunkSizes, Copies,          \* values of --chunk-bytes and --copies
    MAX_CHUNK_BYTES, MAX_TRANSFER_BYTES, MAX_CHUNKS, MAX_PENDING_WIRE_MESSAGES,
    Noise,                       \* posts that no send command made
    Requests,                    \* values of --transfer-id: sets of at most one id
    ExpectedSenders,             \* values of --expected-sender
    WINDOW                       \* bound on what one get_messages returns

\* An envelope's bytes are its serialization: not empty, and those of no other.
IsSerialized(e) ==
    /\ e.bytes \in Seq(ToSet(e.bytes)) /\ e.bytes # << >>
    /\ \A f \in Envelopes : e.bytes = f.bytes => e = f

\* The buffer has room for one transfer.  An option is a set of at most one element;
\* a requested id that no command uses is one that is never packed.
ASSUME MessagingAssumption ==
    /\ {MAX_CHUNK_BYTES, MAX_TRANSFER_BYTES, MAX_CHUNKS, MAX_PENDING_WIRE_MESSAGES,
        WINDOW} \subseteq Nat
    /\ MAX_CHUNKS + 1 <= MAX_PENDING_WIRE_MESSAGES
    /\ ChunkSizes \subseteq Nat /\ Copies \subseteq Nat
    /\ \A e \in Envelopes : IsSerialized(e)
    /\ Requests \subseteq SUBSET Transfers
    /\ \A option \in Requests \cup ExpectedSenders : \A x, y \in option : x = y
    /\ \A post \in Noise : post.content.kind \in {"text", "chunk", "manifest"}

VARIABLES
    outbox,     \* per transfer: the messages of its bundle still to be sent
    packed,     \* history: the envelope each transfer was packed from
    posts,      \* what the conversation may return of others (from_self is dropped)
    args,       \* the receiver's --transfer-id and --expected-sender
    contents,   \* PendingWireMessages.contents; "seen" is the set of them
    elapsed,    \* the receiver's timeout has passed
    result,     \* what receive_envelope returned
    pc          \* the receiver

vars == <<outbox, packed, posts, args, contents, elapsed, result, pc>>
sender == <<outbox, packed, posts>>

None == {}
Some(v) == {v}
Ok(value) == [code |-> "Ok", value |-> value]
Err(code) == [code |-> code, value |-> << >>]

Post(from, content) == [sender |-> from, content |-> content]

---------------------------------------------------------------------------
(* Packing.                                                                *)

\* slice::chunks: cut s into pieces of n, the last one possibly shorter.
chunks(s, n) ==
    [i \in 1 .. (Len(s) + n - 1) \div n |->
       SubSeq(s, (i - 1) * n + 1, IF i * n < Len(s) THEN i * n ELSE Len(s))]

Chunk(t, index, count, data) ==
    [kind |-> "chunk", transfer_id |-> t, chunk_index |-> index,
     chunk_count |-> count, data |-> data]

\* SHA-256 of the bytes is the bytes.
Manifest(t, e, count) ==
    [kind |-> "manifest", transfer_id |-> t, envelope_sha256 |-> e.bytes,
     envelope_bytes |-> Len(e.bytes), chunk_count |-> count,
     context_hash |-> e.context_hash, challenge_digest |-> e.challenge_digest]

\* pack_envelope_with_id: the chunks in order, then the manifest.
pack_envelope(e, chunk_bytes, t) ==
    IF e.transport # "LogosMessaging" THEN Err("WrongTransport")
    ELSE IF chunk_bytes \notin 1 .. MAX_CHUNK_BYTES THEN Err("InvalidChunkSize")
    ELSE IF Len(e.bytes) > MAX_TRANSFER_BYTES THEN Err("TransferTooLarge")
    ELSE LET cut == chunks(e.bytes, chunk_bytes)
         IN  IF Len(cut) > MAX_CHUNKS THEN Err("TooManyChunks")
             ELSE Ok([i \in 1 .. Len(cut) |-> Chunk(t, i - 1, Len(cut), cut[i])]
                     \o <<Manifest(t, e, Len(cut))>>)

---------------------------------------------------------------------------
(* Unpacking.                                                              *)

validate_wire_body(m) ==
    /\ m.chunk_count \in 1 .. MAX_CHUNKS
    /\ m.kind = "manifest" => m.envelope_bytes <= MAX_TRANSFER_BYTES
    /\ m.kind = "chunk" => /\ m.chunk_index < m.chunk_count
                           /\ Len(m.data) <= MAX_CHUNK_BYTES

\* Messages of other protocols and of other transfers than the requested one.
ignored(m, requested) ==
    m.kind = "text" \/ (\E t \in requested : m.transfer_id # t)

\* Two messages that cannot both belong to one transfer.
conflict(m, n) ==
    /\ m.kind = n.kind
    /\ m.transfer_id = n.transfer_id
    /\ m # n
    /\ m.kind = "chunk" => m.chunk_index = n.chunk_index

\* Mutant: a transfer that has the right number of bytes is good.
joined_wrongly_by_length(manifest, joined) == Len(joined) # manifest.envelope_bytes

joined_wrongly(manifest, joined) ==
    Len(joined) # manifest.envelope_bytes \/ joined # manifest.envelope_sha256

\* PartialTransfer::assemble for the messages of transfer t.
assemble(messages, t) ==
    LET own == {m \in messages : m.kind # "text" /\ m.transfer_id = t}
        manifests == {m \in own : m.kind = "manifest"}
        manifest == CHOOSE m \in manifests : TRUE
        parts == {m \in own : m.kind = "chunk"}
        indexes == {m.chunk_index : m \in parts}
        count == manifest.chunk_count
        part(i) == CHOOSE m \in parts : m.chunk_index = i - 1
        \* indexes at which the loop over 0..chunk_count stops
        missing == (0 .. count - 1) \ indexes
        miscounted == {m.chunk_index : m \in {x \in parts : x.chunk_count # count}}
        joined == FlattenSeq([i \in 1 .. count |-> part(i).data])
        parsed == {e \in Envelopes : e.bytes = joined}
    IN  IF manifests = {} THEN Err("NoTransfer")
        ELSE IF Cardinality(indexes) # count THEN Err("IncompleteTransfer")
        ELSE IF \E i \in missing : \A j \in miscounted : i < j
             THEN Err("IncompleteTransfer")
        ELSE IF miscounted # {} THEN Err("InvalidWireMessage")
        ELSE IF joined_wrongly(manifest, joined) THEN Err("IntegrityFailure")
        ELSE IF parsed = {} THEN Err("InvalidWireMessage")
        ELSE LET e == CHOOSE x \in parsed : TRUE
             IN  IF e.transport # "LogosMessaging" THEN Err("WrongTransport")
                 ELSE IF \/ e.context_hash # manifest.context_hash
                         \/ e.challenge_digest # manifest.challenge_digest
                      THEN Err("IntegrityFailure")
                 ELSE Ok(<<t, e>>)

\* unpack_envelope on messages that observe let through: a conflict ends it,
\* otherwise it assembles the requested transfer or else the one whose manifest
\* came last.
unpack_envelope(messages, requested) ==
    LET manifests == {i \in DOMAIN messages : messages[i].kind = "manifest"}
        chosen == IF requested # None THEN requested
                  ELSE IF manifests = {} THEN None
                  ELSE Some(messages[Max(manifests)].transfer_id)
        clashes == {i \in DOMAIN messages :
                      \E j \in 1 .. i - 1 : conflict(messages[i], messages[j])}
    IN  IF clashes # {}
        THEN Err(IF messages[CHOOSE i \in clashes : \A j \in clashes : i <= j].kind = "chunk"
                 THEN "ConflictingChunk" ELSE "ConflictingManifest")
        ELSE IF chosen = None THEN Err("NoTransfer")
        ELSE assemble(ToSet(messages), CHOOSE t \in chosen : TRUE)

\* PendingWireMessages::observe for one message.
\* Mutant: repeated messages are kept again.
observe_again(acc, m, requested) ==
    IF acc.code # "Ok" \/ ignored(m, requested) THEN acc
    ELSE IF ~validate_wire_body(m) THEN [acc EXCEPT !.code = "InvalidWireMessage"]
    ELSE IF Len(acc.contents) >= MAX_PENDING_WIRE_MESSAGES
         THEN [acc EXCEPT !.code = "TooManyPending"]
    ELSE [acc EXCEPT !.contents = Append(@, m)]

observe(acc, m, requested) ==
    IF acc.code # "Ok" \/ ignored(m, requested) THEN acc
    ELSE IF ~validate_wire_body(m) THEN [acc EXCEPT !.code = "InvalidWireMessage"]
    ELSE IF m \in ToSet(acc.contents) THEN acc
    ELSE IF Len(acc.contents) >= MAX_PENDING_WIRE_MESSAGES
         THEN [acc EXCEPT !.code = "TooManyPending"]
    ELSE [acc EXCEPT !.contents = Append(@, m)]

---------------------------------------------------------------------------

Init ==
    /\ outbox = [t \in Transfers |-> << >>]
    /\ packed = [t \in Transfers |-> None]
    /\ posts = Noise
    /\ args \in [requested : Requests, expected_sender : ExpectedSenders]
    /\ contents = << >>
    /\ elapsed = FALSE
    /\ result = Err("Pending")
    /\ pc = "polling"

receiver == <<args, contents, elapsed, result, pc>>

\* messaging send: pack under a fresh random id; the bundle is sent copies times.
Pack(t, e, chunk_bytes, copies) ==
    LET bundle == pack_envelope(e, chunk_bytes, t)
    IN  /\ packed[t] = None
        /\ copies \in 1 .. 3
        /\ bundle.code = "Ok"
        /\ packed' = [packed EXCEPT ![t] = Some(e)]
        /\ outbox' = [outbox EXCEPT ![t] =
                        FlattenSeq([copy \in 1 .. copies |-> bundle.value])]
        /\ UNCHANGED <<posts, receiver>>

\* What a call of the Logos Core command line may come back with (external).
Replies == {"success", "unsuccessful", "no_result", "not_ok", "not_json",
            "exit_status", "no_binary"}

\* LogosCoreClient::call.
call(reply) ==
    CASE reply = "no_binary"                -> "LogosCoreExecution"
      [] reply \in {"exit_status", "not_ok"} -> "LogosCoreCall"
      [] reply = "not_json"                 -> "LogosCoreResponse"
      [] OTHER                              -> "Ok"

require_result_success(reply) ==
    CASE call(reply) # "Ok"     -> call(reply)
      [] reply = "no_result"    -> "LogosCoreResponse"
      [] reply = "unsuccessful" -> "LogosCoreCall"
      [] OTHER                  -> "Ok"

\* A result that is no list of messages is not usable.
get_messages(reply) ==
    CASE call(reply) # "Ok" -> call(reply)
      [] reply # "success"  -> "LogosCoreResponse"
      [] OTHER              -> "Ok"

\* send_bundle_with_delay: one send_message after the other; the first that is
\* not confirmed ends the command, whether or not the message got through.
SendMessage(t, reply) ==
    LET sent == posts \cup {Post(SenderOf(t), Head(outbox[t]))}
    IN  /\ outbox[t] # << >>
        /\ IF require_result_success(reply) = "Ok"
           THEN /\ posts' = sent
                /\ outbox' = [outbox EXCEPT ![t] = Tail(@)]
           ELSE /\ posts' \in {posts, sent}
                /\ outbox' = [outbox EXCEPT ![t] = << >>]
        /\ UNCHANGED <<packed, receiver>>

Timeout ==
    /\ pc = "polling"
    /\ ~elapsed
    /\ elapsed' = TRUE
    /\ UNCHANGED <<sender, args, contents, result, pc>>

\* What get_messages may return.
Windows == BoundedSeq(posts, WINDOW)

\* Mutant: messages of every sender are taken.
from_expected_anyone(post) == TRUE

from_expected(post) == \A s \in args.expected_sender : post.sender = s

Recoverable == {"NoTransfer", "IncompleteTransfer"}

\* What is pending after the first i messages of a window: those of the expected
\* sender are observed one after the other.
observed(window) ==
    LET pending[i \in 0 .. Len(window)] ==
          IF i = 0 THEN [code |-> "Ok", contents |-> contents]
          ELSE IF from_expected(window[i])
          THEN observe(pending[i - 1], window[i].content, args.requested)
          ELSE pending[i - 1]
    IN  pending

\* One round of receive_envelope's loop: filter, observe, unpack, and give up
\* when the time is over.
Poll(window) ==
    LET seen == observed(window)[Len(window)]
        outcome == IF seen.code # "Ok" THEN Err(seen.code)
                   ELSE unpack_envelope(seen.contents, args.requested)
    IN  /\ pc = "polling"
        /\ contents' = seen.contents
        /\ IF outcome.code \notin Recoverable
           THEN /\ result' = outcome
                /\ pc' = IF outcome.code = "Ok" THEN "received" ELSE "failed"
           ELSE IF elapsed
                THEN /\ result' = Err("ReceiveTimeout")
                     /\ pc' = "failed"
                ELSE UNCHANGED <<result, pc>>
        /\ UNCHANGED <<sender, args, elapsed>>

\* The daemon does not answer get_messages.
PollFails(reply) ==
    /\ pc = "polling"
    /\ get_messages(reply) # "Ok"
    /\ result' = Err(get_messages(reply))
    /\ pc' = "failed"
    /\ UNCHANGED <<sender, args, contents, elapsed>>

Next ==
    \/ \E t \in Transfers :
         \/ \E e \in Envelopes, n \in ChunkSizes, copies \in Copies : Pack(t, e, n, copies)
         \/ \E reply \in Replies : SendMessage(t, reply)
    \/ Timeout
    \/ \E window \in Windows : Poll(window)
    \/ \E reply \in Replies : PollFails(reply)

Spec == Init /\ [][Next]_vars

---------------------------------------------------------------------------
(* Properties.                                                             *)

\* Types, and that the buffer of observed messages stays within its limit and
\* holds no message twice, however often and in whatever windows it is returned.
TypeOK ==
    /\ pc \in {"polling", "received", "failed"}
    /\ Len(contents) <= MAX_PENDING_WIRE_MESSAGES
    /\ \A i, j \in DOMAIN contents : contents[i] = contents[j] => i = j

\* A chat identity that posts manifests with the send command only.
ForgesNoManifest(s) == \A post \in Noise : post.sender = s => post.content.kind # "manifest"

\* The sender of t posts nothing under that id but the bundle of its send command.
KeepsToBundle(t) ==
    \A post \in Noise :
      post.sender = SenderOf(t) => post.content.kind = "text" \/ post.content.transfer_id # t

\* What is handed to the verifier is, byte for byte, what a manifest of that transfer
\* id commits to, posted by the expected sender if one was named; and if the poster
\* of that manifest forges none, it is the envelope he packed under that id.  Never is
\* it a mix of transfers, a partial or a damaged one, whoever posted its chunks.
ReceivedWasPacked ==
    pc = "received" =>
      LET t == result.value[1]
          e == result.value[2]
      IN  /\ args.requested # None => t \in args.requested
          /\ \E post \in posts :
               /\ \A s \in args.expected_sender : post.sender = s
               /\ post.content.kind = "manifest"
               /\ post.content.transfer_id = t
               /\ post.content.envelope_sha256 = e.bytes
               /\ ForgesNoManifest(post.sender) =>
                    post.sender = SenderOf(t) /\ packed[t] = Some(e)

\* A receive that asks for a transfer and expects its sender, who keeps to the bundle,
\* fails for two reasons only: the daemon does not answer, or the time is over and
\* some message of the transfer was never returned.  Loss, repetition and reordering,
\* the other transfers, and the chunks and manifests other identities post under the
\* same id, never lead to a protocol error, a full buffer or a complete transfer that
\* is not recognised.
HonestNeverRejected ==
    \A t \in args.requested :
      pc = "failed" /\ SenderOf(t) \in args.expected_sender /\ KeepsToBundle(t) =>
        /\ result.code \in {"ReceiveTimeout"} \cup {get_messages(r) : r \in Replies}
        /\ result.code = "ReceiveTimeout" =>
             \A e \in packed[t], n \in ChunkSizes :
               LET bundle == pack_envelope(e, n, t)
               IN  bundle.code = "Ok" => ~(ToSet(bundle.value) \subseteq ToSet(contents))
=============================================================================
