---------------------------- MODULE MCMessaging -----------------------------
(***************************************************************************)
(* Instance of Messaging: envelopes of two bytes that go out in one or two *)
(* chunks, and posts that no send command made: chat text, a chunk whose   *)
(* index is outside its transfer, and a forged transfer under the id of    *)
(* another sender, whose chunk may also be taken for one of his.           *)
(***************************************************************************)
EXTENDS Messaging

CONSTANTS alice, carol, t1, t2, a1, a2, b1, b2

Envelope(bytes, transport) ==
    [bytes |-> bytes, transport |-> transport, context_hash |-> "gate",
     challenge_digest |-> bytes[1]]

MCEnvelopes ==
    {Envelope(<<a1, a2>>, "LogosMessaging"), Envelope(<<a1, b2>>, "LogosMessaging"),
     Envelope(<<b1, a2>>, "LocalFile")}

TwoSenders(t) == IF t = t1 THEN alice ELSE carol

Text(from) == Post(from, [kind |-> "text"])
OutOfRange(from, t) == Post(from, Chunk(t, 2, 2, <<b2>>))

\* A complete transfer of an envelope that nobody packed under t.
Forged(from, t) ==
    {Post(from, Chunk(t, 0, 1, <<a1, b2>>)),
     Post(from, Manifest(t, Envelope(<<a1, b2>>, "LogosMessaging"), 1))}

\* Alice chats; carol also posts chunks and a forged transfer under alice's id.
MCNoise == {Text(alice), OutOfRange(carol, t2)} \cup Forged(carol, t1)

AnyRequest == {None, Some(t1)}
AnySender == {None, Some(alice)}
=============================================================================
