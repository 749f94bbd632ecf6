----------------------------- MODULE ModelStream -----------------------------
(***************************************************************************)
(* A model on the wire (internal/registry/registry.go): the metadata, then *)
(* the body in chunks, then the end of the stream. receive puts it         *)
(* together again on both ends, in PublishModel for what a trainer sends   *)
(* and in the node's fetch for what GetModel sends.                        *)
(*                                                                         *)
(* A body is a sequence of blocks, and one block is a chunk. The digest is *)
(* taken to be collision free. Sizes are counted in blocks.                *)
(***************************************************************************)
EXTENDS Integers, Sequences, SequencesExt

CONSTANTS
    Versions,       \* bare names, in lexical order; 0 is the empty name
    MaxModelBytes   \* the limit on a declared size

ASSUME StreamAssumption ==
    Versions \subseteq Nat \ {0} /\ IsFiniteSet(Versions) /\ MaxModelBytes \in Nat

\* The SHA-256 field of a body; an absent field is <<>>, which no body has.
Sum(body) == <<body>>

\* ModelMeta. complete: the format is the supported one and feature_count is set.
\* A boundary of 0 is a missing one. Blank is what an empty file decodes to, and
\* stands for a nil pointer too: both answer the empty version.
Meta(v, body, boundary) ==
    [version |-> v, sum |-> Sum(body), size |-> Len(body),
     boundary |-> boundary, complete |-> TRUE]
Blank == [version |-> 0, sum |-> <<>>, size |-> 0, boundary |-> 0, complete |-> FALSE]

\* One message of a stream. "error" is a transport that failed.
MetaMsg(m) == [kind |-> "meta", meta |-> m, chunk |-> <<>>]
ChunkMsg(c) == [kind |-> "chunk", meta |-> Blank, chunk |-> c]
EmptyMsg == [kind |-> "empty", meta |-> Blank, chunk |-> <<>>]
ErrorMsg == [kind |-> "error", meta |-> Blank, chunk |-> <<>>]

\* GetModel's loop: the file's blocks in order, ended by the end of the file.
Chunks(file) == [i \in 1..Len(file) |-> ChunkMsg(<<file[i]>>)]

-----------------------------------------------------------------------------
\* What receive has so far. "none": no metadata yet.
Start == [st |-> "none", meta |-> Blank, body |-> <<>>]
Failed(why) == [st |-> why, meta |-> Blank, body |-> <<>>]

\* One turn of receive's loop. A message without a payload is refused by
\* PublishModel's callback.
ReceiveOne(rx, msg) ==
    CASE rx.st \in {"malformed", "error"} -> rx
      [] rx.st \in {"none", "some"} /\ msg.kind = "error" -> Failed("error")
      [] rx.st \in {"none", "some"} /\ msg.kind = "empty" -> Failed("malformed")
      [] rx.st = "some" /\ msg.kind = "meta" -> Failed("malformed")
      [] rx.st = "none" /\ msg.kind = "meta" ->
            IF msg.meta.size > MaxModelBytes
            THEN Failed("malformed") ELSE [st |-> "some", meta |-> msg.meta, body |-> <<>>]
      [] rx.st = "none" /\ msg.kind = "chunk" -> Failed("malformed")
      [] rx.st = "some" /\ msg.kind = "chunk" ->
            IF Len(rx.body) + Len(msg.chunk) > rx.meta.size
            THEN Failed("malformed") ELSE [rx EXCEPT !.body = @ \o msg.chunk]

\* Mutant: neither the length nor the digest of what arrived is compared, so a
\* body that ends early passes.
ReceiveEndShort(rx) ==
    IF rx.st = "some" /\ rx.body # <<>> THEN [rx EXCEPT !.st = "whole"] ELSE Failed("malformed")

\* The end of the stream: metadata has come, the body has the declared size, and
\* the digest matches.
ReceiveEnd(rx) ==
    CASE rx.st \in {"malformed", "error"} -> rx
      [] rx.st = "none" -> Failed("malformed")
      [] rx.st = "some" ->
            IF Len(rx.body) = rx.meta.size /\ Sum(rx.body) = rx.meta.sum
            THEN [rx EXCEPT !.st = "whole"] ELSE Failed("malformed")

\* receive, of a stream that has arrived.
Receive(msgs) == ReceiveEnd(FoldLeft(ReceiveOne, Start, msgs))

\* validate with validVersion: a bare name, the supported format, a feature
\* count, a boundary and a body.
Validate(meta, body) ==
    /\ meta.version \in Versions
    /\ meta.complete
    /\ meta.boundary # 0
    /\ body # <<>>
=============================================================================
