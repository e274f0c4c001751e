------------------------------ MODULE FileReply ------------------------------
(***************************************************************************)
(* SendFile (internal/client/transport/file.go) over a source of the       *)
(* caller that can be read at any offset: the digest of the file, the hash *)
(* of the multipart body, and the bodies of the attempts and replays       *)
(* (internal/client/multipart/file.go), each read by the HTTP transport    *)
(* in its own time.                                                        *)
(*                                                                         *)
(* The source is external: it may be shorter or longer than announced, and *)
(* may change. A hash is injective: the digest of a sequence of bytes is   *)
(* the sequence. The envelope around the file is fixed by the factory and  *)
(* left out.                                                               *)
(***************************************************************************)
EXTENDS Naturals, Sequences, SequencesExt, FiniteSetsExt

CONSTANTS Bytes,       \* the values of a byte
          MaxLength,   \* maxReplySingleFileBytes
          BufferSize,  \* fileCopyBufferBytes, and the read buffer of the transport
          MaxBodies,   \* attempts and replays
          MaxChanges   \* the caller changes the source at most so often

ASSUME SizesAssumption ==
    /\ MaxLength \in Nat \ {0} /\ BufferSize \in Nat \ {0}
    /\ MaxBodies \in Nat /\ MaxChanges \in Nat

VARIABLES
    source,      \* what the ReaderAt holds
    changes,     \* how often the caller has changed it
    byteLength,  \* the announced length
    ctxDone,     \* the caller's context has ended
    pc,          \* start, digest, hash, send, done
    copied,      \* what copyReaderAtContext has copied so far
    fileSHA256,  \* the digest in the manifest
    bodySHA256,  \* the digest the request is signed with
    bodies       \* the body readers, in the order they were made

vars == <<source, changes, byteLength, ctxDone, pc, copied, fileSHA256,
          bodySHA256, bodies>>

Contents == BoundedSeq(Bytes, MaxLength + 1)

Body == [off : 0..MaxLength + 1, got : Contents, at : {"open", "ended", "closed"}]

TypeOK ==
    /\ source \in Contents
    /\ changes \in 0..MaxChanges
    /\ byteLength \in 0..MaxLength + 1
    /\ ctxDone \in BOOLEAN
    /\ pc \in {"start", "digest", "hash", "send", "done"}
    /\ copied \in Contents /\ Len(copied) <= byteLength
    /\ fileSHA256 \in Contents
    /\ bodySHA256 \in Contents
    /\ Len(bodies) <= MaxBodies
    /\ \A i \in DOMAIN bodies : bodies[i] \in Body

Init ==
    /\ source \in Contents
    /\ changes = 0
    /\ byteLength \in 0..MaxLength + 1
    /\ ctxDone = FALSE
    /\ pc = "start"
    /\ copied = <<>>
    /\ fileSHA256 = <<>>
    /\ bodySHA256 = <<>>
    /\ bodies = <<>>

\* A read of up to n bytes of the source at an offset, cut off at its end.
ReadAt(offset, n) == SubSeq(source, offset + 1, Min({offset + n, Len(source)}))

-----------------------------------------------------------------------------
\* SendFile before the first request

\* NormalizeReplyFile; options, name and media type may be refused as well.
Normalize ==
    /\ pc = "start"
    /\ \/ byteLength \in 1..MaxLength /\ pc' = "digest"
       \/ pc' = "done"
    /\ UNCHANGED <<source, changes, byteLength, ctxDone, copied, fileSHA256,
                   bodySHA256, bodies>>

\* Faulty variant: a read at the end of the source is tried again.
CopyChunkSpins ==
    /\ pc \in {"digest", "hash"}
    /\ Len(copied) < byteLength
    /\ IF ctxDone
       THEN pc' = "done" /\ UNCHANGED copied
       ELSE /\ copied' = copied \o
                  ReadAt(Len(copied), Min({BufferSize, byteLength - Len(copied)}))
            /\ UNCHANGED pc
    /\ UNCHANGED <<source, changes, byteLength, ctxDone, fileSHA256, bodySHA256, bodies>>

\* copyReaderAtContext, one turn of its loop: the context ends it, a read
\* error, or a source that is too short.
CopyChunk ==
    LET want == Min({BufferSize, byteLength - Len(copied)})
        got  == ReadAt(Len(copied), want)
    IN  /\ pc \in {"digest", "hash"}
        /\ Len(copied) < byteLength
        /\ \/ ~ctxDone /\ Len(got) = want /\ copied' = copied \o got /\ UNCHANGED pc
           \/ pc' = "done" /\ UNCHANGED copied
        /\ UNCHANGED <<source, changes, byteLength, ctxDone, fileSHA256,
                       bodySHA256, bodies>>

\* DigestReaderAt returns, or NewFileBodyFactory does, which has read the
\* source a second time.
CopyDone ==
    /\ Len(copied) = byteLength
    /\ copied' = <<>>
    /\ \/ pc = "digest" /\ fileSHA256' = copied /\ pc' = "hash" /\ UNCHANGED bodySHA256
       \/ pc = "hash" /\ bodySHA256' = copied /\ pc' = "send" /\ UNCHANGED fileSHA256
    /\ UNCHANGED <<source, changes, byteLength, ctxDone, bodies>>

\* The envelope is too large: NewFileBodyFactory fails before it reads.
EnvelopeFails ==
    /\ pc = "hash"
    /\ copied = <<>>
    /\ pc' = "done"
    /\ UNCHANGED <<source, changes, byteLength, ctxDone, copied, fileSHA256,
                   bodySHA256, bodies>>

-----------------------------------------------------------------------------
\* The attempts

\* Faulty variant: bodies share the offset of one reader.
NewBodyResumes ==
    /\ pc = "send"
    /\ Len(bodies) < MaxBodies
    /\ bodies' = Append(bodies, [off |-> IF bodies = <<>> THEN 0 ELSE Last(bodies).off,
                                 got |-> <<>>, at |-> "open"])
    /\ UNCHANGED <<source, changes, byteLength, ctxDone, pc, copied, fileSHA256,
                   bodySHA256>>

\* The builder of an attempt or GetBody of a replay. The transport may still
\* be reading the body of the attempt before.
NewBody ==
    /\ pc = "send"
    /\ Len(bodies) < MaxBodies
    /\ bodies' = Append(bodies, [off |-> 0, got |-> <<>>, at |-> "open"])
    /\ UNCHANGED <<source, changes, byteLength, ctxDone, pc, copied, fileSHA256,
                   bodySHA256>>

\* A body reader has read what a request for n bytes gives; it ends with the
\* section, or where the source ends.
Advance(body, n) ==
    LET got == ReadAt(body.off, n)
    IN  [off |-> body.off + Len(got),
         got |-> body.got \o got,
         at  |-> IF n = 0 \/ Len(got) < n THEN "ended" ELSE "open"]

\* Faulty variant: the body goes on to the end of the source.
ReadUnbounded(i) ==
    /\ bodies[i].at = "open"
    /\ \E n \in 1..BufferSize : bodies' = [bodies EXCEPT ![i] = Advance(@, n)]
    /\ UNCHANGED <<source, changes, byteLength, ctxDone, pc, copied, fileSHA256,
                   bodySHA256>>

\* fileBodyReader.Read: the section of the source from 0 to byteLength.
Read(i) ==
    /\ bodies[i].at = "open"
    /\ \E n \in 1..BufferSize :
          bodies' = [bodies EXCEPT ![i] = Advance(@, Min({n, byteLength - @.off}))]
    /\ UNCHANGED <<source, changes, byteLength, ctxDone, pc, copied, fileSHA256,
                   bodySHA256>>

\* fileBodyReader.Close, by the transport or by a builder that could not sign.
CloseBody(i) ==
    /\ bodies[i].at # "closed"
    /\ bodies' = [bodies EXCEPT ![i].at = "closed"]
    /\ UNCHANGED <<source, changes, byteLength, ctxDone, pc, copied, fileSHA256,
                   bodySHA256>>

\* retryPost returns: see ReplyRetry.
Return ==
    /\ pc = "send"
    /\ pc' = "done"
    /\ UNCHANGED <<source, changes, byteLength, ctxDone, copied, fileSHA256,
                   bodySHA256, bodies>>

-----------------------------------------------------------------------------
\* The caller

ChangeSource ==
    /\ changes < MaxChanges
    /\ changes' = changes + 1
    /\ source' \in Contents \ {source}
    /\ UNCHANGED <<byteLength, ctxDone, pc, copied, fileSHA256, bodySHA256, bodies>>

Cancel ==
    /\ ~ctxDone
    /\ ctxDone' = TRUE
    /\ UNCHANGED <<source, changes, byteLength, pc, copied, fileSHA256, bodySHA256,
                   bodies>>

Returned == pc = "done" /\ UNCHANGED vars

Prepare == Normalize \/ CopyChunk \/ CopyDone \/ EnvelopeFails

Next ==
    \/ Prepare
    \/ NewBody
    \/ \E i \in DOMAIN bodies : Read(i) \/ CloseBody(i)
    \/ Return
    \/ ChangeSource
    \/ Cancel
    \/ Returned

Spec == Init /\ [][Next]_vars

\* The goroutine of SendFile is scheduled.
FairSpec == Spec /\ WF_vars(Prepare)

-----------------------------------------------------------------------------
\* Properties.

(***************************************************************************)
(* A source that stays as it is gives the same body every time: whatever   *)
(* reads of earlier bodies are still under way, every attempt or replay    *)
(* that is read to its end carries the bytes that the manifest and the     *)
(* signature announce (NewBody, GetBody).                                  *)
(***************************************************************************)
StableSourceVerifies ==
    changes = 0 =>
        \A i \in DOMAIN bodies : bodies[i].at = "ended" =>
            bodies[i].got = fileSHA256 /\ bodies[i].got = bodySHA256

(***************************************************************************)
(* The announced length holds: a body never exceeds it, even when the      *)
(* source grows under it (the section reader of NewBody), and a source     *)
(* that was too short at either reading is not sent at all, so that both   *)
(* digests cover that length (copyReaderAtContext).                        *)
(***************************************************************************)
AnnouncedLengthHolds ==
    \A i \in DOMAIN bodies :
        /\ Len(bodies[i].got) <= byteLength
        /\ Len(fileSHA256) = byteLength
        /\ Len(bodySHA256) = byteLength

(***************************************************************************)
(* Preparation ends, whatever the source does: no read without progress is *)
(* repeated for ever.                                                      *)
(***************************************************************************)
PreparationEnds == <>(pc \in {"send", "done"})

(***************************************************************************)
(* What the comment on DigestReaderAt says: a source that is short or has  *)
(* changed fails before the network request. In the code a change between  *)
(* the two readings is not noticed: nothing compares them.                 *)
(***************************************************************************)
ChangedSourceNotSent == bodies # <<>> => fileSHA256 = bodySHA256
=============================================================================
