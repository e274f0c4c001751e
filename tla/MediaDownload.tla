---------------------------- MODULE MediaDownload ----------------------------
(***************************************************************************)
(* FetchMediaChunk (internal/client/transport/media.go and                 *)
(* internal/client/common/media_types.go) as the building block of a       *)
(* download: a caller fetches a media file in chunks of one length, in any *)
(* order and several at a time, and puts the accepted ones together.       *)
(*                                                                         *)
(* The media broker is external. It tells the truth about the bytes, the   *)
(* length and the digest of the file it has at that moment, but the file   *)
(* may be replaced between two answers, and an answer may be short, carry  *)
(* a wrong eof or count, or not have the shape of an answer. The exchange  *)
(* itself is in ClientExchange (postStrictJSON).                           *)
(***************************************************************************)
EXTENDS Integers, SequencesExt

CONSTANTS MediaBytes,
          MaxTotal,    \* mediaMaxTotalBytes
          MaxChunk,    \* mediaMaxChunkBytes
          MaxIndex,    \* mediaMaxIndex
          MaxInt64,
          Slots,       \* the caller's chunks are numbered 0..Slots - 1
          MaxReplaced  \* how often the broker's file is replaced

ASSUME MediaAssumption ==
    /\ {MaxTotal, MaxChunk, Slots} \subseteq Nat \ {0}
    /\ {MaxIndex, MaxReplaced} \subseteq Nat
    /\ MaxInt64 \in Nat /\ MaxTotal <= MaxInt64

VARIABLES
    file,     \* the broker: its file
    replaced,
    request,  \* what all requests of the download have in common
    state,    \* per slot: idle, sent, accepted, rejected
    chunk     \* per slot: the accepted MediaChunkResponse

mediaVars == <<file, replaced, request, state, chunk>>

\* A broker's file may be larger than the client takes.
Files == UNION {[1..n -> MediaBytes] : n \in 1..(MaxTotal + 1)}

Requests == [identity : BOOLEAN, MediaIndex : -1..(MaxIndex + 1), Length : 0..(MaxChunk + 1)]

\* What a JSON answer may lack; the digest of a file stands for the file.
Defects == {"none", "notObject", "unknownField", "duplicateField", "missingField",
            "nullField", "trailingData", "mimeType", "sha256", "base64"}

NoAnswer == [defect |-> "none", Chunk |-> <<>>, TotalLength |-> 0, SHA256 |-> <<>>,
             EOF |-> FALSE, MediaCount |-> 0]

SlotIds == 0..(Slots - 1)

Offset(i) == i * request.Length

MediaTypeOK ==
    /\ file \in Files
    /\ replaced \in 0..MaxReplaced
    /\ request \in Requests
    /\ state \in [SlotIds -> {"idle", "sent", "accepted", "rejected"}]
    /\ \A i \in SlotIds : state[i] = "accepted" <=> chunk[i] # NoAnswer

MediaInit ==
    /\ file \in Files
    /\ replaced = 0
    /\ request \in Requests
    /\ state = [i \in SlotIds |-> "idle"]
    /\ chunk = [i \in SlotIds |-> NoAnswer]

-----------------------------------------------------------------------------
\* normalizeMediaChunkRequest; the identities of the message are one flag.
normalizeMediaChunkRequest(i) ==
    /\ request.identity
    /\ request.MediaIndex \in 0..MaxIndex
    /\ Offset(i) >= 0
    /\ request.Length \in 1..MaxChunk
    /\ Offset(i) <= MaxInt64 - request.Length

\* UnmarshalJSON, decodeStrictJSONObject: each of the six fields once, no other,
\* none of them null, and nothing behind the object.
UnmarshalJSON(a) ==
    a.defect \notin {"notObject", "unknownField", "duplicateField", "missingField",
                     "nullField", "trailingData"}

validateMediaChunkMetadata(a) ==
    /\ a.TotalLength \in 1..MaxTotal
    /\ a.MediaCount \in 1..(MaxIndex + 1)
    /\ request.MediaIndex >= 0 /\ request.MediaIndex < a.MediaCount
    /\ a.defect \notin {"mimeType", "sha256"}

EncodedLength(n) == ((n + 2) \div 3) * 4

decodeMediaChunk(a) ==
    /\ EncodedLength(Len(a.Chunk)) <= EncodedLength(request.Length)
    /\ a.defect # "base64"
    /\ Len(a.Chunk) \in 1..request.Length

\* Faulty variant: a chunk before the last may be short.
validateRangeShort(i, a) ==
    LET end == Offset(i) + Len(a.Chunk)
    IN  /\ Offset(i) >= 0 /\ Offset(i) <= MaxInt64 - Len(a.Chunk)
        /\ end <= a.TotalLength
        /\ a.EOF = (end = a.TotalLength)

validateMediaChunkRange(i, a) ==
    LET end == Offset(i) + Len(a.Chunk)
    IN  /\ Offset(i) >= 0 /\ Offset(i) <= MaxInt64 - Len(a.Chunk)
        /\ end <= a.TotalLength
        /\ a.EOF = (end = a.TotalLength)
        /\ ~a.EOF => Len(a.Chunk) = request.Length

validateMediaChunkResponse(i, a) ==
    /\ validateMediaChunkMetadata(a)
    /\ decodeMediaChunk(a)
    /\ validateMediaChunkRange(i, a)

-----------------------------------------------------------------------------
\* The broker's answer to the request for slot i. Bytes beyond the file do not
\* exist; it may send fewer than asked for, or, by mistake, more.
Answers(i) ==
    [defect : Defects,
     Chunk : {SubSeq(file, Offset(i) + 1, Offset(i) + n) :
                 n \in {n \in 0..(request.Length + 1) : Offset(i) + n <= Len(file)}},
     TotalLength : {Len(file)}, SHA256 : {file}, EOF : BOOLEAN, MediaCount : 0..(MaxIndex + 2)]

\* FetchMediaChunk: a request that is not well-formed is not sent. The caller
\* may ask again for what was rejected.
Fetch(i) ==
    /\ state[i] \in {"idle", "rejected"}
    /\ state' = [state EXCEPT ![i] =
                    IF normalizeMediaChunkRequest(i) THEN "sent" ELSE "rejected"]
    /\ UNCHANGED <<file, replaced, request, chunk>>

\* The exchange fails, or an answer arrives and is checked.
Receive(i) ==
    /\ state[i] = "sent"
    /\ \/ /\ state' = [state EXCEPT ![i] = "rejected"]
          /\ UNCHANGED chunk
       \/ \E a \in Answers(i) :
             IF UnmarshalJSON(a) /\ validateMediaChunkResponse(i, a)
             THEN /\ state' = [state EXCEPT ![i] = "accepted"]
                  /\ chunk' = [chunk EXCEPT ![i] = a]
             ELSE /\ state' = [state EXCEPT ![i] = "rejected"]
                  /\ UNCHANGED chunk
    /\ UNCHANGED <<file, replaced, request>>

ReplaceFile ==
    /\ replaced < MaxReplaced
    /\ replaced' = replaced + 1
    /\ file' \in Files \ {file}
    /\ UNCHANGED <<request, state, chunk>>

\* The caller has all the chunks it asked for.
Finished == (\A i \in SlotIds : state[i] = "accepted") /\ UNCHANGED mediaVars

MediaNext == (\E i \in SlotIds : Fetch(i) \/ Receive(i)) \/ ReplaceFile \/ Finished

MediaSpec == MediaInit /\ [][MediaNext]_mediaVars

-----------------------------------------------------------------------------
\* Properties.

\* The caller has the slots up to k, the last one says eof, and all of them
\* name the same digest.
Complete(k) ==
    /\ \A i \in 0..k : state[i] = "accepted" /\ chunk[i].SHA256 = chunk[k].SHA256
    /\ chunk[k].EOF

Assembled(k) == FlattenSeq([j \in 1..(k + 1) |-> chunk[j - 1].Chunk])

(***************************************************************************)
(* What a caller assembles is a whole file: chunks that name one digest,   *)
(* fetched in any order while the broker replaces its file, leave neither  *)
(* a gap nor an overlap, end exactly at eof, and none lies behind it; and  *)
(* the file is no longer than mediaMaxTotalBytes, whatever the broker has  *)
(* (the checks of validateMediaChunkRange: a chunk before the last has the *)
(* requested length, and eof is said exactly at the end).                  *)
(***************************************************************************)
AssembledIsWhole ==
    \A k \in SlotIds : Complete(k) =>
        /\ Assembled(k) = chunk[k].SHA256
        /\ Len(Assembled(k)) <= MaxTotal
        /\ \A i \in SlotIds :
              state[i] = "accepted" /\ chunk[i].SHA256 = chunk[k].SHA256 => i <= k
=============================================================================
