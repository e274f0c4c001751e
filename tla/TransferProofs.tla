--------------------------- MODULE TransferProofs ----------------------------
(***************************************************************************)
(* Proofs about the two components that move content in pieces: the bodies *)
(* of a file reply (FileReply), and a download in chunks (MediaDownload).  *)
(* They hold for any bytes, any limits, pieces of any size in any number,  *)
(* and any number of changes of the source or of the broker's file.        *)
(***************************************************************************)
EXTENDS FileReply, MediaDownload, SequenceTheorems, WellFoundedInduction, TLAPS

-----------------------------------------------------------------------------
\* File replies

\* What reading the source from its start gives, as long as it holds so much.
Start(s, n) == s = SubSeq(source, 1, n) /\ n <= Len(source)

Readers == [off : Nat, got : Seq(Bytes), at : {"open", "ended", "closed"}]

TypeInv ==
    /\ source \in Seq(Bytes)
    /\ changes \in Nat
    /\ byteLength \in Nat
    /\ copied \in Seq(Bytes)
    /\ bodies \in Seq(Readers)

(***************************************************************************)
(* Preparation: each pass has read at most what is announced, and a digest *)
(* covers all of it. While the source stays as it is, both passes read its *)
(* start. No body is made before both passes have ended.                   *)
(***************************************************************************)
DigestInv ==
    /\ Len(copied) <= byteLength
    /\ changes = 0 => Start(copied, Len(copied))
    /\ pc \in {"hash", "send"} \/ bodies # <<>> =>
          /\ Len(fileSHA256) = byteLength
          /\ changes = 0 => Start(fileSHA256, byteLength)
    /\ pc = "send" \/ bodies # <<>> =>
          /\ Len(bodySHA256) = byteLength
          /\ changes = 0 => Start(bodySHA256, byteLength)
    /\ bodies # <<>> => pc \in {"send", "done"}

\* A body has an offset of its own, which no other body moves: it has read the
\* source up to there, and ends at the announced length.
ReaderOK(b) ==
    /\ Len(b.got) = b.off
    /\ b.off <= byteLength
    /\ changes = 0 => Start(b.got, b.off)
    /\ changes = 0 /\ b.at = "ended" => b.off = byteLength

BodiesInv == \A i \in DOMAIN bodies : ReaderOK(bodies[i])

IInv == TypeInv /\ DigestInv /\ BodiesInv

-----------------------------------------------------------------------------
\* Reads of the source

\* The smaller of two numbers.
LEMMA MinIs ==
    ASSUME NEW a \in Nat, NEW b \in Nat
    PROVE  Min({a, b}) = IF a <= b THEN a ELSE b
<1> DEFINE m == IF a <= b THEN a ELSE b
<1>1. m \in {a, b} /\ \A y \in {a, b} : m <= y
    OBVIOUS
<1>2. ASSUME NEW x \in {a, b}, \A y \in {a, b} : x <= y PROVE x = m
    BY <1>2
<1> QED
    BY <1>1, <1>2 DEF Min

\* What a read gives: at most what is asked for, less only at the end of the
\* source, and after the start of the source a longer start.
LEMMA ReadIs ==
    ASSUME source \in Seq(Bytes), NEW off \in Nat, NEW n \in Nat,
           NEW r, r = ReadAt(off, n)
    PROVE  /\ r \in Seq(Bytes)
           /\ Len(r) <= n
           /\ off + n <= Len(source) => Len(r) = n
           /\ \A s : Start(s, off) => Start(s \o r, off + Len(r))
<1> DEFINE end == IF off + n <= Len(source) THEN off + n ELSE Len(source)
<1>1. Len(source) \in Nat /\ DOMAIN source = 1..Len(source)
    OBVIOUS
<1>2. end \in Nat /\ end <= Len(source) /\ end <= off + n
    BY <1>1
<1>3. r = SubSeq(source, off + 1, end)
    <2>1. Min({off + n, Len(source)}) = end
        BY <1>1, MinIs
    <2> QED
        BY <2>1 DEF ReadAt
<1>4. (off + n <= Len(source) => end = off + n) /\ (off <= Len(source) => off <= end)
    BY <1>1
<1> HIDE DEF end
<1>5. \A i \in (off + 1)..end : source[i] \in Bytes
    BY <1>1, <1>2
<1>6. /\ r \in Seq(Bytes)
      /\ Len(r) = IF off + 1 <= end THEN end - (off + 1) + 1 ELSE 0
    BY <1>2, <1>3, <1>5, SubSeqProperties
<1>7. ASSUME NEW s, Start(s, off) PROVE Start(s \o r, off + Len(r))
    <2>1. s = SubSeq(source, 1, off) /\ off <= Len(source) /\ off <= end
        BY <1>4, <1>7 DEF Start
    <2>2. SubSeq(source, 1, off) \o SubSeq(source, off + 1, end) = SubSeq(source, 1, end)
        <3>1. /\ 1 \in 1..(Len(source) + 1) /\ off \in (1 - 1)..Len(source)
              /\ end \in off..Len(source)
            BY <1>1, <1>2, <2>1
        <3> QED
            BY <3>1, ConcatAdjacentSubSeq
    <2>3. off + Len(r) = end
        BY <1>2, <1>6, <2>1
    <2> QED
        BY <1>2, <1>3, <2>1, <2>2, <2>3 DEF Start
<1> QED
    BY <1>2, <1>4, <1>6, <1>7

\* The empty sequence is a start of every source.
LEMMA StartEmpty == ASSUME source \in Seq(Bytes) PROVE Start(<<>>, 0)
BY SubSeqEmpty DEF Start

\* A read of a body keeps to the section; of a source that stays as it is, it
\* ends there only (fileBodyReader.Read).
LEMMA ReadStep ==
    ASSUME IInv, NEW i \in DOMAIN bodies, NEW n \in 1..BufferSize,
           NEW b, b = Advance(bodies[i], Min({n, byteLength - bodies[i].off}))
    PROVE  b \in Readers /\ ReaderOK(b)
<1> DEFINE a    == bodies[i]
           left == byteLength - a.off
           m    == IF n <= left THEN n ELSE left
           r    == ReadAt(a.off, m)
<1>1. a \in Readers /\ ReaderOK(a) /\ source \in Seq(Bytes) /\ byteLength \in Nat
    BY DEF IInv, TypeInv, BodiesInv
<1>2. a.off \in Nat /\ a.got \in Seq(Bytes) /\ Len(a.got) = a.off /\ left \in Nat
    BY <1>1 DEF Readers, ReaderOK
<1>3. n \in Nat /\ n # 0
    BY SizesAssumption
<1>4. m \in Nat /\ a.off + m <= byteLength /\ (m = 0 => a.off = byteLength)
    BY <1>1, <1>2, <1>3
<1>5. Min({n, left}) = m
    BY <1>2, <1>3, MinIs
<1>6. changes = 0 => byteLength <= Len(source)
    <2>1. bodies # <<>>
        BY DEF IInv, TypeInv
    <2> QED
        BY <2>1 DEF IInv, DigestInv, Start
<1> HIDE DEF a, m, left
<1>7. /\ r \in Seq(Bytes) /\ Len(r) <= m
      /\ a.off + m <= Len(source) => Len(r) = m
      /\ Start(a.got, a.off) => Start(a.got \o r, a.off + Len(r))
    BY <1>1, <1>2, <1>4, ReadIs
<1> DEFINE got == a.got \o r
           end == a.off + Len(r)
           at  == IF m = 0 \/ Len(r) < m THEN "ended" ELSE "open"
<1>8. b = [off |-> end, got |-> got, at |-> at]
    BY <1>5 DEF Advance, a, left
<1> HIDE DEF r
<1>9. got \in Seq(Bytes) /\ Len(got) = end /\ end \in Nat /\ Len(r) \in Nat
    BY <1>2, <1>7, ConcatProperties
<1>10. at \in {"open", "ended"} /\ (at = "ended" => m = 0 \/ Len(r) < m) /\ end <= byteLength
    BY <1>1, <1>2, <1>4, <1>7, <1>9
<1> HIDE DEF got, at
<1>11. b \in Readers /\ b.off = end /\ b.got = got /\ b.at = at
    <2> HIDE DEF end
    <2> QED
        BY <1>8, <1>9, <1>10 DEF Readers
<1>12. Len(b.got) = b.off /\ b.off <= byteLength
    BY <1>9, <1>10, <1>11
<1>13. changes = 0 => Start(b.got, b.off)
    BY <1>1, <1>7, <1>11 DEF ReaderOK, got
<1>14. changes = 0 => Len(r) = m
    <2>1. Len(source) \in Nat
        BY <1>1
    <2> QED
        BY <1>1, <1>2, <1>4, <1>6, <1>7, <2>1
<1>15. changes = 0 /\ b.at = "ended" => b.off = byteLength
    BY <1>2, <1>4, <1>10, <1>11, <1>14
<1> QED
    BY <1>11, <1>12, <1>13, <1>15 DEF ReaderOK

-----------------------------------------------------------------------------
\* The steps

\* A source of the caller is a sequence of bytes.
LEMMA ContentsAreBytes == Contents \subseteq Seq(Bytes)
BY SizesAssumption DEF Contents, BoundedSeq, SeqOf

\* A body is made at the start of the section, and only its own reads move it
\* (NewBody, fileBodyReader.Read and Close).
LEMMA BodiesStep ==
    ASSUME IInv, NewBody \/ \E i \in DOMAIN bodies : Read(i) \/ CloseBody(i)
    PROVE  bodies' \in Seq(Readers) /\ \A j \in DOMAIN bodies' : ReaderOK(bodies'[j])
<1>1. bodies \in Seq(Readers) /\ source \in Seq(Bytes) /\ byteLength \in Nat
    BY DEF IInv, TypeInv
<1>2. \A j \in DOMAIN bodies : bodies[j] \in Readers /\ ReaderOK(bodies[j])
    BY <1>1 DEF IInv, BodiesInv
<1>3. CASE NewBody
    <2> DEFINE b == [off |-> 0, got |-> <<>>, at |-> "open"]
    <2>1. b \in Readers /\ b.off = 0 /\ b.got = <<>> /\ b.at = "open"
        BY DEF Readers
    <2>2. bodies' = Append(bodies, b)
        BY <1>3 DEF NewBody
    <2> HIDE DEF b
    <2>3. ReaderOK(b)
        BY <1>1, <2>1, StartEmpty DEF ReaderOK
    <2>4. /\ bodies' \in Seq(Readers) /\ Len(bodies') = Len(bodies) + 1
          /\ \A j \in 1..Len(bodies) : bodies'[j] = bodies[j]
          /\ bodies'[Len(bodies) + 1] = b
        BY <1>1, <2>1, <2>2, AppendProperties
    <2>5. DOMAIN bodies = 1..Len(bodies) /\ DOMAIN bodies' = 1..(Len(bodies) + 1) /\ Len(bodies) \in Nat
        BY <1>1, <2>4
    <2>6. ASSUME NEW j \in DOMAIN bodies' PROVE ReaderOK(bodies'[j])
        <3>1. CASE j \in 1..Len(bodies)
            BY <1>2, <2>4, <2>5, <3>1
        <3>2. CASE j = Len(bodies) + 1
            BY <2>3, <2>4, <3>2
        <3> QED
            BY <2>5, <2>6, <3>1, <3>2
    <2> QED
        BY <2>4, <2>6
<1>4. ASSUME NEW i \in DOMAIN bodies, NEW b \in Readers, ReaderOK(b),
             bodies' = [bodies EXCEPT ![i] = b]
      PROVE  bodies' \in Seq(Readers) /\ \A j \in DOMAIN bodies' : ReaderOK(bodies'[j])
    <2>1. bodies' \in Seq(Readers) /\ DOMAIN bodies' = DOMAIN bodies
        BY <1>1, <1>4
    <2>2. \A j \in DOMAIN bodies : bodies'[j] = IF j = i THEN b ELSE bodies[j]
        BY <1>1, <1>4
    <2> QED
        BY <1>2, <1>4, <2>1, <2>2
<1>5. ASSUME NEW i \in DOMAIN bodies, Read(i)
      PROVE  bodies' \in Seq(Readers) /\ \A j \in DOMAIN bodies' : ReaderOK(bodies'[j])
    <2>1. PICK n \in 1..BufferSize :
             bodies' = [bodies EXCEPT ![i] = Advance(bodies[i], Min({n, byteLength - bodies[i].off}))]
        BY <1>5 DEF Read
    <2> DEFINE b == Advance(bodies[i], Min({n, byteLength - bodies[i].off}))
    <2>2. bodies' = [bodies EXCEPT ![i] = b] /\ b \in Readers /\ ReaderOK(b)
        BY <2>1, ReadStep
    <2> HIDE DEF b
    <2> QED
        BY <1>4, <2>2
<1>6. ASSUME NEW i \in DOMAIN bodies, CloseBody(i)
      PROVE  bodies' \in Seq(Readers) /\ \A j \in DOMAIN bodies' : ReaderOK(bodies'[j])
    <2> DEFINE b == [bodies[i] EXCEPT !.at = "closed"]
    <2>1. bodies' = [bodies EXCEPT ![i] = b]
        BY <1>6 DEF CloseBody
    <2>2. b \in Readers /\ b.off = bodies[i].off /\ b.got = bodies[i].got /\ b.at = "closed"
        BY <1>2 DEF Readers
    <2> HIDE DEF b
    <2>3. ReaderOK(b)
        BY <1>2, <2>2 DEF ReaderOK
    <2> QED
        BY <1>4, <2>1, <2>2, <2>3
<1> QED
    BY <1>3, <1>5, <1>6

\* The bodies and the digests stay right while the source does, or once it has
\* changed, whatever it is.
LEMMA DigestStep ==
    ASSUME IInv, [Next]_vars
    PROVE  TypeInv' /\ DigestInv' /\ BodiesInv'
<1> USE DEF IInv, TypeInv
<1>1. ASSUME UNCHANGED <<source, changes, byteLength, copied, fileSHA256, bodySHA256, bodies>>,
             pc' # pc => pc' = "done" \/ (pc = "start" /\ pc' = "digest")
      PROVE  TypeInv' /\ DigestInv' /\ BodiesInv'
    <2>1. TypeInv' /\ BodiesInv'
        BY <1>1 DEF BodiesInv, ReaderOK, Start
    <2>2. DigestInv'
        BY <1>1 DEF DigestInv, Start
    <2> QED
        BY <2>1, <2>2
<1>2. CASE Normalize \/ EnvelopeFails \/ Return \/ Cancel \/ Returned \/ UNCHANGED vars
    BY <1>1, <1>2 DEF Normalize, EnvelopeFails, Return, Cancel, Returned, vars
<1>3. CASE CopyChunk
    <2> DEFINE left == byteLength - Len(copied)
               want == IF BufferSize <= left THEN BufferSize ELSE left
               got  == ReadAt(Len(copied), want)
    <2>1. /\ pc \in {"digest", "hash"} /\ Len(copied) < byteLength
          /\ UNCHANGED <<source, changes, byteLength, ctxDone, fileSHA256, bodySHA256, bodies>>
        BY <1>3 DEF CopyChunk
    <2>2. left \in Nat /\ want \in Nat /\ Len(copied) + want <= byteLength /\ Len(copied) \in Nat
        BY <2>1, SizesAssumption
    <2>3. Min({BufferSize, left}) = want
        BY <2>2, SizesAssumption, MinIs
    <2>4. \/ Len(got) = want /\ copied' = copied \o got /\ UNCHANGED pc
          \/ pc' = "done" /\ UNCHANGED copied
        BY <1>3, <2>3 DEF CopyChunk
    <2> HIDE DEF left, want
    <2>5. /\ got \in Seq(Bytes)
          /\ Start(copied, Len(copied)) => Start(copied \o got, Len(copied) + Len(got))
        BY <2>2, ReadIs
    <2>6. CASE pc' = "done" /\ UNCHANGED copied
        BY <1>1, <2>1, <2>6
    <2>7. CASE Len(got) = want /\ copied' = copied \o got /\ UNCHANGED pc
        <3> HIDE DEF got
        <3>1. copied \o got \in Seq(Bytes) /\ Len(copied \o got) = Len(copied) + Len(got)
            BY <2>5, ConcatProperties
        <3>2. copied' \in Seq(Bytes) /\ Len(copied') = Len(copied) + want
            BY <2>7, <3>1
        <3>3. changes = 0 => Start(copied', Len(copied'))
            BY <2>5, <2>7, <3>1 DEF DigestInv
        <3>4. TypeInv' /\ BodiesInv'
            BY <2>1, <3>2 DEF BodiesInv, ReaderOK, Start
        <3>5. DigestInv'
            BY <2>1, <2>2, <2>7, <3>2, <3>3 DEF DigestInv, Start
        <3> QED
            BY <3>4, <3>5
    <2> QED
        BY <2>4, <2>6, <2>7
<1>4. CASE CopyDone
    <2>1. /\ Len(copied) = byteLength /\ copied' = <<>>
          /\ UNCHANGED <<source, changes, byteLength, ctxDone, bodies>>
        BY <1>4 DEF CopyDone
    <2>2. Start(<<>>, 0) /\ Len(<<>>) = 0 /\ <<>> \in Seq(Bytes)
        BY StartEmpty
    <2>3. copied' \in Seq(Bytes) /\ Len(copied') = 0 /\ Start(copied', 0)
        BY <2>1, <2>2
    <2>4. TypeInv' /\ BodiesInv'
        BY <2>1, <2>3 DEF BodiesInv, ReaderOK, Start
    <2>5. bodies = <<>>
        BY <1>4 DEF CopyDone, DigestInv
    <2>6. changes = 0 => Start(copied, byteLength)
        BY <2>1 DEF DigestInv
    <2>7. (Len(copied) <= byteLength)' /\ Start(copied, Len(copied))'
        BY <2>1, <2>3 DEF Start
    <2>8. CASE pc = "digest" /\ fileSHA256' = copied /\ pc' = "hash" /\ UNCHANGED bodySHA256
        <3>1. Len(fileSHA256') = byteLength' /\ (changes' = 0 => Start(fileSHA256, byteLength)')
            BY <2>1, <2>6, <2>8 DEF Start
        <3> QED
            BY <2>1, <2>4, <2>5, <2>7, <2>8, <3>1 DEF DigestInv
    <2>9. CASE pc = "hash" /\ bodySHA256' = copied /\ pc' = "send" /\ UNCHANGED fileSHA256
        <3>1. /\ Len(bodySHA256') = byteLength' /\ Len(fileSHA256') = byteLength'
              /\ changes' = 0 => Start(bodySHA256, byteLength)' /\ Start(fileSHA256, byteLength)'
            BY <2>1, <2>6, <2>9 DEF DigestInv, Start
        <3> QED
            BY <2>1, <2>4, <2>5, <2>7, <2>9, <3>1 DEF DigestInv
    <2> QED
        BY <1>4, <2>8, <2>9 DEF CopyDone
<1>5. CASE NewBody \/ \E i \in DOMAIN bodies : Read(i) \/ CloseBody(i)
    <2>1. UNCHANGED <<source, changes, byteLength, pc, copied, fileSHA256, bodySHA256>>
        BY <1>5 DEF NewBody, Read, CloseBody
    <2>2. pc = "send" \/ bodies # <<>>
        BY <1>5 DEF NewBody
    <2>3. bodies' \in Seq(Readers) /\ \A j \in DOMAIN bodies' : ReaderOK(bodies'[j])
        BY <1>5, BodiesStep
    <2>4. TypeInv' /\ BodiesInv'
        BY <2>1, <2>3 DEF BodiesInv, ReaderOK, Start
    <2>5. DigestInv'
        BY <2>1, <2>2 DEF DigestInv, Start
    <2> QED
        BY <2>4, <2>5
<1>6. CASE ChangeSource
    <2>1. /\ changes' = changes + 1 /\ source' \in Seq(Bytes)
          /\ UNCHANGED <<byteLength, pc, copied, fileSHA256, bodySHA256, bodies>>
        BY <1>6, ContentsAreBytes DEF ChangeSource
    <2>2. changes' \in Nat /\ changes' # 0
        BY <2>1
    <2>3. TypeInv' /\ BodiesInv'
        BY <2>1, <2>2 DEF BodiesInv, ReaderOK
    <2>4. DigestInv'
        BY <2>1, <2>2 DEF DigestInv
    <2> QED
        BY <2>3, <2>4
<1> QED
    BY <1>2, <1>3, <1>4, <1>5, <1>6 DEF Next, Prepare

-----------------------------------------------------------------------------
\* The inductive invariant holds.
THEOREM Invariance == Spec => []IInv
<1>1. Init => IInv
    <2> SUFFICES ASSUME Init PROVE IInv
        OBVIOUS
    <2>1. source \in Seq(Bytes) /\ byteLength \in Nat /\ changes = 0
        BY ContentsAreBytes, SizesAssumption DEF Init
    <2>2. pc = "start" /\ copied = <<>> /\ bodies = <<>>
        BY DEF Init
    <2>3. TypeInv /\ BodiesInv
        BY <2>1, <2>2 DEF TypeInv, BodiesInv
    <2>4. Start(copied, Len(copied)) /\ Len(copied) = 0
        BY <2>1, <2>2, StartEmpty
    <2>5. DigestInv
        BY <2>1, <2>2, <2>4 DEF DigestInv
    <2> QED
        BY <2>3, <2>5 DEF IInv
<1>2. IInv /\ [Next]_vars => IInv'
    BY DigestStep DEF IInv
<1> QED
    BY <1>1, <1>2, PTL DEF Spec

(***************************************************************************)
(* Every body of a source that stays as it is carries the bytes that were  *)
(* announced, for any number of bodies that are read side by side, in      *)
(* pieces of any size (NewBody, GetBody, copyReaderAtContext).             *)
(***************************************************************************)
THEOREM StableSourceVerifiesHolds == Spec => []StableSourceVerifies
<1>1. IInv => StableSourceVerifies
    <2> SUFFICES ASSUME IInv, changes = 0, NEW i \in DOMAIN bodies, bodies[i].at = "ended"
                 PROVE  bodies[i].got = fileSHA256 /\ bodies[i].got = bodySHA256
        BY DEF StableSourceVerifies
    <2>1. bodies # <<>>
        BY DEF IInv, TypeInv
    <2>2. fileSHA256 = SubSeq(source, 1, byteLength) /\ bodySHA256 = SubSeq(source, 1, byteLength)
        BY <2>1 DEF IInv, DigestInv, Start
    <2>3. bodies[i].got = SubSeq(source, 1, byteLength)
        BY DEF IInv, BodiesInv, ReaderOK, Start
    <2> QED
        BY <2>2, <2>3
<1> QED
    BY <1>1, Invariance, PTL

(***************************************************************************)
(* No body exceeds the announced length, and nothing is sent whose digests *)
(* do not cover it, however the source changes (copyReaderAtContext, the   *)
(* section reader of NewBody).                                             *)
(***************************************************************************)
THEOREM AnnouncedLengthHoldsAlways == Spec => []AnnouncedLengthHolds
<1>1. IInv => AnnouncedLengthHolds
    <2> SUFFICES ASSUME IInv, NEW i \in DOMAIN bodies
                 PROVE  /\ Len(bodies[i].got) <= byteLength
                        /\ Len(fileSHA256) = byteLength
                        /\ Len(bodySHA256) = byteLength
        BY DEF AnnouncedLengthHolds
    <2>1. bodies # <<>>
        BY DEF IInv, TypeInv
    <2>2. Len(bodies[i].got) <= byteLength
        BY DEF IInv, BodiesInv, ReaderOK
    <2> QED
        BY <2>1, <2>2 DEF IInv, DigestInv
<1> QED
    BY <1>1, Invariance, PTL

-----------------------------------------------------------------------------
\* Downloads

\* What a slot may hold.
Answer == [defect : Defects, Chunk : Seq(MediaBytes), TotalLength : Nat, SHA256 : Seq(MediaBytes),
           EOF : BOOLEAN, MediaCount : Nat]

\* The chunk of slot i is the piece of the file it names that starts at the
\* slot's offset; it is short, and says eof, only at the end of that file.
ChunkOK(i, a) ==
    LET whole == a.SHA256
        end   == i * request.Length + Len(a.Chunk)
    IN  /\ request.Length \in Nat \ {0}
        /\ Len(whole) <= MaxTotal
        /\ Len(a.Chunk) \in 1..request.Length
        /\ end <= Len(whole)
        /\ a.Chunk = SubSeq(whole, i * request.Length + 1, end)
        /\ a.EOF <=> end = Len(whole)
        /\ ~a.EOF => Len(a.Chunk) = request.Length

\* The accepted chunks stay right when the broker's file is replaced: each is
\* judged by the file that was there when it was sent.
MediaInv ==
    /\ file \in Seq(MediaBytes)
    /\ request \in Requests
    /\ state \in [SlotIds -> {"idle", "sent", "accepted", "rejected"}]
    /\ chunk \in [SlotIds -> Answer]
    /\ \A i \in SlotIds : state[i] = "accepted" => ChunkOK(i, chunk[i])

\* Induction over the numbers, for a property given as a set.
LEMMA NatInductionOn ==
    ASSUME NEW S, 0 \in S, \A n \in Nat : n \in S => n + 1 \in S
    PROVE  Nat \subseteq S
<1> DEFINE T == Nat \ S
<1> SUFFICES ASSUME T # {} PROVE FALSE
    OBVIOUS
<1>1. PICK x \in T : \A y \in T : ~(<<y, x>> \in OpToRel(<, Nat))
    <2>1. T \subseteq Nat
        OBVIOUS
    <2> HIDE DEF T
    <2> QED
    BY <2>1, WFMin, NatLessThanWellFounded, Zenon
<1>2. x - 1 \in T
    <2>1. x \in Nat /\ x \notin S
        OBVIOUS
    <2>2. x - 1 \in Nat /\ (x - 1) + 1 = x
        BY <2>1
    <2> QED
        BY <2>1, <2>2
<1>3. <<x - 1, x>> \in OpToRel(<, Nat)
    <2>1. x - 1 \in Nat /\ x \in Nat /\ x - 1 < x
        BY <1>2
    <2> QED
        BY <2>1, Zenon DEF OpToRel
<1> QED
    BY <1>1, <1>2, <1>3, Zenon

\* Each sequence of r is the one before it and one more piece of s.
Grows(r, s) == r = [j \in 1..Len(s) |-> IF j = 1 THEN s[j] ELSE r[j - 1] \o s[j]]

\* FlattenSeq puts the pieces together one after the other: it ends with the
\* last of the sequences r that grow by one piece each.
LEMMA FlattenIs ==
    ASSUME NEW n \in Nat \ {0}, NEW s, Len(s) = n, NEW r, Grows(r, s)
    PROVE  FlattenSeq(s) = r[n]
<1> DEFINE f == CHOOSE g : Grows(g, s)
<1>1. FlattenSeq(s) = f[n]
    BY DEF FlattenSeq, Grows
<1>2. Grows(f, s)
    OBVIOUS
<1> HIDE DEF f
<1>3. \A j \in 1..n : f[j] = IF j = 1 THEN s[j] ELSE f[j - 1] \o s[j]
    BY <1>2, Zenon DEF Grows
<1>4. \A j \in 1..n : r[j] = IF j = 1 THEN s[j] ELSE r[j - 1] \o s[j]
    BY Zenon DEF Grows
<1> DEFINE S == {m \in Nat : m \in 1..n => f[m] = r[m]}
<1>6. 0 \in S
    BY ONLY n \in Nat
<1>7. ASSUME NEW m \in Nat, m \in S PROVE m + 1 \in S
    <2>1. m + 1 \in 1..n => m + 1 = 1 \/ (m \in 1..n /\ (m + 1) - 1 = m)
        BY ONLY n \in Nat, m \in Nat
    <2>2. m \in 1..n => f[m] = r[m]
        BY ONLY <1>7
    <2>3. m + 1 \in 1..n => f[m + 1] = r[m + 1]
        BY ONLY <1>3, <1>4, <2>1, <2>2
    <2> QED
        BY ONLY <2>3, m \in Nat
<1>8. n \in S
    <2> HIDE DEF S
    <2> QED
        BY <1>6, <1>7, NatInductionOn
<1> QED
    BY ONLY <1>1, <1>8, n \in Nat \ {0}

\* Pieces of one length, and a last one up to the end, make up the whole.
LEMMA PiecesMakeWhole ==
    ASSUME NEW B, NEW whole \in Seq(B), NEW k \in Nat, NEW L \in Nat \ {0}, k * L < Len(whole),
           NEW s, s = [j \in 1..(k + 1) |-> s[j]],
           \A j \in 1..k : s[j] = SubSeq(whole, (j - 1) * L + 1, j * L),
           s[k + 1] = SubSeq(whole, k * L + 1, Len(whole))
    PROVE  FlattenSeq(s) = whole
<1> DEFINE end(j) == IF j = k + 1 THEN Len(whole) ELSE j * L
           r      == [j \in 1..(k + 1) |-> SubSeq(whole, 1, end(j))]
<1>1. Len(whole) \in Nat
    OBVIOUS
<1>2. \A j \in 0..k : j * L \in Nat /\ j * L < Len(whole) /\ j * L + L = (j + 1) * L
    BY <1>1
<1>3. ASSUME NEW j \in 1..(k + 1) PROVE s[j] = SubSeq(whole, (j - 1) * L + 1, end(j))
    <2>1. CASE j = k + 1
        <3>1. (j - 1) * L + 1 = k * L + 1
            BY <2>1
        <3> QED
            BY <2>1, <3>1
    <2>2. CASE j \in 1..k
        <3>1. end(j) = j * L
            BY <2>2
        <3> QED
            BY ONLY <2>2, <3>1, \A n \in 1..k : s[n] = SubSeq(whole, (n - 1) * L + 1, n * L), Zenon
    <2> QED
        BY <2>1, <2>2
<1>4. ASSUME NEW j \in 1..(k + 1)
      PROVE  /\ (j - 1) * L \in 0..Len(whole) /\ end(j) \in ((j - 1) * L)..Len(whole)
             /\ j # 1 => end(j - 1) = (j - 1) * L /\ j - 1 \in 1..(k + 1)
    <2>1. j - 1 \in 0..k
        OBVIOUS
    <2>2. (j - 1) * L \in Nat /\ (j - 1) * L < Len(whole)
        BY <1>2, <2>1
    <2>3. CASE j = k + 1
        BY <1>1, <2>2, <2>3
    <2>4. CASE j \in 1..k
        <3>1. j * L \in Nat /\ j * L < Len(whole) /\ (j - 1) * L + L = j * L
            <4>1. j \in 0..k /\ (j - 1) + 1 = j
                BY <2>4
            <4> QED
                BY ONLY <1>2, <2>1, <4>1
        <3>2. end(j) = j * L /\ (j # 1 => end(j - 1) = (j - 1) * L /\ j - 1 \in 1..(k + 1))
            BY <2>4
        <3> DEFINE m == (j - 1) * L
        <3>3. m \in Nat /\ m + L = end(j) /\ end(j) \in Nat /\ end(j) < Len(whole)
            BY <2>2, <3>1, <3>2
        <3> HIDE DEF m, end
        <3>4. m \in 0..Len(whole) /\ end(j) \in m..Len(whole)
            BY <1>1, <3>3
        <3> QED
            BY <3>2, <3>4 DEF m
    <2> QED
        BY <2>3, <2>4
<1> HIDE DEF end
<1>5. ASSUME NEW j \in 1..(k + 1)
      PROVE  r[j] = IF j = 1 THEN s[j] ELSE r[j - 1] \o s[j]
    <2>1. CASE j = 1
        <3>1. (j - 1) * L + 1 = 1
            BY <2>1
        <3> QED
            BY <1>3, <2>1, <3>1
    <2>2. CASE j # 1
        <3>1. r[j - 1] = SubSeq(whole, 1, (j - 1) * L)
            BY <1>4, <2>2
        <3>2. s[j] = SubSeq(whole, (j - 1) * L + 1, end(j))
            BY <1>3
        <3>3. 1 \in 1..(Len(whole) + 1) /\ (j - 1) * L \in (1 - 1)..Len(whole)
            BY <1>1, <1>4
        <3>4. r[j - 1] \o s[j] = SubSeq(whole, 1, end(j))
            <4> DEFINE m == (j - 1) * L
            <4>1. m \in (1 - 1)..Len(whole) /\ end(j) \in m..Len(whole)
                BY <1>4, <3>3
            <4>2. r[j - 1] = SubSeq(whole, 1, m) /\ s[j] = SubSeq(whole, m + 1, end(j))
                BY <3>1, <3>2
            <4> HIDE DEF m, end, r
            <4> QED
                BY ONLY <3>3, <4>1, <4>2, ConcatAdjacentSubSeq, whole \in Seq(B)
        <3> QED
            BY <2>2, <3>4
    <2> QED
        BY <2>1, <2>2
<1>6. Len(s) = k + 1
    OBVIOUS
<1>7. r[k + 1] = whole
    BY SubSeqFull DEF end
<1>8. Grows(r, s)
    BY ONLY <1>5, <1>6 DEF Grows
<1>9. k + 1 \in Nat \ {0}
    OBVIOUS
<1> HIDE DEF r
<1> QED
    BY ONLY <1>6, <1>7, <1>8, <1>9, FlattenIs

\* A chunk that passes the checks of FetchMediaChunk is the piece of the file
\* it names.
LEMMA AcceptedOK ==
    ASSUME MediaInv, NEW i \in SlotIds, NEW a \in Answers(i),
           validateMediaChunkResponse(i, a)
    PROVE  a \in Answer /\ ChunkOK(i, a)
<1> DEFINE off == i * request.Length
<1>1. PICK n \in 0..(request.Length + 1) :
          /\ off + n <= Len(file)
          /\ a.Chunk = SubSeq(file, off + 1, off + n)
    BY DEF Answers, Offset
<1>2. /\ a.defect \in Defects /\ a.TotalLength = Len(file) /\ a.SHA256 = file
      /\ a.EOF \in BOOLEAN /\ a.MediaCount \in 0..(MaxIndex + 2)
      /\ a = [defect |-> a.defect, Chunk |-> a.Chunk, TotalLength |-> a.TotalLength,
              SHA256 |-> a.SHA256, EOF |-> a.EOF, MediaCount |-> a.MediaCount]
    BY DEF Answers
<1>3. /\ Len(a.Chunk) \in 1..request.Length
      /\ a.TotalLength \in 1..MaxTotal
      /\ off + Len(a.Chunk) <= a.TotalLength
      /\ a.EOF = (off + Len(a.Chunk) = a.TotalLength)
      /\ ~a.EOF => Len(a.Chunk) = request.Length
      /\ a.MediaCount \in 1..(MaxIndex + 1)
    BY DEF validateMediaChunkResponse, validateMediaChunkMetadata,
           decodeMediaChunk, validateMediaChunkRange, Offset
<1>4. file \in Seq(MediaBytes) /\ request.Length \in Nat /\ off \in Nat
    BY DEF MediaInv, Requests, SlotIds
<1>5. a.Chunk \in Seq(MediaBytes) /\ Len(a.Chunk) = n
    <2>1. \A j \in (off + 1)..(off + n) : file[j] \in MediaBytes
        BY <1>1, <1>4
    <2> HIDE DEF off
    <2> QED
        BY <1>1, <1>4, <2>1, SubSeqProperties
<1>6. a \in Answer
    <2>1. a.TotalLength \in Nat /\ a.MediaCount \in Nat /\ a.SHA256 \in Seq(MediaBytes)
        BY <1>2, <1>3, <1>4
    <2> QED
        BY ONLY <1>2, <1>5, <2>1 DEF Answer
<1>7. ChunkOK(i, a)
    <2>1. request.Length \in Nat \ {0} /\ Len(file) <= MaxTotal
        BY <1>2, <1>3, <1>4, <1>5
    <2>2. a.Chunk = SubSeq(file, off + 1, off + Len(a.Chunk))
        BY <1>1, <1>5
    <2>3. a.EOF <=> off + Len(a.Chunk) = Len(file)
        BY <1>2, <1>3
    <2> QED
        BY ONLY <1>2, <1>3, <2>1, <2>2, <2>3 DEF ChunkOK
<1> QED
    BY <1>6, <1>7

\* The inductive invariant of a download holds.
LEMMA MediaInvariance ==
    MediaSpec => []MediaInv
<1>1. Files \subseteq Seq(MediaBytes)
    BY MediaAssumption DEF Files
<1>2. MediaInit => MediaInv
    <2>1. NoAnswer \in Answer
        BY DEF NoAnswer, Answer, Defects
    <2> QED
        BY <1>1, <2>1 DEF MediaInit, MediaInv
<1>3. MediaInv /\ [MediaNext]_mediaVars => MediaInv'
    <2> SUFFICES ASSUME MediaInv, [MediaNext]_mediaVars PROVE MediaInv'
        OBVIOUS
    <2>1. ASSUME NEW i \in SlotIds, Fetch(i) PROVE MediaInv'
        BY <2>1 DEF Fetch, MediaInv, ChunkOK
    <2>2. ASSUME NEW i \in SlotIds, Receive(i) PROVE MediaInv'
        <3>1. state[i] = "sent" /\ UNCHANGED <<file, request>>
            BY <2>2 DEF Receive
        <3>2. CASE state' = [state EXCEPT ![i] = "rejected"] /\ UNCHANGED chunk
            BY <3>1, <3>2 DEF MediaInv, ChunkOK
        <3>3. ASSUME NEW a \in Answers(i), validateMediaChunkResponse(i, a),
                     state' = [state EXCEPT ![i] = "accepted"], chunk' = [chunk EXCEPT ![i] = a]
              PROVE  MediaInv'
            <4>1. a \in Answer /\ ChunkOK(i, a)
                BY <3>3, AcceptedOK
            <4> QED
                BY <3>1, <3>3, <4>1 DEF MediaInv, ChunkOK
        <3> QED
            BY <2>2, <3>2, <3>3 DEF Receive
    <2>3. CASE ReplaceFile
        BY <1>1, <2>3 DEF ReplaceFile, MediaInv, ChunkOK
    <2>4. CASE Finished \/ UNCHANGED mediaVars
        BY <2>4 DEF Finished, mediaVars, MediaInv, ChunkOK
    <2> QED
        BY <2>1, <2>2, <2>3, <2>4 DEF MediaNext
<1> QED
    BY <1>2, <1>3, PTL DEF MediaSpec

(***************************************************************************)
(* What a caller puts together from accepted chunks that name one digest   *)
(* is the whole file of that digest, for chunks of any length in any       *)
(* number, fetched in any order while the broker replaces its file, and    *)
(* no accepted chunk lies behind the eof (validateMediaChunkRange).        *)
(***************************************************************************)
THEOREM AssembledIsWholeHolds ==
    MediaSpec => []AssembledIsWhole
<1>1. MediaInv => AssembledIsWhole
    <2> SUFFICES ASSUME MediaInv, NEW k \in SlotIds, Complete(k)
                 PROVE  /\ Assembled(k) = chunk[k].SHA256
                        /\ Len(Assembled(k)) <= MaxTotal
                        /\ \A i \in SlotIds :
                              state[i] = "accepted" /\ chunk[i].SHA256 = chunk[k].SHA256 => i <= k
        BY DEF AssembledIsWhole
    <2> DEFINE whole == chunk[k].SHA256
               L     == request.Length
               s     == [j \in 1..(k + 1) |-> chunk[j - 1].Chunk]
    <2>1. k \in Nat /\ k \in 0..k /\ \A i \in 0..k : i \in SlotIds
        BY MediaAssumption DEF SlotIds
    <2>2. \A i \in 0..k : state[i] = "accepted" /\ chunk[i].SHA256 = whole /\ ChunkOK(i, chunk[i])
        BY <2>1 DEF Complete, MediaInv
    <2>3. chunk[k].EOF /\ whole \in Seq(MediaBytes) /\ Len(whole) \in Nat /\ Len(whole) <= MaxTotal
        BY <2>1, <2>2 DEF Complete, MediaInv, Answer, ChunkOK
    <2>4. L \in Nat \ {0} /\ k * L \in Nat
        BY <2>1, <2>2 DEF ChunkOK
    <2>5. k * L < Len(whole) /\ chunk[k].Chunk = SubSeq(whole, k * L + 1, Len(whole))
        <3>1. /\ k * L + Len(chunk[k].Chunk) = Len(whole) /\ Len(chunk[k].Chunk) \in 1..L
              /\ chunk[k].Chunk = SubSeq(whole, k * L + 1, k * L + Len(chunk[k].Chunk))
            BY <2>1, <2>2, <2>3 DEF ChunkOK
        <3> DEFINE m == k * L
                   n == Len(chunk[k].Chunk)
        <3>2. m \in Nat /\ m + n = Len(whole) /\ n \in 1..L
            BY <2>4, <3>1
        <3>3. m < Len(whole)
            <4> HIDE DEF m, n, whole, L
            <4> QED
                BY <2>3, <2>4, <3>2
        <3> QED
            BY <3>1, <3>3
    <2>6. ASSUME NEW i \in SlotIds, state[i] = "accepted", chunk[i].SHA256 = whole
          PROVE  i <= k
        <3>1. /\ i * L + Len(chunk[i].Chunk) <= Len(whole) /\ Len(chunk[i].Chunk) \in 1..L
            BY <2>6 DEF MediaInv, ChunkOK
        <3>2. k * L + Len(chunk[k].Chunk) = Len(whole) /\ Len(chunk[k].Chunk) \in 1..L
            BY <2>1, <2>2, <2>3 DEF ChunkOK
        <3> DEFINE m == k * L
                   n == i * L
                   x == Len(chunk[k].Chunk)
                   y == Len(chunk[i].Chunk)
        <3>3. i \in Nat /\ n < m + L /\ n \in Nat
            <4>1. i \in Nat /\ n \in Nat /\ m \in Nat
                BY <2>4 DEF SlotIds
            <4>2. n + y <= m + x /\ x \in 1..L /\ y \in 1..L
                BY <3>1, <3>2
            <4> HIDE DEF m, n, x, y, L
            <4> QED
                BY <2>4, <4>1, <4>2
        <3> HIDE DEF L
        <3>4. ASSUME i > k PROVE k * L + L <= i * L
            BY <2>1, <2>4, <3>3, <3>4
        <3> QED
            BY <2>1, <2>4, <3>3, <3>4
    <2>7. ASSUME NEW j \in 1..k PROVE s[j] = SubSeq(whole, (j - 1) * L + 1, j * L)
        <3> DEFINE i == j - 1
        <3>1. i \in 0..k /\ j \in 1..(k + 1) /\ j = i + 1 /\ i \in Nat
            BY <2>1
        <3>2. ChunkOK(i, chunk[i]) /\ chunk[i].SHA256 = whole /\ s[j] = chunk[i].Chunk
            BY <2>2, <3>1
        <3> HIDE DEF i
        <3>3. i * L + L = j * L /\ j * L <= k * L /\ i * L \in Nat /\ j * L \in Nat
            BY <2>1, <2>4, <3>1
        <3>4. Len(chunk[i].Chunk) = L
            <4> DEFINE m == i * L
                       n == Len(chunk[i].Chunk)
            <4>1. n \in 1..L /\ (n = L \/ m + n = Len(whole))
                BY <3>2 DEF ChunkOK
            <4>2. m \in Nat /\ m + L < Len(whole)
                <5> DEFINE p == j * L
                           q == k * L
                <5>1. m \in Nat /\ p \in Nat /\ q \in Nat /\ m + L = p /\ p <= q /\ q < Len(whole)
                    BY <2>4, <2>5, <3>3
                <5> HIDE DEF m, p, q
                <5> QED
                    BY ONLY <2>3, <2>4, <5>1
            <4> HIDE DEF m, n, L, whole
            <4>3. n = L
                BY ONLY <2>3, <2>4, <4>1, <4>2
            <4> QED
                BY <4>3 DEF n
        <3> QED
            BY <3>2, <3>3, <3>4 DEF ChunkOK, i
    <2>8. s[k + 1] = SubSeq(whole, k * L + 1, Len(whole))
        BY <2>1, <2>5
    <2>9. s = [j \in 1..(k + 1) |-> s[j]]
        OBVIOUS
    <2>10. Assembled(k) = FlattenSeq(s)
        BY DEF Assembled
    <2>11. FlattenSeq(s) = whole
        <3> HIDE DEF s, L, whole
        <3> QED
            BY ONLY <2>1, <2>3, <2>4, <2>5, <2>7, <2>8, <2>9, PiecesMakeWhole
    <2> QED
        BY <2>3, <2>6, <2>10, <2>11
<1> QED
    BY <1>1, MediaInvariance, PTL
=============================================================================
