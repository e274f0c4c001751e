--------------------------- MODULE CanonicalTarget ---------------------------
(***************************************************************************)
(* The canonical form of a request target (internal/irishmac/canonical.go) *)
(* that both ends of a signature compute, and the query strings the client *)
(* builds (internal/client/transport/path.go).                             *)
(*                                                                         *)
(* A target is written one character at a time, each in one of its         *)
(* spellings, and the pairs it stands for are noted on the side: they are  *)
(* the reference the algorithms are compared with. A finished target may   *)
(* be written again by somebody else: other spellings, another order of    *)
(* the pairs, or the client's own encoder. Text is a sequence of bytes.    *)
(***************************************************************************)
EXTENDS Integers, SequencesExt, FiniteSetsExt

CONSTANT MaxWritten    \* characters after the question mark

ASSUME WrittenAssumption == MaxWritten \in Nat

VARIABLES
    target,     \* the bytes of the target
    pairs,      \* the decoded pairs, the blank ones and the one being written too
    malformed,  \* a percent escape of the target is no escape, or no UTF-8
    written

vars == <<target, pairs, malformed, written>>

Percent == 37
Ampersand == 38
Equals == 61
Question == 63

Path == <<47>>

NoValue == [given |-> FALSE, text |-> <<>>]

Value(text) == [given |-> TRUE, text |-> text]

BlankPair == [key |-> <<>>, value |-> NoValue]

\* What canonicalTarget returns: a target, or an error.
Ok(t) == [target |-> t, err |-> "nil"]
Malformed == [target |-> <<>>, err |-> "malformed percent-encoding"]
ErrDuplicateQueryKey == [target |-> <<>>, err |-> "ErrDuplicateQueryKey"]

-----------------------------------------------------------------------------
\* The algorithms.

\* strings.Cut
Cut(s, b) ==
    LET at == {i \in DOMAIN s : s[i] = b}
    IN IF at = {} THEN [before |-> s, after |-> <<>>, found |-> FALSE]
       ELSE [before |-> SubSeq(s, 1, Min(at) - 1), after |-> SubSeq(s, Min(at) + 1, Len(s)),
             found |-> TRUE]

\* strings.SplitSeq
SplitSeq(s, b) ==
    FoldLeft(LAMBDA parts, x : IF x = b THEN Append(parts, <<>>)
                               ELSE [parts EXCEPT ![Len(parts)] = Append(@, x)],
             <<(<<>>)>>, s)

Upper == 65..90
Lower == 97..122
Digit == 48..57

isHexByte(b) == b \in Digit \cup 97..102 \cup 65..70

fromHexNibble(b) ==
    CASE b \in Digit -> b - 48
      [] b \in Lower -> b - 97 + 10
      [] OTHER -> b - 65 + 10

\* utf8.ValidString, for text whose only byte outside ASCII is 255.
ValidString(s) == \A i \in DOMAIN s : s[i] < 128

\* Between two bytes, esc holds the part of an escape that was read.
decodeQueryComponentStrict(s) ==
    LET Step(d, b) ==
            CASE d.esc = <<>> /\ b # Percent -> [d EXCEPT !.out = Append(@, b)]
              [] d.esc = <<>> -> [d EXCEPT !.esc = <<b>>]
              [] ~isHexByte(b) -> [d EXCEPT !.ok = FALSE]
              [] Len(d.esc) = 1 -> [d EXCEPT !.esc = Append(@, b)]
              [] OTHER -> [d EXCEPT !.esc = <<>>,
                             !.out = Append(@, 16 * fromHexNibble(d.esc[2]) + fromHexNibble(b))]
        decoded == FoldLeft(Step, [out |-> <<>>, esc |-> <<>>, ok |-> TRUE], s)
    IN [text |-> decoded.out,
        ok |-> decoded.ok /\ decoded.esc = <<>> /\ ValidString(decoded.out)]

HexDigit(n, ten) == IF n < 10 THEN 48 + n ELSE ten + n - 10

\* An escape of b, its letters starting at ten.
Escape(b, ten) == <<Percent, HexDigit(b \div 16, ten), HexDigit(b % 16, ten)>>

Unreserved == Upper \cup Lower \cup Digit \cup {45, 46, 95, 126}

EncodeQueryComponent(s) ==
    FlattenSeq([i \in DOMAIN s |-> IF s[i] \in Unreserved THEN <<s[i]>> ELSE Escape(s[i], 65)])

parseCanonicalQuery(raw) ==
    LET rawPairs == SelectSeq(SplitSeq(raw, Ampersand), LAMBDA p : p # <<>>)
        cuts == [i \in DOMAIN rawPairs |-> Cut(rawPairs[i], Equals)]
        Key(i) == decodeQueryComponentStrict(cuts[i].before)
        Val(i) == decodeQueryComponentStrict(cuts[i].after)
    IN [ok |-> \A i \in DOMAIN cuts : Key(i).ok /\ Val(i).ok,
        pairs |-> [i \in DOMAIN cuts |->
                      [key |-> EncodeQueryComponent(Key(i).text),
                       value |-> IF cuts[i].found THEN Value(EncodeQueryComponent(Val(i).text))
                                 ELSE NoValue]]]

\* The order of Go strings: by bytes, a prefix first.
Less(s, t) ==
    \/ Len(s) < Len(t) /\ s = SubSeq(t, 1, Len(s))
    \/ \E i \in DOMAIN s \cap DOMAIN t :
          s[i] < t[i] /\ \A j \in 1..(i - 1) : s[j] = t[j]

\* compareOptionalCanonicalQueryValue < 0
LessValue(v, w) ==
    \/ ~v.given /\ w.given
    \/ v.given /\ w.given /\ Less(v.text, w.text)

\* Faulty variant: the values do not count.
PairBeforeByKey(p, q) == Less(p.key, q.key)

\* The comparison canonicalTarget sorts by.
PairBefore(p, q) ==
    \/ Less(p.key, q.key)
    \/ p.key = q.key /\ LessValue(p.value, q.value)

\* Faulty variant: an empty value is written like no value.
WritePairBare(p) ==
    IF p.value.text # <<>> THEN p.key \o <<Equals>> \o p.value.text ELSE p.key

WritePair(p) ==
    IF p.value.given THEN p.key \o <<Equals>> \o p.value.text ELSE p.key

\* strings.Join(parts, "&")
Join(parts) ==
    FlattenSeq([i \in DOMAIN parts |-> IF i = 1 THEN parts[i] ELSE <<Ampersand>> \o parts[i]])

\* Faulty variant: only a pair that is repeated as a whole counts.
RepeatsPair(sorted) == \E i \in 2..Len(sorted) : sorted[i] = sorted[i - 1]

RepeatsKey(sorted) == \E i \in 2..Len(sorted) : sorted[i].key = sorted[i - 1].key

canonicalTarget(t, rejectDuplicateKeys) ==
    LET cut == Cut(t, Question)
        parsed == parseCanonicalQuery(cut.after)
        sorted == SortSeq(parsed.pairs, PairBefore)
    IN IF ~cut.found \/ cut.after = <<>> THEN Ok(cut.before)
       ELSE IF ~parsed.ok THEN Malformed
       ELSE IF parsed.pairs = <<>> THEN Ok(cut.before)
       ELSE IF rejectDuplicateKeys /\ RepeatsKey(sorted) THEN ErrDuplicateQueryKey
       ELSE Ok(cut.before \o <<Question>>
                  \o Join([i \in DOMAIN sorted |-> WritePair(sorted[i])]))

CanonicalTarget(t) == canonicalTarget(t, FALSE)

CanonicalRequestTarget(t) == canonicalTarget(t, TRUE)

\* params is a url.Values: from its keys to the sequences of their values.
canonicalQueryString(params) ==
    LET Written(key) ==
            LET k == EncodeQueryComponent(key)
            IN IF params[key] = <<>> THEN <<k>>
               ELSE [i \in DOMAIN params[key] |->
                        k \o <<Equals>> \o EncodeQueryComponent(params[key][i])]
        keys == SetToSeq(DOMAIN params)
    IN Join(SortSeq(FlattenSeq([i \in DOMAIN keys |-> Written(keys[i])]), Less))

appendCanonicalQuery(path, params) ==
    IF canonicalQueryString(params) = <<>> THEN path
    ELSE path \o <<Question>> \o canonicalQueryString(params)

-----------------------------------------------------------------------------
\* Who writes targets.

TypeOK ==
    /\ target \in Seq(0..255)
    /\ \A i \in DOMAIN pairs : pairs[i].key \in Seq(0..255)
    /\ malformed \in BOOLEAN
    /\ written \in 0..MaxWritten

Init ==
    /\ target = Path \o <<Question>>
    /\ pairs = <<BlankPair>>
    /\ malformed = FALSE
    /\ written = 0

\* A letter, a sign that sorts before the equals sign, one that is no
\* unreserved character, and the three that separate.
Characters == {97, 45, 43, Ampersand, Equals, Question}

Spellings(b) ==
    {Escape(b, 65), Escape(b, 97)} \cup (IF b = Ampersand THEN {} ELSE {<<b>>})

Write(bytes) ==
    /\ written < MaxWritten
    /\ written' = written + 1
    /\ target' = target \o bytes

Writing == Last(pairs)

\* An equals sign is a separator only where no value has begun.
WriteCharacter ==
    \E b \in Characters : \E s \in Spellings(b) :
        /\ s = <<Equals>> => Writing.value.given
        /\ Write(s)
        /\ pairs' = [pairs EXCEPT ![Len(pairs)] =
              IF Writing.value.given THEN [@ EXCEPT !.value.text = Append(@, b)]
              ELSE [@ EXCEPT !.key = Append(@, b)]]
        /\ UNCHANGED malformed

BeginValue ==
    /\ ~Writing.value.given
    /\ Write(<<Equals>>)
    /\ pairs' = [pairs EXCEPT ![Len(pairs)].value = Value(<<>>)]
    /\ UNCHANGED malformed

NextPair ==
    /\ Write(<<Ampersand>>)
    /\ pairs' = Append(pairs, BlankPair)
    /\ UNCHANGED malformed

\* A percent sign with no two hex digits, and a byte no UTF-8 text has.
WriteMalformed ==
    \E s \in {<<Percent, 97, 120>>, <<Percent, 120, 97>>, Escape(255, 65)} :
        /\ Write(s)
        /\ malformed' = TRUE
        /\ UNCHANGED pairs

\* The target ends inside an escape.
WriteCutOff ==
    \E s \in {<<Percent>>, <<Percent, 97>>} :
        /\ ~malformed /\ written < MaxWritten
        /\ target' = target \o s
        /\ malformed' = TRUE
        /\ written' = MaxWritten
        /\ UNCHANGED pairs

Meant == SelectSeq(pairs, LAMBDA p : p # BlankPair)

\* Somebody else writes the same pairs: each byte as an escape, in this order.
WriteAgain ==
    /\ ~malformed
    /\ \E order \in Permutations(DOMAIN Meant), ten \in {65, 97} :
          LET Text(s) == FlattenSeq([i \in DOMAIN s |-> Escape(s[i], ten)])
              Put(p) == Text(p.key)
                          \o IF p.value.given THEN <<Equals>> \o Text(p.value.text) ELSE <<>>
          IN /\ pairs' = [i \in DOMAIN Meant |-> Meant[order[i]]]
             /\ target' = Path \o <<Question>> \o Join([i \in DOMAIN Meant |-> Put(pairs'[i])])
    /\ Meant # <<>>
    /\ written' = MaxWritten
    /\ UNCHANGED malformed

\* The pairs as a url.Values: a key has values, or is there without one.
Keys == {Meant[i].key : i \in DOMAIN Meant}

Of(key) == SelectSeq(Meant, LAMBDA p : p.key = key)

Params ==
    [key \in Keys |-> IF Of(key)[1].value.given
                      THEN [i \in DOMAIN Of(key) |-> Of(key)[i].value.text] ELSE <<>>]

Representable ==
    \A key \in Keys : Len(Of(key)) = 1 \/ \A i \in DOMAIN Of(key) : Of(key)[i].value.given

ClientWrites ==
    /\ ~malformed /\ Meant # <<>>
    /\ Representable
    /\ target' = appendCanonicalQuery(Path, Params)
    /\ pairs' = Meant
    /\ written' = MaxWritten
    /\ UNCHANGED malformed

Next ==
    \/ WriteCharacter \/ BeginValue \/ NextPair \/ WriteMalformed \/ WriteCutOff
    \/ WriteAgain \/ ClientWrites

Spec == Init /\ [][Next]_vars

-----------------------------------------------------------------------------
\* A signature over the canonical target covers what the target says: read
\* back, it has exactly the pairs that were written, and a target that cannot
\* be read has no canonical form.
TargetTellsMeaning ==
    IF malformed THEN CanonicalTarget(target) = Malformed
    ELSE LET cut == Cut(CanonicalTarget(target).target, Question)
             back == parseCanonicalQuery(cut.after).pairs
         IN /\ cut.before = Path
            /\ ToBag(back) = ToBag([i \in DOMAIN Meant |->
                  [key |-> EncodeQueryComponent(Meant[i].key),
                   value |-> [Meant[i].value EXCEPT !.text = EncodeQueryComponent(@)]]])

\* The client refuses to sign a target exactly when two of its decoded keys
\* are equal, however each is spelled (the comparison of neighbours after the
\* sort in canonicalTarget).
RepeatedKeyRefused ==
    ~malformed =>
        (CanonicalRequestTarget(target) = ErrDuplicateQueryKey
            <=> \E i, j \in DOMAIN Meant : i # j /\ Meant[i].key = Meant[j].key)

\* Signer and verifier agree: whoever writes the pairs again, in other
\* spellings and another order, gets the same canonical target. It holds for
\* the query strings of appendCanonicalQuery too, though those are sorted as
\* whole strings.
OneMeaningOneTarget ==
    [][WriteAgain \/ ClientWrites => CanonicalTarget(target') = CanonicalTarget(target)]_vars
=============================================================================
