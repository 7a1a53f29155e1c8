---------------------------- MODULE RecentLogWindow ----------------------------
(***************************************************************************)
(* packages/logs: how the log of a container is cut to a Recent Log Window. *)
(*                                                                         *)
(* A text is a sequence of characters.  A character stands for the bytes it *)
(* takes in UTF-8, one to four; Newline is one of its own.  The encoded text *)
(* keeps what the code looks at: lead bytes, continuation bytes, newlines.  *)
(***************************************************************************)
EXTENDS Naturals, Sequences, SequencesExt

CONSTANTS
    MaxLines, \* LOG_MAX_LINES
    MaxBytes  \* LOG_MAX_BYTES

ASSUME WindowAssumption == MaxLines \in Nat \ {0} /\ MaxBytes \in Nat \ {0}

Newline == 0
Chars   == 0..4
Cont    == 5

Encoded(char) ==
    IF char = Newline THEN <<Newline>> ELSE [i \in 1..char |-> IF i = 1 THEN char ELSE Cont]

Encode(text) == FlattenSeq([i \in DOMAIN text |-> Encoded(text[i])])

\* Decoding drops continuation bytes; a character that is cut off becomes the
\* replacement character, which takes three bytes.
Decode(bytes) ==
    LET leads == {i \in DOMAIN bytes : bytes[i] # Cont}
        Whole(i) == bytes[i] = Newline \/ i + bytes[i] - 1 <= Len(bytes)
        at == SetToSortSeq(leads, <)
    IN [k \in DOMAIN at |-> IF Whole(at[k]) THEN bytes[at[k]] ELSE 3]

Newlines(text) == {i \in DOMAIN text : text[i] = Newline}

-----------------------------------------------------------------------------
\* readBoundedResponse: the response up to a number of bytes or newlines.  The
\* chunks it comes in make no difference to what is accepted.
Accepted(bytes) ==
    LET last == SetToSortSeq(Newlines(bytes), <)
        end  == IF Len(last) < MaxLines THEN Len(bytes) ELSE last[MaxLines]
    IN SubSeq(bytes, 1, IF end < MaxBytes THEN end ELSE MaxBytes)

ReadResponse(text) == Decode(Accepted(Encode(text)))

\* The same, chunk by chunk, as the loop does it.
ReadChunks(chunks) ==
    LET Full(got) == Len(got) >= MaxBytes \/ Len(SelectSeq(got, LAMBDA b : b = Newline)) >= MaxLines
        Add(got, byte) == IF Full(got) THEN got ELSE Append(got, byte)
    IN FoldLeft(LAMBDA got, chunk : FoldLeft(Add, got, chunk), <<>>, chunks)

\* normalizeLines: an empty line at the end is the end of the line before.
Lines(text) ==
    LET ends == SetToSortSeq(Newlines(text) \cup {Len(text) + 1}, <)
        all  == [k \in DOMAIN ends |-> SubSeq(text, IF k = 1 THEN 1 ELSE ends[k - 1] + 1, ends[k] - 1)]
    IN IF Last(all) = <<>> THEN Front(all) ELSE all

Join(lines) ==
    FlattenSeq([k \in DOMAIN lines |-> IF k = 1 THEN lines[k] ELSE <<Newline>> \o lines[k]])

\* slice(-n)
LastOf(s, n) == SubSeq(s, IF Len(s) > n THEN Len(s) - n + 1 ELSE 1, Len(s))

\* utf8Prefix: the bytes up to the limit, less a character that is cut off.
Utf8Prefix(text) ==
    LET bytes == Encode(text)
        lead  == CHOOSE i \in 1..MaxBytes :
                    bytes[i] # Cont /\ \A j \in (i + 1)..MaxBytes : bytes[j] = Cont
        end   == IF bytes[MaxBytes + 1] = Cont /\ MaxBytes - lead + 1 < bytes[lead]
                 THEN lead - 1 ELSE MaxBytes
    IN IF Len(bytes) <= MaxBytes THEN text ELSE Decode(SubSeq(bytes, 1, end))

\* boundRecentLogWindow.
Bounded(text, tail) ==
    LET body == Utf8Prefix(Join(LastOf(LastOf(Lines(text), tail), MaxLines))) IN
    [ body  |-> body,
      lines |-> IF body = <<>> THEN 0 ELSE Len(SelectSeq(body, LAMBDA c : c = Newline)) + 1,
      bytes |-> Len(Encode(body)) ]

-----------------------------------------------------------------------------
(* What it promises: whole characters of the last lines, as many as fit.    *)

Fits(text) == Len(Encode(text)) <= MaxBytes

WholePrefix(text) ==
    CHOOSE p \in Prefixes(text) : Fits(p) /\ \A q \in Prefixes(text) : Fits(q) => Len(q) <= Len(p)

CutsRight(text, tail) ==
    LET window == Bounded(text, tail) IN
    /\ window.body = WholePrefix(Join(LastOf(Lines(text), tail)))
    /\ window.lines <= tail /\ window.bytes <= MaxBytes

ChunksDoNotMatter(bytes) ==
    \A k \in 0..Len(bytes) :
        ReadChunks(<<SubSeq(bytes, 1, k), SubSeq(bytes, k + 1, Len(bytes))>>) = Accepted(bytes)
=============================================================================
