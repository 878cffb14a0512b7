---------------------------- MODULE MimeFilters ----------------------------
(***************************************************************************)
(* The low-level filters of mime.c: functions of a context and a chunk,    *)
(* which ltn12.filter.cycle turns into filters that are fed a text chunk   *)
(* by chunk.  A byte is its code; each C loop over a chunk is a fold.      *)
(***************************************************************************)
EXTENDS Integers, Sequences, FiniteSets, SequencesExt

CONSTANTS
    Filters,    \* the filters to run
    Alphabet,   \* the bytes texts are made of
    MaxText,    \* bound: length of a text
    MaxChunk,   \* bound: length of a chunk
    Length      \* the line length of wrp and qpwrp

ASSUME AlphabetAssumption == Alphabet \subseteq 0..255
ASSUME BoundsAssumption   == MaxText \in Nat /\ MaxChunk \in Nat /\ Length \in Nat

TAB == 9
LF == 10
CR == 13
SP == 32
DOT == 46
EQ == 61
CRLF == <<CR, LF>>
EQCRLF == <<EQ, CR, LF>>

-----------------------------------------------------------------------------
\* wrp and qpwrp: the context is the room left in the line.  s is the output of
\* the call so far and the context.

Wrap(s, c, min, break) ==
    IF c = CR THEN s
    ELSE IF c = LF THEN [out |-> s.out \o CRLF, ctx |-> Length]
    ELSE IF s.ctx <= min THEN [out |-> Append(s.out \o break, c), ctx |-> Length - 1]
    ELSE [out |-> Append(s.out, c), ctx |-> s.ctx - 1]

wrp(s, c) == Wrap(s, c, 0, CRLF)

\* Every byte may be the last of its line.
qpwrp_cuts(s, c) == Wrap(s, c, 1, EQCRLF)

\* An escape needs three places and a soft break one.
qpwrp(s, c) == Wrap(s, c, IF c = EQ THEN 3 ELSE 1, EQCRLF)

-----------------------------------------------------------------------------
\* eol: the context is the last byte if it was a CR or an LF not yet paired.

\* Every CR and every LF is a line break.
eolprocess_each(s, c) ==
    IF c \in {CR, LF} THEN [out |-> s.out \o CRLF, ctx |-> c]
    ELSE [out |-> Append(s.out, c), ctx |-> 0]

eolprocess(s, c) ==
    IF c \notin {CR, LF} THEN [out |-> Append(s.out, c), ctx |-> 0]
    ELSE IF s.ctx \in {CR, LF}
    THEN [out |-> IF c = s.ctx THEN s.out \o CRLF ELSE s.out, ctx |-> 0]
    ELSE [out |-> s.out \o CRLF, ctx |-> c]

\* dot: the context is 2 at the beginning of a line and 1 after a CR.

\* Only a CR starts a line.
dot_mid(s, c) ==
    [out |-> IF c = DOT /\ s.ctx = 2 THEN s.out \o <<c, DOT>> ELSE Append(s.out, c),
     ctx |-> IF c = CR THEN 1 ELSE 0]

dot(s, c) ==
    [out |-> IF c = DOT /\ s.ctx = 2 THEN s.out \o <<c, DOT>> ELSE Append(s.out, c),
     ctx |-> IF c = CR THEN 1 ELSE IF c = LF /\ s.ctx = 1 THEN 2 ELSE 0]

-----------------------------------------------------------------------------
\* base64: the context is the atom, the bytes of an incomplete group.

b64base(v) ==
    IF v < 26 THEN 65 + v ELSE IF v < 52 THEN 71 + v ELSE IF v < 62 THEN v - 4
    ELSE IF v = 62 THEN 43 ELSE 47

\* 255 marks what is not of the alphabet; the padding counts as zero.
b64unbase(c) ==
    IF c \in 65..90 THEN c - 65 ELSE IF c \in 97..122 THEN c - 71
    ELSE IF c \in 48..57 THEN c + 4
    ELSE IF c = 43 THEN 62 ELSE IF c = 47 THEN 63 ELSE IF c = EQ THEN 0 ELSE 255

\* Sextet k, from the left, of a group of three bytes.
Sextet(a, k) ==
    LET value == a[1] * 65536 + a[2] * 256 + a[3]
    IN (value \div <<262144, 4096, 64, 1>>[k]) % 64

b64encode(s, c) ==
    LET atom == Append(s.ctx, c) IN
    IF Len(atom) < 3 THEN [s EXCEPT !.ctx = atom]
    ELSE [out |-> s.out \o [k \in 1..4 |-> b64base(Sextet(atom, k))], ctx |-> <<>>]

b64pad(atom) ==
    LET a == atom \o <<0, 0>> IN
    IF atom = <<>> THEN <<>>
    ELSE [k \in 1..4 |-> IF k <= Len(atom) + 1 THEN b64base(Sextet(a, k)) ELSE EQ]

b64decode(s, c) ==
    LET atom == Append(s.ctx, c)
        value == b64unbase(atom[1]) * 262144 + b64unbase(atom[2]) * 4096
                    + b64unbase(atom[3]) * 64 + b64unbase(atom[4])
        decoded == <<(value \div 65536) % 256, (value \div 256) % 256, value % 256>>
        valid == IF atom[3] = EQ THEN 1 ELSE IF atom[4] = EQ THEN 2 ELSE 3
    IN IF b64unbase(c) > 64 THEN s
       ELSE IF Len(atom) < 4 THEN [s EXCEPT !.ctx = atom]
       ELSE [out |-> s.out \o SubSeq(decoded, 1, valid), ctx |-> <<>>]

-----------------------------------------------------------------------------
\* quoted-printable: the context is the atom, the bytes that cannot be decided yet.

qpclass(c) ==
    IF c = CR THEN "cr" ELSE IF c \in {TAB, SP} THEN "if_last"
    ELSE IF c \in 33..126 \ {EQ} THEN "plain" ELSE "quoted"

qpbase(d) == IF d < 10 THEN 48 + d ELSE 55 + d

qpunbase(c) ==
    IF c \in 48..57 THEN c - 48 ELSE IF c \in 65..70 THEN c - 55
    ELSE IF c \in 97..102 THEN c - 87 ELSE 255

qpquote(c) == <<EQ, qpbase(c \div 16), qpbase(c % 16)>>

\* The loop of qpencode, for an atom of at most three bytes: from the third round
\* on nothing is left.
QpStep(s, marker) ==
    LET a == s.ctx IN
    IF a = <<>> THEN s
    ELSE CASE qpclass(a[1]) = "cr" ->
                IF Len(a) < 2 THEN s
                ELSE IF a[2] = LF THEN [out |-> s.out \o marker, ctx |-> <<>>]
                ELSE [out |-> s.out \o qpquote(a[1]), ctx |-> Tail(a)]
           [] qpclass(a[1]) = "if_last" ->
                IF Len(a) < 3 THEN s
                ELSE IF a[2] = CR /\ a[3] = LF
                THEN [out |-> s.out \o qpquote(a[1]) \o marker, ctx |-> <<>>]
                ELSE [out |-> Append(s.out, a[1]), ctx |-> Tail(a)]
           [] qpclass(a[1]) = "quoted" -> [out |-> s.out \o qpquote(a[1]), ctx |-> Tail(a)]
           [] OTHER -> [out |-> Append(s.out, a[1]), ctx |-> Tail(a)]

qpencode(s, c, marker) ==
    LET s1 == QpStep([s EXCEPT !.ctx = Append(@, c)], marker)
        s2 == QpStep(s1, marker)
    IN QpStep(s2, marker)

\* Blanks at the end of the text stay as they are.
qppad_plain(atom) ==
    FlattenSeq([i \in DOMAIN atom |->
        IF qpclass(atom[i]) \in {"plain", "if_last"} THEN <<atom[i]>> ELSE qpquote(atom[i])])
    \o IF atom = <<>> THEN <<>> ELSE EQCRLF

qppad(atom) ==
    FlattenSeq([i \in DOMAIN atom |->
        IF qpclass(atom[i]) = "plain" THEN <<atom[i]>> ELSE qpquote(atom[i])])
    \o IF atom = <<>> THEN <<>> ELSE EQCRLF

qpdecode(s, c) ==
    LET a == Append(s.ctx, c)
        emit(x) == [out |-> s.out \o x, ctx |-> <<>>]
    IN CASE a[1] = EQ ->
                IF Len(a) < 3 THEN [s EXCEPT !.ctx = a]
                ELSE IF Tail(a) = CRLF THEN emit(<<>>)
                ELSE IF qpunbase(a[2]) > 15 \/ qpunbase(a[3]) > 15 THEN emit(a)
                ELSE emit(<<qpunbase(a[2]) * 16 + qpunbase(a[3])>>)
         [] a[1] = CR ->
                IF Len(a) < 2 THEN [s EXCEPT !.ctx = a]
                ELSE emit(IF a[2] = LF THEN a ELSE <<>>)
         [] OTHER -> emit(IF a[1] = TAB \/ a[1] \in 32..126 THEN a ELSE <<>>)

-----------------------------------------------------------------------------
\* A low-level filter, called with a context and a chunk or with the end of the text.

Run(step(_, _), ctx, chunk) == FoldLeft(step, [out |-> <<>>, ctx |-> ctx], chunk)

qp_text(s, c)   == qpencode(s, c, CRLF)
qp_binary(s, c) == qpencode(s, c, qpquote(CR) \o qpquote(LF))

Lines == {"wrp", "qpwrp", "eol", "dot"}
Codes == {"b64", "unb64", "qp", "qpbin", "unqp"}

\* The context ltn12.filter.cycle starts with.
StartContext(f) ==
    CASE f \in {"wrp", "qpwrp"} -> Length [] f = "eol" -> 0 [] f = "dot" -> 2
      [] OTHER -> <<>>

\* The bytes of an atom alone, as if none came before.
low_forgets(f, ctx, chunk) ==
    CASE f = "wrp"   -> Run(wrp, ctx, chunk)
      [] f = "qpwrp" -> Run(qpwrp, ctx, chunk)
      [] f = "eol"   -> Run(eolprocess, ctx, chunk)
      [] f = "dot"   -> Run(dot, ctx, chunk)
      [] f = "b64"   -> Run(b64encode, <<>>, chunk)
      [] f = "unb64" -> Run(b64decode, <<>>, ctx \o chunk)
      [] f = "qp"    -> Run(qp_text, <<>>, chunk)
      [] f = "qpbin" -> Run(qp_binary, <<>>, chunk)
      [] f = "unqp"  -> Run(qpdecode, <<>>, ctx \o chunk)

\* The encoders and decoders run over the context again, then over the chunk.
low(f, ctx, chunk) ==
    CASE f = "wrp"   -> Run(wrp, ctx, chunk)
      [] f = "qpwrp" -> Run(qpwrp, ctx, chunk)
      [] f = "eol"   -> Run(eolprocess, ctx, chunk)
      [] f = "dot"   -> Run(dot, ctx, chunk)
      [] f = "b64"   -> Run(b64encode, <<>>, ctx \o chunk)
      [] f = "unb64" -> Run(b64decode, <<>>, ctx \o chunk)
      [] f = "qp"    -> Run(qp_text, <<>>, ctx \o chunk)
      [] f = "qpbin" -> Run(qp_binary, <<>>, ctx \o chunk)
      [] f = "unqp"  -> Run(qpdecode, <<>>, ctx \o chunk)

nil == <<-1>>   \* the context the encoders and decoders return at the end

\* The chunk is nil: unb64, unqp, eol and dot have nothing to add.
low_end(f, ctx) ==
    CASE f = "wrp"   -> [out |-> IF ctx < Length THEN CRLF ELSE <<>>, ctx |-> Length]
      [] f = "qpwrp" -> [out |-> IF ctx < Length THEN EQCRLF ELSE <<>>, ctx |-> Length]
      [] f = "b64"   -> [out |-> b64pad(ctx), ctx |-> nil]
      [] f \in {"qp", "qpbin"} -> [out |-> qppad(ctx), ctx |-> nil]
      [] f \in {"unb64", "unqp"} -> [out |-> low(f, <<>>, ctx).out, ctx |-> nil]
      [] f \in {"eol", "dot"} -> [out |-> <<>>, ctx |-> StartContext(f)]

-----------------------------------------------------------------------------
\* A filter made by ltn12.filter.cycle, fed a text and then its end.

VARIABLES
    filter,     \* the low-level filter cycled
    text, out,  \* what it was fed, and what it gave
    ctx,        \* the context the closure holds
    ended

vars == <<filter, text, out, ctx, ended>>

Init ==
    /\ filter \in Filters /\ ctx = StartContext(filter)
    /\ text = <<>> /\ out = <<>> /\ ended = FALSE

Feed(chunk) ==
    /\ ~ended /\ Len(text) + Len(chunk) <= MaxText
    /\ LET r == low(filter, ctx, chunk) IN out' = out \o r.out /\ ctx' = r.ctx
    /\ text' = text \o chunk
    /\ UNCHANGED <<filter, ended>>

End ==
    /\ ~ended
    /\ LET r == low_end(filter, ctx) IN out' = out \o r.out /\ ctx' = r.ctx
    /\ ended' = TRUE
    /\ UNCHANGED <<filter, text>>

Next == (\E chunk \in BoundedSeq(Alphabet, MaxChunk) : Feed(chunk)) \/ End

Spec == Init /\ [][Next]_vars

-----------------------------------------------------------------------------
\* Every variable holds what the code lets it hold: in particular an atom never
\* outgrows the array atom[3] or atom[4] of its function.
Bytes == 0..255
TypeOK ==
    /\ filter \in Lines \cup Codes /\ ended \in BOOLEAN
    /\ text \in Seq(Bytes) /\ out \in Seq(Bytes)
    /\ CASE filter \in {"wrp", "qpwrp"} -> ctx \in Int /\ ctx <= Length
         [] filter = "eol" -> ctx \in {0, CR, LF}
         [] filter = "dot" -> ctx \in 0..2
         [] OTHER -> IF ended THEN ctx = nil
                     ELSE ctx \in Seq(Bytes) /\ Len(ctx) <= IF filter = "unb64" THEN 3 ELSE 2

OneShot(f, t) == low(f, StartContext(f), t)
Whole(f, t) == LET r == OneShot(f, t) IN r.out \o low_end(f, r.ctx).out

\* However a text is cut into chunks, a filter that carries its context from one
\* chunk to the next gives what one call on the whole text gives: no byte is lost or
\* doubled at a boundary, where an escape, a CRLF or a group of bytes may be cut.
Incremental ==
    IF ended THEN out = Whole(filter, text)
    ELSE out = OneShot(filter, text).out /\ ctx = OneShot(filter, text).ctx

DecoderOf(f) == IF f = "b64" THEN "unb64" ELSE "unqp"

\* Every n + 1 bytes in a row have a line break among them.
LinesUpTo(s, n) == \A i \in 1 .. Len(s) - n : \E j \in i .. i + n : s[j] \in {CR, LF}

WrapperOf(f) == IF f = "b64" THEN "wrp" ELSE "qpwrp"

\* mime.decode undoes mime.encode for every text, with bare CRs and LFs, blanks at
\* the end of a line, one or two bytes in the last base64 group; and still does
\* after the chain of the manual, an encoder and then the wrap of its encoding, whose
\* lines fit and whose breaks cut no escape.
RoundTrip ==
    (ended /\ filter \in {"b64", "qp", "qpbin"}) =>
        LET wrapped == Whole(WrapperOf(filter), out) IN
        /\ Whole(DecoderOf(filter), out) = text
        /\ LinesUpTo(wrapped, Length)
        /\ Whole(DecoderOf(filter), wrapped) = text

OccursAt(p, s, i) == i + Len(p) - 1 <= Len(s) /\ SubSeq(s, i, i + Len(p) - 1) = p

\* Quoted-printable text has no bare blank at the end of a line or of the text,
\* where mail systems strip it (comment of mime_global_qp's scheme).
QuotedBlanks ==
    filter \in {"qp", "qpbin"} => \A i \in DOMAIN out :
        out[i] \in {TAB, SP} => ~OccursAt(CRLF, out, i + 1) /\ ~OccursAt(EQCRLF, out, i + 1)

\* How many bytes the line of byte i has up to it; a CR does not count.
Column(t, i) ==
    Cardinality({j \in 1..i : t[j] # CR /\ \A k \in j..i : t[k] # LF})

\* wrp breaks a line after each Length bytes of it and nowhere else, keeps the
\* line breaks of the text and ends a line that was begun.
WrapExact ==
    filter = "wrp" =>
        out = FlattenSeq([i \in DOMAIN text |->
                  IF text[i] = CR THEN <<>> ELSE IF text[i] = LF THEN CRLF
                  ELSE IF Column(text, i) > 1 /\ Column(text, i) % Length = 1 % Length
                  THEN Append(CRLF, text[i]) ELSE <<text[i]>>])
              \o IF ended /\ Column(text, Len(text)) > 0 THEN CRLF ELSE <<>>

\* The lines of what is sent are as mail systems need them: none ends in a blank and
\* none is longer than asked for.
LinesSafe == QuotedBlanks /\ WrapExact

StartsLine(s, i) == i = 1 \/ (i > 2 /\ s[i - 2] = CR /\ s[i - 1] = LF)

\* SMTP transparency: whatever the message and its chunks, CRLF.CRLF does not occur
\* in what is sent before the marker that ends the message, and the receiver, who
\* takes one dot off each line that begins with one, gets the message back.
DotTransparent ==
    filter = "dot" =>
        LET marker == CRLF \o <<DOT>> \o CRLF
            sent   == CRLF \o out \o marker
        IN /\ \A i \in DOMAIN sent : OccursAt(marker, sent, i) => i = Len(sent) - 4
           /\ text = FlattenSeq([i \in DOMAIN out |->
                         IF out[i] = DOT /\ StartsLine(out, i) THEN <<>> ELSE <<out[i]>>])

\* The text with a CRLF for each pair of bytes b1 b2, a b1 that ends it included.
Translated(t, b1, b2) ==
    FlattenSeq([i \in DOMAIN t |-> IF t[i] = b1 THEN CRLF ELSE IF t[i] = b2 THEN <<>> ELSE <<t[i]>>])

Pairs(t, b1, b2) == \A i \in DOMAIN t :
    /\ (t[i] = b1 /\ i < Len(t)) => t[i + 1] = b2
    /\ t[i] = b2 => i > 1 /\ t[i - 1] = b1

\* A run of line breaks counts as one.
Collapsed(s) ==
    FlattenSeq([i \in DOMAIN s |->
        IF s[i] \notin {CR, LF} THEN <<s[i]>>
        ELSE IF i > 1 /\ s[i - 1] \in {CR, LF} THEN <<>> ELSE <<LF>>])

\* Text of one convention (CR, LF, CRLF or LFCR) gets one marker for each of its line
\* breaks, empty lines included, even when a chunk ends between the bytes of one;
\* mixed text keeps its lines, but for how many of them are empty.
EolLines ==
    filter = "eol" =>
        /\ LF \notin Range(text) => out = Translated(text, CR, LF)
        /\ CR \notin Range(text) => out = Translated(text, LF, CR)
        /\ Pairs(text, CR, LF) => out = Translated(text, CR, LF)
        /\ Pairs(text, LF, CR) => out = Translated(text, LF, CR)
        /\ Collapsed(out) = Collapsed(text)

=============================================================================
