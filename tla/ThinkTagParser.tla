--------------------------- MODULE ThinkTagParser ---------------------------
(***************************************************************************)
(* The parser that separates a model's thinking from its answer while both *)
(* arrive as one text, cut into chunks anywhere.                           *)
(*                                                                         *)
(* Source: core/anthropic/thinking.py.                                     *)
(*                                                                         *)
(* A text is a sequence of characters, each of them a string here; "t"     *)
(* stands for the word "think".                                            *)
(* What a call of the parser yields is a sequence of ContentChunks.        *)
(***************************************************************************)
EXTENDS Naturals, Sequences, SequencesExt

Texts == Seq(STRING)

OPEN_TAG == <<"<", "t", ">">>
CLOSE_TAG == <<"<", "/", "t", ">">>

\* The first place from which t is found in s, 0 if there is none.
Find(s, t) ==
    LET At == {i \in DOMAIN s : IsPrefix(t, SubSeq(s, i, Len(s)))}
    IN  IF At = {} THEN 0 ELSE Min(At)

\* The last place at which s has the character c, 0 if there is none.
FindLast(s, c) == SelectLastInSeq(s, LAMBDA x : x = c)

Before(s, i) == SubSeq(s, 1, i - 1)
From(s, i) == SubSeq(s, i, Len(s))

ContentChunk(type, content) == [type |-> type, content |-> content]

\* The parser: its buffer, its mode, and what its last call yielded.
ThinkTagParsers ==
    [buffer : Texts, inside : BOOLEAN,
     yielded : Seq([type : {"text", "thinking"}, content : Texts])]

NewThinkTagParser == [buffer |-> <<>>, inside |-> FALSE, yielded |-> <<>>]

Mode(inside) == IF inside THEN "thinking" ELSE "text"

Yield(p, s) ==
    IF s = <<>> THEN p
    ELSE [p EXCEPT !.yielded = Append(@, ContentChunk(Mode(p.inside), s))]

\* The text before place i is yielded, that of the tag is dropped.
Consume(p, i, tag) ==
    [Yield(p, Before(p.buffer, i)) EXCEPT !.buffer = From(p.buffer, i + Len(tag))]

\* Mutant: only the closing tag is kept for the next chunk.
MutantHeldFrom(p) ==
    LET last == FindLast(p.buffer, "<")
    IN  IF last # 0 /\ IsStrictPrefix(From(p.buffer, last), CLOSE_TAG)
          THEN last ELSE Len(p.buffer) + 1

\* The end of the buffer that may be the beginning of a tag.
HeldFrom(p) ==
    LET last == FindLast(p.buffer, "<")
        tags == IF p.inside THEN {CLOSE_TAG} ELSE {OPEN_TAG, CLOSE_TAG}
    IN  IF last # 0 /\ \E tag \in tags : IsStrictPrefix(From(p.buffer, last), tag)
          THEN last ELSE Len(p.buffer) + 1

\* No tag is there: all is yielded but what may be the beginning of one.
Hold(p) == Consume(p, HeldFrom(p), <<>>)

\* _parse_outside_think: a closing tag that comes first is dropped.
_parse_outside_think(p) ==
    LET think_start == Find(p.buffer, OPEN_TAG)
        orphan_close == Find(p.buffer, CLOSE_TAG)
    IN  IF orphan_close # 0 /\ (think_start = 0 \/ orphan_close < think_start)
          THEN Consume(p, orphan_close, CLOSE_TAG)
        ELSE IF think_start # 0
          THEN [Consume(p, think_start, OPEN_TAG) EXCEPT !.inside = TRUE]
        ELSE Hold(p)

_parse_inside_think(p) ==
    LET think_end == Find(p.buffer, CLOSE_TAG)
    IN  IF think_end # 0
          THEN [Consume(p, think_end, CLOSE_TAG) EXCEPT !.inside = FALSE]
          ELSE Hold(p)

ParseOnce(p) == IF p.inside THEN _parse_inside_think(p) ELSE _parse_outside_think(p)

\* The loop of feed: it ends when a turn leaves the buffer as it was.
Parse[p \in ThinkTagParsers] ==
    LET q == ParseOnce(p)
    IN  IF q.buffer = p.buffer THEN q ELSE Parse[q]

feed(p, content) == Parse[[p EXCEPT !.buffer = @ \o content, !.yielded = <<>>]]

flush(p) == Consume([p EXCEPT !.yielded = <<>>], Len(p.buffer) + 1, <<>>)

-----------------------------------------------------------------------------
(* What it is for: the text read one character after the other.            *)

OfKind(kind, s) == [i \in DOMAIN s |-> <<kind, s[i]>>]

\* One who reads a text, and whether what comes now is inside of a thinking.
Readers == [text : Texts, inside : BOOLEAN]
Reader(s, inside) == [text |-> s, inside |-> inside]

\* What is read: the characters with their kinds, tags left out.
Reading[r \in Readers] ==
    CASE r.text = <<>> -> <<>>
      [] IsPrefix(CLOSE_TAG, r.text) ->
           Reading[Reader(From(r.text, Len(CLOSE_TAG) + 1), FALSE)]
      [] ~r.inside /\ IsPrefix(OPEN_TAG, r.text) ->
           Reading[Reader(From(r.text, Len(OPEN_TAG) + 1), TRUE)]
      [] OTHER ->
           OfKind(Mode(r.inside), <<Head(r.text)>>) \o Reading[Reader(Tail(r.text), r.inside)]

Separated(s, inside) == Reading[Reader(s, inside)]

=============================================================================
