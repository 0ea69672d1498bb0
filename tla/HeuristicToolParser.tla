------------------------ MODULE HeuristicToolParser ------------------------
(***************************************************************************)
(* The parser that finds tool calls which a model writes as text:          *)
(*                                                                         *)
(*    * <function=Name><parameter=key>value</parameter>                    *)
(*                                                                         *)
(* where * is the bullet that announces a call.                            *)
(*                                                                         *)
(* Source: core/anthropic/tools.py.                                        *)
(*                                                                         *)
(* A text is a sequence of characters; "o" stands for the bullet, "f" for  *)
(* the word "function", "p" for "parameter", " " for any white space.      *)
(***************************************************************************)
EXTENDS ThinkTagParser

CONSTANTS
    MaxHeld,    \* the longest text kept while a call may begin in it (100)
    MaxToken    \* the longest name of a control token (80)

ASSUME LimitsAssumption == MaxHeld \in Nat /\ MaxToken \in Nat

BULLET == "o"
FUNCTION_START == <<"<", "f", "=">>
PARAM_START == <<"<", "p", "=">>
PARAM_END == <<"<", "/", "p", ">">>
CONTROL_TOKEN_START == <<"<", "|">>
CONTROL_TOKEN_END == <<"|", ">">>

Occurs(t, s) == Find(s, t) # 0

\* str.strip
Trim(s) ==
    LET Inked == {i \in DOMAIN s : s[i] # " "}
    IN  IF Inked = {} THEN <<>> ELSE SubSeq(s, Min(Inked), Max(Inked))

\* re.search for a pattern that begins with the character first and ends with ">": where
\* its first match begins and ends.
Search(s, first, Match(_)) ==
    LET Places(c) == {i \in DOMAIN s : s[i] = c}
        Spans == {x \in Places(first) \X Places(">") :
                      x[1] < x[2] /\ Match(SubSeq(s, x[1], x[2]))}
    IN  IF Spans = {} THEN <<0, 0>>
        ELSE CHOOSE x \in Spans : \A y \in Spans :
                 x[1] < y[1] \/ (x[1] = y[1] /\ x[2] <= y[2])

\* _CONTROL_TOKEN_RE
IsControlToken(s) ==
    /\ Len(s) - 4 \in 1..MaxToken
    /\ IsPrefix(CONTROL_TOKEN_START, s) /\ IsSuffix(CONTROL_TOKEN_END, s)
    /\ \A i \in 3..(Len(s) - 2) : s[i] \notin {"|", ">"}

\* A tag that begins as start does and has a name: its name, as a place.
IsTag(s, start) ==
    /\ IsPrefix(start, s) /\ Len(s) > Len(start) + 1
    /\ SelectInSeq(s, LAMBDA c : c = ">") = Len(s)

NameIn(s, start) == Trim(SubSeq(s, Len(start) + 1, Len(s) - 1))

\* _FUNC_START_PATTERN
IsFuncStart(s) ==
    \E k \in DOMAIN s : /\ \A i \in 2..k : s[i] = " "
                        /\ IsTag(From(s, k + 1), FUNCTION_START)

IsParamStart(s) == IsTag(s, PARAM_START)

-----------------------------------------------------------------------------
(* The parser: its fields, and what a call of feed or flush has returned.  *)

ParserState == {"TEXT", "MATCHING_FUNCTION", "PARSING_PARAMETERS"}

\* A dict of parameters, as the keys and values that were put into it, in this order.
Assignments == Seq(Texts \X Texts)

HeuristicToolParsers ==
    [state : ParserState, buffer : Texts, name : Texts, parameters : Assignments,
     shown : Texts, tools : Seq([name : Texts, parameters : Assignments])]

NewHeuristicToolParser ==
    [state |-> "TEXT", buffer |-> <<>>, name |-> <<>>, parameters |-> <<>>,
     shown |-> <<>>, tools |-> <<>>]

_strip_control_tokens[s \in Texts] ==
    LET token == Search(s, "<", IsControlToken)
    IN  IF token[1] = 0 THEN s
        ELSE Before(s, token[1]) \o _strip_control_tokens[From(s, token[2] + 1)]

\* The text before place i is passed on, the buffer goes on from place j.
Show(h, i, j) ==
    [h EXCEPT !.shown = @ \o Before(h.buffer, i), !.buffer = From(h.buffer, j)]

\* _split_incomplete_control_token_tail: a beginning of a control token is kept for the
\* next chunk, if some text comes before it.
SplitTail(h) ==
    LET Starts == {i \in DOMAIN h.buffer : IsPrefix(CONTROL_TOKEN_START, From(h.buffer, i))}
        keep == /\ Starts # {} /\ Max(Starts) # 1
                /\ ~Occurs(CONTROL_TOKEN_END, From(h.buffer, Max(Starts)))
        end == IF keep THEN Max(Starts) ELSE Len(h.buffer) + 1
    IN  Show(h, end, end)

Text(h) ==
    LET bullet == Find(h.buffer, <<BULLET>>)
    IN  IF bullet # 0 THEN [Show(h, bullet, bullet) EXCEPT !.state = "MATCHING_FUNCTION"]
        ELSE SplitTail(h)

\* Mutant: what may be the beginning of a call is kept however long it grows.
MutantIsTooLong(s) == FALSE

IsTooLong(s) == Len(s) > MaxHeld

\* What precedes the call in the buffer is dropped.
MatchFunction(h) ==
    LET func == Search(h.buffer, BULLET, IsFuncStart)
        tag == SubSeq(h.buffer, Find(From(h.buffer, func[1]), FUNCTION_START) + func[1] - 1,
                      func[2])
    IN  IF func[1] # 0
          THEN [h EXCEPT !.name = NameIn(tag, FUNCTION_START),
                         !.parameters = <<>>,
                         !.buffer = From(h.buffer, func[2] + 1),
                         !.state = "PARSING_PARAMETERS"]
        ELSE IF IsTooLong(h.buffer) THEN [Show(h, 2, 2) EXCEPT !.state = "TEXT"]
        ELSE h

\* The parameters that are complete.
TakeParameters[h \in HeuristicToolParsers] ==
    LET start == Search(h.buffer, "<", IsParamStart)
        end == Find(From(h.buffer, start[2] + 1), PARAM_END)
        value == Before(From(h.buffer, start[2] + 1), end)
        key == NameIn(SubSeq(h.buffer, start[1], start[2]), PARAM_START)
    IN  IF start[1] = 0 \/ end = 0 THEN h
        ELSE TakeParameters[
               [Show(h, start[1], start[2] + end + Len(PARAM_END)) EXCEPT
                  !.parameters = Append(@, <<key, Trim(value)>>)]]

\* The call, as it is returned.
Detect(h) ==
    [h EXCEPT !.state = "TEXT",
              !.tools = Append(@, [name |-> h.name, parameters |-> h.parameters])]

\* Mutant: a parameter is taken to begin a new text when its tag is not complete.
MutantFinishes(s) ==
    s # <<>> /\ ~IsPrefix(PARAM_START, Trim(s))

\* A call ends with the first text that cannot begin a parameter.
Finishes(s) ==
    s # <<>> /\ ~IsPrefix(<<"<">>, Trim(s)) /\ ~Occurs(PARAM_START, s)

ParseParameters(h) ==
    LET q == TakeParameters[h]
        bullet == Find(q.buffer, <<BULLET>>)
    IN  IF bullet # 0 THEN Detect(Show(q, bullet, bullet))
        ELSE IF Finishes(q.buffer)
          THEN Detect(Show(q, Len(q.buffer) + 1, Len(q.buffer) + 1))
        ELSE q

Turn(h) ==
    CASE h.state = "TEXT" -> Text(h)
      [] h.state = "MATCHING_FUNCTION" -> MatchFunction(h)
      [] h.state = "PARSING_PARAMETERS" -> ParseParameters(h)

\* The loop of feed: it ends when the state stays what it is.
Turns[h \in HeuristicToolParsers] ==
    LET q == Turn(h)
    IN  IF q.state = h.state THEN q ELSE Turns[q]

\* HeuristicToolParser.feed
feedTools(h, text) ==
    Turns[[h EXCEPT !.buffer = _strip_control_tokens[@ \o text],
                    !.shown = <<>>, !.tools = <<>>]]

\* HeuristicToolParser.flush: a call is completed, any other text is left.
flushTools(h) ==
    LET s == _strip_control_tokens[h.buffer]
        start == Search(s, "<", IsParamStart)
        last == IF start[1] = 0 THEN <<>>
                ELSE << <<NameIn(SubSeq(s, start[1], start[2]), PARAM_START),
                          Trim(From(s, start[2] + 1))>> >>
    IN  IF h.state = "PARSING_PARAMETERS"
          THEN Detect([h EXCEPT !.buffer = <<>>, !.parameters = @ \o last,
                                !.shown = <<>>, !.tools = <<>>])
          ELSE [h EXCEPT !.buffer = s, !.shown = <<>>, !.tools = <<>>]
=============================================================================
