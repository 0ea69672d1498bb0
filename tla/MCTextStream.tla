---------------------------- MODULE MCTextStream ----------------------------
(* Model checking of TextStream: answers of all characters up to a length, and *)
(* answers that are put together of meaningful parts.                          *)
EXTENDS TextStream, TLC

Part(kind, meant, written) == [kind |-> kind, meant |-> meant, written |-> written]
Call(name, input, written) == Part("call", [name |-> name, input |-> input], written)

Parameter(key, value) == PARAM_START \o key \o <<">">> \o value \o PARAM_END
Function(name) == <<BULLET>> \o FUNCTION_START \o name \o <<">">>

Words == Part("text", <<"a">>, <<"a">>)
Thought == Part("thinking", Function(<<"x">>), OPEN_TAG \o Function(<<"x">>) \o CLOSE_TAG)
Plain == Call(<<"x">>, <<>>, Function(<<"x">>))
WithParameter == Call(<<"x">>, <<"k">> :> <<"v">>,
                      <<BULLET, " ">> \o Tail(Function(<<"x">>))
                                      \o Parameter(<<"k">>, <<"v">>))

Parts ==
  { Words, Thought, Plain, WithParameter,
    Part("text", <<" ">>, <<" ">>),
    Part("thinking", <<"b">>, OPEN_TAG \o <<"b">> \o CLOSE_TAG),
    Call(TASK, RUN_IN_BACKGROUND :> <<FALSE>>,
         Function(TASK) \o Parameter(RUN_IN_BACKGROUND, <<"v">>)),
    Call(<<"x">>, (<<"k">> :> <<"v", ">">>) @@ (<<"l">> :> <<>>),
         Function(<<"x">>) \o Parameter(<<"k">>, <<" ", "v", ">">>)
                           \o Parameter(<<"l">>, <<>>)) }

Raw(s) == <<Part("raw", s, s)>>

\* One or two meaningful parts, or three of the simplest; short texts with tags, and short
\* texts with what tool calls and control tokens are made of, before or in a call; and longer
\* ones with bullets that begin no call.
MCAnswers ==
    BoundedSeq(Parts, 2)
    \cup [1..3 -> {Words, Plain, WithParameter}]
    \cup {Raw(s) : s \in BoundedSeq({"<", "t", "/", ">", "a"}, 5)}
    \cup {Raw(s) : s \in BoundedSeq({"<", "|", ">", "o", "a"}, 4)}
    \cup {Raw(Function(<<"x">>) \o s) : s \in BoundedSeq({"<", "p", "o", "a", " "}, 3)}
    \cup {Raw(<<BULLET>> \o s) : s \in [1..7 -> {"o", "a"}]}
=============================================================================
