--------------------------- MODULE MCLiveStream ---------------------------
(* Small instances of LiveStream: the requests and the texts.              *)
EXTENDS LiveStream

Value == <<"x", "&", "a", "u", "v">>
ParamOf(attr, value) == <<"<", "P", attr, ">">> \o value \o ParamEnd
Invoke(params) == <<"<", "I", "name", ">">> \o params \o InvokeEnd
Block(invokes) == ToolStart \o invokes \o ToolEnd

OneCall == Block(Invoke(ParamOf("str", Value)))
TwoCalls == Block(Invoke(ParamOf("raw", <<"x">>) \o <<"n">> \o ParamOf("str", <<>>)) \o Invoke(<<>>))
Nameless == Block(<<"<", "I", ">">> \o InvokeEnd)
Torn == Block(Invoke(<<"x">>))

Thoughts == {<<>>, ThinkOpen \o <<"x", "u", "v">> \o ThinkClose, <<"x">> \o ThinkClose}
Answers == {<<>>, <<"x", "u", "v", "n">>, <<"<", "x", "n", "x", "x">>, ToolEnd \o <<"x">>}
Tools == {<<>>, OneCall, TwoCalls, Nameless, Torn}

MCTurns == {h \o a \o t : h \in Thoughts, a \in Answers, t \in Tools}

MCRequests ==
    [api : {"openai", "anthropic"}, think : BOOLEAN, tools : BOOLEAN,
     stops : {{}, {<<"x", "x">>, <<"n">>}}]
    \cup [api : {"plain"}, think : {FALSE}, tools : {FALSE},
          stops : {{}, {<<"n">>}, {<<"u", "v", "n">>, <<"n", "x", "x">>}}]

\* What the theorem about SentStands asks of texts and stop sequences.
ASSUME MCCharacters == CharactersWhole
=============================================================================
