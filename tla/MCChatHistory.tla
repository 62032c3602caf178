--------------------------- MODULE MCChatHistory ---------------------------
(* Clients of both APIs, each with its settings, which it sends every time. *)
EXTENDS ChatHistory

\* A key the client leaves out is "".
Body(thinking, effort, tools, model) ==
    SelectSeq(<<<<"model", model>>, <<"thinking", thinking>>, <<"seed", "1">>, <<"effort", effort>>,
                <<"tools", IF tools = "" THEN "" ELSE "some">>,
                <<"tool_choice", IF tools = "none" THEN "none" ELSE "">> >>,
              LAMBDA pair : pair[2] # "")
Usual(api) ==
    [api |-> api, body |-> Body("", "", "some", ""), large |-> TRUE, earlier |-> "none",
     keeps |-> TRUE, roleFirst |-> TRUE, parts |-> FALSE]
OtherClients(usual) ==
    {[usual EXCEPT !.roleFirst = FALSE], [usual EXCEPT !.parts = TRUE],
     [usual EXCEPT !.body = Body("", "", "none", ""), !.earlier = "tool"],
     [usual EXCEPT !.body = Body("null", "max", "", "deepseek-chat")],
     [usual EXCEPT !.body = Body("", "max", "some", "deepseek-reasoner"), !.large = FALSE],
     [usual EXCEPT !.body = Body("on", "low", "", "deepseek-chat")],
     [usual EXCEPT !.body = Body("", "null", "", "deepseek-chat")],
     [usual EXCEPT !.body = Body("on", "", "", "") \o Body("off", "odd", "", "") \o Body("", "max", "", "")],
     [usual EXCEPT !.body = Body("off", "", "", "") \o Body("on", "", "some", "")]}
MCClients ==
    UNION {OtherClients(Usual(api)) : api \in {"openai", "anthropic"}}
    \cup {[Usual(api) EXCEPT !.body = Body(thinking, "", tools, ""), !.keeps = keeps, !.earlier = earlier] :
              api \in {"openai", "anthropic"}, thinking \in {"", "off"}, tools \in {"", "some"},
              keeps \in BOOLEAN, earlier \in {"none", "plain", "tool", "greeting"}}

MCReplies ==
    { <<"reason", "</think>", "say">>, <<"</think>", "say">>, <<"say">>, <<"reason", "</think>">>, <<"reason">>,
      <<"reason", "</think>", "say", "space", "para", "block", "say">>, <<"</think>", "say", "block">>,
      <<"say", "para", "block">>, <<"reason", "</think>", "say", "para", "broken", "say">> }
=============================================================================
