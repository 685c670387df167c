---------------------------- MODULE MCHttpEgress ----------------------------
(* TLC instances of HttpEgress. *)
EXTENDS HttpEgress, TLC

Request(plane, kind, shape, calls, body, vault) ==
    [plane |-> plane, kind |-> kind, shape |-> shape, calls |-> calls, body |-> body,
     vault |-> vault, callback |-> FALSE]

\* Every format on every plane; placeholders on the fetch plane; bodies that are
\* not read and bodies that cannot be.
MCWorkload ==
    {Request(p, "llm", "openai-chat", <<1, 2>>, "text", "none") : p \in Planes}
    \cup {Request("undici", "llm", s, <<>>, "text", "none") : s \in Shapes \ {"openai-chat"}}
    \cup {Request(p, "llm", "anthropic-messages", <<1>>, "stream", "none") : p \in {"fetch", "undici"}}
    \cup {Request("fetch", k, "openai-chat", <<>>, "text", v) :
             k \in {"llm", "proxy", "plain"}, v \in {"init", "request", "body"}}
    \cup {Request(p, "llm", "gemini-generate", <<1>>, "malformed", "none") : p \in Planes}
    \cup {Request("undici", "embed", "openai-chat", <<>>, "text", "none")}
    \cup {Request(p, "plain", "openai-chat", <<>>, "text", "none") : p \in {"node", "undici"}}

MCCallback == {[Request("node", "llm", "openai-chat", <<1>>, "text", "none") EXCEPT !.callback = TRUE]}

Ans(type, ok, gateway, blocks, reason) ==
    [type |-> type, ok |-> ok, gateway |-> gateway, blocks |-> blocks, others |-> <<>>,
     reason |-> reason]

\* A second choice, and it calls a tool.
MCChoices == {[Ans("json", TRUE, FALSE, <<3>>, "tool") EXCEPT !.others = <<4>>]}

MCAnswers ==
    {Ans("json", TRUE, gw, <<0, 3, 0, 4>>, "tool") : gw \in BOOLEAN}
    \cup {Ans("json", FALSE, FALSE, <<3>>, "tool"),
          Ans("json", TRUE, FALSE, <<0>>, "stop"), Ans("json", TRUE, FALSE, <<3>>, "length"),
          Ans("stream", TRUE, FALSE, <<>>, "stop"), Ans("null", TRUE, FALSE, <<>>, "stop"),
          Ans("other", TRUE, FALSE, <<>>, "stop")}
    \cup MCChoices

\* An answer with a call that has no name, before the others and after them.
MCNameless ==
    {Ans("json", TRUE, FALSE, <<Nameless, 3, 4>>, "tool"), Ans("json", TRUE, FALSE, <<3, Nameless>>, "tool")}

MCConfigs ==
    [failMode : {"allow", "deny"}, proxied : BOOLEAN, capture : {"raw"},
     sync : {TRUE}, passthrough : {{}}]
    \cup [failMode : {"deny"}, proxied : {FALSE}, capture : {"off", "masked"},
          sync : {FALSE}, passthrough : {{"openai"}}]
=============================================================================
