----------------------------- MODULE MCSdkTools -----------------------------
(* TLC instances of SdkTools. *)
EXTENDS SdkTools

Layout(openai, anthropic) == [p \in Providers |-> IF p = "openai" THEN openai ELSE anthropic]
MCLayouts == {Layout("live", "live"), Layout("own", "static"), Layout("absent", "refusing")}
LiveLayout == {Layout("live", "live")}

Job(wrap, prov, stream, answer) ==
    [wrap |-> wrap, prov |-> prov, stream |-> stream, answer |-> answer,
     layered |-> FALSE, manual |-> FALSE]

Part(t) == Chunk("chunk", {t}, "none")
Text    == Chunk("text", {}, "none")
End(f)  == Chunk("text", {}, f)
Usage   == Chunk("text", {}, "none")
Cut     == Chunk("cut", {}, "none")
Custom  == Chunk("custom", {2}, "none")
Beside(ch, rest) == [ch EXCEPT !.rest = rest]   \* a chunk with further choices

\* OpenAI: two calls in parts, one that ends in its last part, text, a cut stream;
\* two choices, in chunks of their own and side by side.
OpenAIStreams ==
    {<<Part(1), Part(2), Part(1), End("tool")>>,
     <<Text, Chunk("chunk", {1, 2}, "none"), Chunk("chunk", {2}, "tool"), Usage>>,
     <<Part(1), End("stop"), Usage>>, <<Text, Text, End("stop")>>, <<Part(1), Cut>>, <<Custom, End("tool")>>,
     <<Part(1), Part(2), End("tool"), Part(2), End("tool"), Usage>>,
     <<Beside(Part(1), {3}), Beside(End("tool"), {3})>>}

OpenAIAnswers == {<<Text, Part(1), Part(2), End("tool")>>, <<Part(1), Custom, End("tool")>>,
                  <<Custom, End("tool")>>, <<Text, End("length")>>, <<Text, Beside(End("stop"), {3})>>,
                  <<Part(1), Beside(End("tool"), {3})>>}

Block(t) == <<Chunk("content_block_start", {t}, "none"), Chunk("content_block_delta", {t}, "none"),
              Chunk("content_block_stop", {t}, "none")>>
Trailer(f) == <<Chunk("message_delta", {}, f), Chunk("message_stop", {}, "none")>>

AnthropicStreams ==
    {<<Text>> \o Block(1) \o Block(2) \o Trailer("tool"), Block(1) \o <<Text>> \o Trailer("length"),
     <<Text>> \o Trailer("stop"), Block(1) \o <<Cut>>}

AnthropicAnswers == {<<Text, Part(1), Part(2), End("tool")>>, <<Part(1), End("length")>>}

Models == {Job(bare, "openai", TRUE, s) : s \in OpenAIStreams}
    \cup {Job(bare, "openai", FALSE, a) : a \in OpenAIAnswers}
    \cup {Job(bare, "anthropic", TRUE, s) : s \in AnthropicStreams}
    \cup {Job(bare, "anthropic", FALSE, a) : a \in AnthropicAnswers}

Relayed == {[Job(wrapOpenAIClient(FALSE), "openai", TRUE, s) EXCEPT !.manual = m] :
               s \in OpenAIStreams, m \in BOOLEAN}
    \cup {[Job(beforeGenerate(FALSE, r), "ai-sdk", TRUE, s) EXCEPT !.manual = m] :
               r \in {"iterable", "readable", "unknown"}, m \in BOOLEAN,
               s \in {<<Part(1), Part(1), End("tool")>>, <<Part(1), Cut>>}}

Guarded == {Job(w, "none", FALSE, <<>>) :
               w \in {AgentumPolicyTool(TRUE), AgentumPolicyTool(FALSE), withAgentumGuard,
                      policyFunctionTool, agentumTool, auditToolCall(TRUE), auditToolCall(FALSE),
                      AgentumAssistantRunner}}
    \cup {[Job(runGuarded(d), "none", FALSE, <<>>) EXCEPT !.layered = TRUE] :
               d \in {"throw", "string", "empty"}}
    \cup {Job(wrapOpenAIClient(TRUE), "openai", FALSE, <<Part(1), End("tool")>>),
          Job(beforeGenerate(TRUE, "none"), "ai-sdk", FALSE, <<Text, End("stop")>>),
          Job(beforeGenerate(TRUE, "iterable"), "ai-sdk", TRUE, <<Part(1), End("tool")>>)}

MCJobs == Models \cup Relayed \cup Guarded
ChoiceJobs == {Job(bare, "openai", FALSE, <<Part(1), Beside(End("tool"), {3})>>)}
TextJobs == {Job(bare, "openai", TRUE, <<Text, Text, End("stop")>>)}
=============================================================================
