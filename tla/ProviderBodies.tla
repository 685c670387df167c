--------------------------- MODULE ProviderBodies ---------------------------
(***************************************************************************)
(* instrumentation/provider-extractors.ts and the part of host-registry.ts *)
(* that chooses among its formats: which tool calls are read out of a JSON *)
(* request or answer, and how an answer is rewritten once each of them has *)
(* a verdict.                                                              *)
(*                                                                         *)
(* A body is a sequence of blocks: a positive number is a tool call (the   *)
(* number is its name and arguments), Nameless a tool call whose name is   *)
(* no string, Text anything else, Notice the text that replaced a call.    *)
(* Formats that keep their calls apart from the text (openai, cohere) are  *)
(* sequences too: only the order of their calls matters.                   *)
(*                                                                         *)
(* An answer of openai-chat or gemini-generate holds several messages when *)
(* several choices (candidates) were asked for.  Its blocks are those of   *)
(* choices[0] (candidates[0]), the only ones the code reads or rewrites;   *)
(* its others are those of the rest, which pass as they came.              *)
(*                                                                         *)
(* "bedrock-other" is the shape bedrock-invoke with a payload that is not  *)
(* Anthropic's.                                                            *)
(***************************************************************************)
EXTENDS Integers, Sequences, FiniteSets, SequencesExt

Text == 0
Nameless == -1
Notice == -2

\* What classifyUrl makes of an LLM URL, by the API behind it.
Shapes == {"openai-chat", "openai-responses", "anthropic-messages", "cohere-chat",
           "gemini-generate", "bedrock-converse", "bedrock-invoke", "bedrock-other"}

\* Providers the PDP proxy has an upstream for.
pdpProxyProvider(shape) ==
    shape \notin {"bedrock-converse", "bedrock-invoke", "bedrock-other"}

\* openai-responses is read as openai-chat, but has neither messages nor
\* choices; a payload of bedrock-invoke is sniffed for Anthropic's fields.
Readable(shape) == shape \notin {"openai-responses", "bedrock-other"}

IsCall(b)  == b > 0 \/ b = Nameless
IsNamed(b) == b > 0

\* The calls of earlier turns that a request repeats, all its messages read.
extractRequestToolCalls(shape, body) ==
    IF Readable(shape) THEN SelectSeq(body, IsNamed) ELSE <<>>

\* The formats whose answers may hold more than one message.
Multiple(shape) == shape \in {"openai-chat", "gemini-generate"}

\* The blocks whose calls are read out of the first message of an answer:
\* openai maps every tool call, the others skip the ones without a name.
extractResponseToolCalls(shape, body) ==
    {n \in DOMAIN body : /\ Readable(shape)
                         /\ IF shape = "openai-chat" THEN IsCall(body[n]) ELSE IsNamed(body[n])}

\* The blocks the rewriter looks at: tool_calls entries, tool_use blocks or
\* functionCall parts; only bedrock-converse wants a name.
Visited(shape, body) ==
    {n \in DOMAIN body : IF shape = "bedrock-converse" THEN IsNamed(body[n]) ELSE IsCall(body[n])}

\* The place of n among the numbers S, and the number at place i.
Rank(S, n) == Cardinality({m \in S : m <= n})
Nth(S, i)  == CHOOSE n \in S : Rank(S, n) = i

(* Mutant: the cursor also counts the blocks of text. *)
CursorEveryBlock(shape, body, n) == n

\* Which verdict the rewriter applies to block n: it counts those it visits.
Cursor(shape, body, n) == Rank(Visited(shape, body), n)

\* anthropicRewrite dereferences the verdict it has for every tool_use block.
rewriteThrows(shape, body, decisions) ==
    /\ shape \in {"anthropic-messages", "bedrock-invoke"}
    /\ \E n \in Visited(shape, body) : Cursor(shape, body, n) \notin DOMAIN decisions

rewriteBlocks(shape, body, decisions) ==
    [n \in DOMAIN body |->
        IF /\ n \in Visited(shape, body)
           /\ Cursor(shape, body, n) \in DOMAIN decisions
           /\ decisions[Cursor(shape, body, n)] = "deny"
        THEN Notice ELSE body[n]]

\* With no call left the turn is over: openai says stop whatever it said
\* before, the others only when they said that a tool is to be used.
finishReason(shape, blocks, reason) ==
    IF Visited(shape, blocks) # {} THEN reason
    ELSE IF shape = "openai-chat" \/ reason = "tool" THEN "stop" ELSE reason

\* The rest of the answer, its further choices included, stays as it was.
rewriteResponseBody(shape, answer, decisions) ==
    LET blocks == rewriteBlocks(shape, answer.blocks, decisions)
    IN  [answer EXCEPT !.blocks = blocks, !.reason = finishReason(shape, blocks, answer.reason)]
=============================================================================
