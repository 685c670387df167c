---------------------------- MODULE WireParsers ----------------------------
(***************************************************************************)
(* The six streaming parsers of instrumentation/wire-parsers.ts, as the    *)
(* events each of them produces for one frame of a model's answer.         *)
(*                                                                         *)
(* A frame is one SSE block or one AWS event-stream message; frame n is    *)
(* the n-th one the upstream sends.  Its type is what its JSON says:       *)
(*   start, args, stop   a tool call begins, gets arguments, is closed     *)
(*   text, other         text; anything no parser knows (ping, metadata)   *)
(*   reason, done        the stop reason; the frame that ends the message  *)
(*   cand, last          a Gemini candidate without, with a finishReason   *)
(*   cut                 bytes the stream ended in the middle of           *)
(* The arguments of a call are the pieces 1..ArgPieces of its JSON text.   *)
(* OpenAI's parser reads choices[0] and in it tool_calls[0], Gemini's      *)
(* candidates[0]: .type and .calls are theirs.  What else such a frame     *)
(* carries makes no event and goes where the frame goes.                   *)
(*                                                                         *)
(* The parsers see the bytes in the order of arrival on every plane, so    *)
(* what a parser remembers when it meets frame n (toolUseIndices) is a     *)
(* function of the frames before n.                                        *)
(***************************************************************************)
EXTENDS Integers, Sequences

CONSTANTS
    MaxCalls,   \* bound: tool calls of one answer
    ArgPieces   \* pieces the arguments of a call are streamed in

ASSUME WireAssumption == MaxCalls \in Nat /\ ArgPieces \in Nat \ {0}

Calls == 0 .. MaxCalls - 1

\* The index of a block that is no tool call, and the raw bytes of an event
\* whose frame another event already carries.
TextBlock   == -1
EMPTY_FRAME == 0

\* The complete JSON text of a call's arguments.
Whole == [p \in 1..ArgPieces |-> p]

Providers == {"openai", "anthropic", "cohere", "gemini", "bedrock-converse", "bedrock-invoke"}

WireFrame(type, calls, args) == [type |-> type, calls |-> calls, args |-> args]

Index(f) == IF f.calls = <<>> THEN TextBlock ELSE f.calls[1]

WireEvent(kind, index, deltaJson, rawFrame) ==
    [kind |-> kind, index |-> index, deltaJson |-> deltaJson, rawFrame |-> rawFrame]

\* One event that carries the whole frame; what a table does not name passes through.
Mapped(table, f, n) ==
    <<WireEvent(IF f.type \in DOMAIN table THEN table[f.type] ELSE "passthrough",
                Index(f), f.args, n)>>

\* The blocks opened as tool_use and not yet stopped when frame n is parsed.
ToolUseIndices(wire, n) ==
    {c \in Calls : \E i \in 1 .. n - 1 :
        /\ wire[i].type = "start" /\ Index(wire[i]) = c
        /\ ~\E j \in i + 1 .. n - 1 : wire[j].type = "stop" /\ Index(wire[j]) = c}

----------------------------------------------------------------------------
(* The parsers. *)

\* A chunk that names a call begins it: the arguments it may carry are not
\* accumulated.  finish_reason and [DONE] are both finish events.
OpenAISSEParser(wire, n) ==
    LET f == wire[n]
        e == Mapped([start |-> "tool-call-start", args |-> "tool-call-arguments",
                     text |-> "text-delta", reason |-> "finish", done |-> "finish"], f, n)
    IN  IF f.type = "start" THEN <<[e[1] EXCEPT !.deltaJson = <<>>]>> ELSE e

\* message_delta, with the stop reason, passes through; message_stop finishes.
MapAnthropicChunkObject(wire, n) ==
    LET f == wire[n]
    IN  IF f.type = "stop" /\ Index(f) \in ToolUseIndices(wire, n)
        THEN <<WireEvent("tool-call-end", Index(f), <<>>, n)>>
        ELSE Mapped([start |-> "tool-call-start", args |-> "tool-call-arguments",
                     text |-> "text-delta", done |-> "finish"], f, n)

\* tool-call-start may carry the first arguments, tool-call-delta none.
CohereV2SSEParser(wire, n) ==
    LET f == wire[n]
    IN  CASE f.type = "start" ->
               <<WireEvent("tool-call-start", Index(f), <<>>, n)>> \o
               (IF f.args = <<>> THEN <<>>
                ELSE <<WireEvent("tool-call-arguments", Index(f), f.args, EMPTY_FRAME)>>)
          [] f.type = "args" /\ f.args = <<>> ->
               <<WireEvent("passthrough", Index(f), <<>>, n)>>
          [] OTHER ->
               Mapped([args |-> "tool-call-arguments", stop |-> "tool-call-end",
                       text |-> "text-delta", done |-> "finish"], f, n)

\* nextToolIndex counts the functionCalls of the stream: f.calls are its values.
\* Every functionCall of the frame starts with the raw bytes of the whole frame,
\* gets its complete arguments and ends; text beside it adds nothing; a frame
\* without a functionCall passes through.  The finish has no bytes of its own.
GeminiSSEParser(wire, n) ==
    LET f    == wire[n]
        call == [j \in 1 .. 3 * Len(f.calls) |->
                   LET c == f.calls[1 + ((j - 1) \div 3)]
                   IN  << WireEvent("tool-call-start", c, <<>>, n),
                          WireEvent("tool-call-arguments", c, Whole, EMPTY_FRAME),
                          WireEvent("tool-call-end", c, <<>>, EMPTY_FRAME) >>[1 + ((j - 1) % 3)]]
    IN  (IF f.calls = <<>> THEN <<WireEvent("passthrough", TextBlock, <<>>, n)>> ELSE call)
        \o (IF f.type = "last" THEN <<WireEvent("finish", TextBlock, <<>>, EMPTY_FRAME)>>
            ELSE <<>>)

BedrockConverseStreamParser(wire, n) ==
    LET f == wire[n]
    IN  IF f.type = "stop" /\ Index(f) \in ToolUseIndices(wire, n)
        THEN <<WireEvent("tool-call-end", Index(f), <<>>, n)>>
        ELSE Mapped([start |-> "tool-call-start", args |-> "tool-call-arguments",
                     text |-> "text-delta", done |-> "finish"], f, n)

\* newParserFor: the events of frame n for the provider of the stream.
Events(provider, wire, n) ==
    CASE provider = "openai"           -> OpenAISSEParser(wire, n)
      [] provider = "cohere"           -> CohereV2SSEParser(wire, n)
      [] provider = "gemini"           -> GeminiSSEParser(wire, n)
      [] provider = "bedrock-converse" -> BedrockConverseStreamParser(wire, n)
      [] OTHER                         -> MapAnthropicChunkObject(wire, n)
============================================================================
