--------------------------- MODULE PatchedStreams ---------------------------
(***************************************************************************)
(* What the monkeypatched create() methods of the OpenAI and Anthropic     *)
(* SDKs do to a model's answer.                                            *)
(*                                                                         *)
(* An answer is a sequence of chunks, streamed or complete: a chunk        *)
(* carries parts of the tool calls .tools, or ends the message with the    *)
(* reason .fin.  Its type is chunk, text or custom for OpenAI (custom: a   *)
(* tool call without a "function"), and the event's name for Anthropic;    *)
(* notice is the text the patch puts in the place of a denied call.        *)
(*                                                                         *)
(* OpenAI's patch reads choices[0] of what it is given and nothing else:   *)
(* .tools and .fin are those of choices[0], whichever choice of the answer *)
(* it is (a call is known by its index alone), and .rest are the calls of  *)
(* the choices beside it, which go wherever the chunk goes.                *)
(***************************************************************************)
EXTENDS Integers, Sequences, FiniteSets, SequencesExt

Chunk(type, tools, fin) == [type |-> type, tools |-> tools, fin |-> fin, rest |-> {}]

ChunkTypes == {"chunk", "text", "custom", "notice", "content_block_start", "content_block_delta",
               "content_block_stop", "message_delta", "message_stop", "cut"}
StopReasons == {"none", "tool", "stop", "length"}

\* The chunks whose choices[0] carries no other calls than these; cut stands
\* for the connection's end.
Chunks(tools) == [type : ChunkTypes, tools : SUBSET tools, fin : StopReasons, rest : SUBSET Nat]

ToolsOf(chunks) == UNION {chunks[k].tools : k \in DOMAIN chunks}

Notices(denied) == [k \in 1 .. Cardinality(denied) |-> Chunk("notice", {}, "none")]

newStreamState == [buf |-> <<>>, tools |-> {}, fin |-> "none"]

\* What a patched generator does with one chunk: its new state, the chunks it
\* yields at once, and whether it stops reading.
Ingested(st, out, last) == [st |-> st, out |-> out, last |-> last]

----------------------------------------------------------------------------
(* openai-patch.ts *)

(* Mutant: a part of a call already seen is not held. *)
wrapOpenAIStreamEager(st, ch) ==
    LET held == ch.tools \ st.tools # {} \/ ch.fin # "none"
    IN  Ingested([buf |-> IF held THEN Append(st.buf, ch) ELSE st.buf,
                  tools |-> st.tools \cup ch.tools, fin |-> ch.fin],
                 IF held THEN <<>> ELSE <<ch>>, ch.fin = "tool")

wrapOpenAIStream(st, ch) ==
    LET tools == st.tools \cup ch.tools
        fin   == IF ch.fin # "none" THEN ch.fin ELSE st.fin
        hold  == tools # {} \/ fin = "none"
    IN  Ingested([buf |-> IF hold THEN Append(st.buf, ch) ELSE st.buf, tools |-> tools, fin |-> fin],
                 IF hold THEN <<>> ELSE <<ch>>,
                 hold /\ fin = "tool")

\* A chunk without its parts of denied calls, its further choices as they are.
\* The reason is rewritten by what is left in this chunk, whatever the chunks
\* before it kept.
rewriteChunkDroppingDenied(ch, denied) ==
    LET left == ch.tools \ denied
    IN  [ch EXCEPT !.tools = left,
                   !.fin = IF @ = "tool" THEN (IF left # {} THEN "tool" ELSE "stop") ELSE @]

replayOpenAI(buf, denied) ==
    IF denied = {} THEN buf
    ELSE [k \in DOMAIN buf |-> rewriteChunkDroppingDenied(buf[k], denied)]
         \o Notices(denied) \o <<Chunk("notice", {}, "stop")>>

\* A complete answer, read and rewritten in its first choice: the calls without
\* a "function" are not read, and make the filter index past the decisions.
extractOpenAIToolCalls(msg) == UNION {msg[k].tools : k \in {j \in DOMAIN msg : msg[j].type # "custom"}}

FilterThrows(msg) ==
    extractOpenAIToolCalls(msg) # {} /\ extractOpenAIToolCalls(msg) # ToolsOf(msg)

enforceNonStreamingOpenAI(msg, denied) ==
    LET remaining == FlattenSeq([k \in DOMAIN msg |-> IF msg[k].tools \cap denied = {}
                                                      THEN <<msg[k]>> ELSE <<>>])
        reason(f) == IF f # "none" /\ ToolsOf(remaining) = {} THEN "stop" ELSE f
    IN  IF denied = {} THEN msg
        ELSE [k \in DOMAIN remaining |-> [remaining[k] EXCEPT !.fin = reason(@)]] \o Notices(denied)

----------------------------------------------------------------------------
(* anthropic-patch.ts *)

\* The events of tool_use blocks and the trailing message events are held;
\* the rest passes live.
wrapAnthropicStream(st, ev) ==
    LET tools == IF ev.type = "content_block_start" THEN st.tools \cup ev.tools ELSE st.tools
        hold  == \/ ev.tools # {} /\ ev.tools \subseteq tools
                 \/ ev.type \in {"message_delta", "message_stop"}
    IN  Ingested([st EXCEPT !.tools = tools, !.buf = IF hold THEN Append(@, ev) ELSE @],
                 IF hold THEN <<>> ELSE <<ev>>, FALSE)

rewriteMessageDeltaStopReason(ev) == [ev EXCEPT !.fin = IF @ = "tool" THEN "stop" ELSE @]

noticeTriplet == [j \in 1..3 |-> Chunk("notice", {}, "none")]

\* The k-th held event: a denied block becomes one notice triplet at its first
\* event; the stop reason is rewritten once a block was replaced.
replayed(buf, k, denied) ==
    LET ev == buf[k]
        earlier == {buf[j] : j \in 1 .. k - 1}
    IN  IF ev.tools \cap denied # {}
        THEN IF \E b \in earlier : b.tools = ev.tools THEN <<>> ELSE noticeTriplet
        ELSE IF ev.type = "message_delta" /\ \E b \in earlier : b.tools \cap denied # {}
             THEN <<rewriteMessageDeltaStopReason(ev)>> ELSE <<ev>>

replayAnthropic(buf, denied) == FlattenSeq([k \in DOMAIN buf |-> replayed(buf, k, denied)])

enforceNonStreamingAnthropic(msg, denied) ==
    LET content == [k \in DOMAIN msg |-> IF msg[k].tools \cap denied # {}
                                         THEN Chunk("notice", {}, "none") ELSE msg[k]]
        stillHasTool == ToolsOf(content) # {}
    IN  IF denied = {} \/ stillHasTool THEN content
        ELSE [k \in DOMAIN content |-> rewriteMessageDeltaStopReason(content[k])]
=============================================================================
