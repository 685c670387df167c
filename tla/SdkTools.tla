------------------------------ MODULE SdkTools ------------------------------
(***************************************************************************)
(* The in-process tool and model wrappers: the monkeypatches of the OpenAI *)
(* and Anthropic SDKs (instrumentation/openai-patch.ts, anthropic-patch.ts)*)
(* and the explicit wrappers of frameworks/langchain.ts, openai.ts and     *)
(* vercel-ai.ts, which may wrap a patched SDK.                             *)
(*                                                                         *)
(* A call goes through its wrapper's policy gate (evaluateToolCall, and    *)
(* isAllowed when the client has no apiKey), then runs: a tool, nothing,   *)
(* or a model whose answer the patch filters and a relay audits while the  *)
(* caller consumes it.  The evaluator itself is CedarClient; here it       *)
(* answers or fails.                                                       *)
(***************************************************************************)
EXTENDS PatchedStreams

CONSTANTS
    Calls,        \* identities of wrapped calls
    Jobs,         \* what a call may be: wrapper, provider, streamed or not, the answer
    Layouts,      \* of each provider's SDK, how it exports its resource classes
    MaxPasses,    \* bound: passes of enforceAllTools over the tools
    MaxToggles,   \* bound: installs and uninstalls of a patch
    PollInterval, MaxWait  \* of AgentumAssistantRunner

ASSUME RunnerAssumption == PollInterval \in Nat \ {0} /\ MaxWait \in Nat

\* A job's wrapper is one of those below; the OpenAI relay is around OpenAI's
\* SDK, the Vercel ones are around a model no patch knows.
ASSUME JobsAssumption ==
    \A j \in Jobs :
        /\ j.layered \in BOOLEAN /\ j.wrap.gated \in BOOLEAN
        /\ j.wrap.start \in {"no", "before", "after"} /\ j.wrap.onDeny \in {"throw", "string", "empty"}
        /\ j.wrap.runs \in {"nothing", "llm", "tool", "poll"} /\ (j.stream => j.wrap.runs = "llm")
        /\ j.wrap.relay = "openai" => j.prov = "openai"
        /\ j.wrap.relay \in {"iterable", "readable", "unknown"} => j.prov \notin {"openai", "anthropic"}
        /\ IsFiniteSet(ToolsOf(j.answer))
        /\ j.answer \in Seq(Chunks(ToolsOf(j.answer)))

\* What the providers send, external to the code.  A "tool" stop reason comes
\* with or after a tool call; a tool call of Anthropic's stream starts with
\* content_block_start, and the reason is in message_delta; a block, and an entry
\* of a complete message, is one call's; only OpenAI's answers have further
\* choices, which in a complete one stand beside the entries of the first.
Sent(j, i) ==
    LET a == j.answer
    IN  /\ a[i].fin = "tool" =>
              /\ \E m \in 1 .. i : a[m].tools # {}
              /\ j.prov = "anthropic" /\ j.stream => a[i].type = "message_delta"
        /\ j.prov = "anthropic" /\ j.stream =>
              \A t \in a[i].tools : \E m \in 1 .. i : a[m].type = "content_block_start" /\ t \in a[m].tools
        /\ ~(j.prov = "openai" /\ j.stream) => \A t, u \in a[i].tools : t = u
        /\ a[i].rest # {} => j.prov = "openai" /\ (j.stream \/ a[i].tools = {})

ASSUME AnswersAssumption ==
    \A j \in Jobs : j.prov \in {"openai", "anthropic"} => \A i \in DOMAIN j.answer : Sent(j, i)

VARIABLES
    layout,   \* of each provider's SDK, fixed
    sdk,      \* of each provider: its create() is replaced
    ready,    \* agentum.init() has set the evaluator
    layers,   \* guards around a tool given to enforceAllTools
    warned,   \* frameworks that warned about the isAllowed fallback, and planes about HITL
    call,     \* of each call, its state
    toggles, passes

toolsVars == <<layout, sdk, ready, layers, warned, call, toggles, passes>>

Providers == {"openai", "anthropic"}

----------------------------------------------------------------------------
(* The wrappers: what is gated, which rows are written, what a denial does. *)

Wrapper(fw, gated, runs) ==
    [fw |-> fw, gated |-> gated, runs |-> runs, relay |-> "none",
     start |-> "no",     \* the llm_call row: before or after the gate
     raises |-> TRUE,    \* a failing isAllowed rejects the call
     mute |-> FALSE,     \* no row for a denial by isAllowed
     onDeny |-> "throw", ok |-> FALSE, err |-> FALSE]

bare == Wrapper("openai", FALSE, "llm")

AgentumPolicyTool(soft) ==
    [Wrapper("langchain", TRUE, "nothing") EXCEPT !.onDeny = IF soft THEN "string" ELSE "throw"]

withAgentumGuard == [Wrapper("langchain", TRUE, "tool") EXCEPT !.mute = TRUE]

runGuarded(onDeny) ==
    [Wrapper("langchain", TRUE, "tool") EXCEPT !.raises = FALSE, !.onDeny = onDeny, !.ok = TRUE]

wrapOpenAIClient(policyAction) ==
    [Wrapper("openai", policyAction, "llm") EXCEPT
        !.start = "after", !.ok = TRUE, !.err = TRUE, !.relay = "openai"]

policyFunctionTool == Wrapper("openai", TRUE, "tool")

agentumTool == Wrapper("vercel-ai", TRUE, "tool")

beforeGenerate(policyAction, stream) ==
    [Wrapper("vercel-ai", policyAction, "llm") EXCEPT
        !.start = "before", !.ok = TRUE, !.err = TRUE, !.relay = stream]

auditToolCall(action) == [Wrapper("vercel-ai", action, "nothing") EXCEPT !.ok = TRUE]

AgentumAssistantRunner == Wrapper("openai", FALSE, "poll")

----------------------------------------------------------------------------

Fresh(j) ==
    [job |-> j, phase |-> "gate", asked |-> 0, verdict |-> "none", governed |-> FALSE,
     rows |-> <<>>, src |-> j.answer, st |-> newStreamState, queue |-> <<>>, out |-> <<>>,
     denied |-> {}, allowed |-> {}, fell |-> FALSE, finalized |-> FALSE, result |-> "none",
     polls |-> 0, clock |-> 0]

NoCall == [phase |-> "idle"]

ToolsInit ==
    /\ layout \in Layouts
    /\ sdk = [p \in Providers |-> FALSE]
    /\ ready = FALSE /\ layers = 0 /\ warned = {}
    /\ call = [c \in Calls |-> NoCall]
    /\ toggles = 0 /\ passes = 0

Row(k, r) == [k EXCEPT !.rows = Append(@, r)]
RowIf(k, cond, r) == IF cond THEN Row(k, r) ELSE k
Settled(k, result) == [k EXCEPT !.phase = "done", !.result = result]
Set(c, k) == call' = [call EXCEPT ![c] = k]

W(c) == call[c].job.wrap

----------------------------------------------------------------------------
(* The patches. *)

\* Where create() is found: on the prototype a live instance resolves through
\* ("live"), on the probe instance itself ("own"), in the static exports
\* because the constructor throws ("refusing") or is not exported ("static").
locatePrototype(p) == layout[p] # "absent"

\* A fresh instance resolves to the patched function.
verifyPatchReachable(p) == layout[p] = "live"

HasConstructor(p) == layout[p] # "static"

installPatch(p) ==
    /\ toggles < MaxToggles /\ toggles' = toggles + 1
    /\ LET kept == locatePrototype(p) /\ (HasConstructor(p) => verifyPatchReachable(p))
       IN  sdk' = [sdk EXCEPT ![p] = @ \/ kept]
    /\ UNCHANGED <<layout, ready, layers, warned, call, passes>>

uninstallPatch(p) ==
    /\ toggles < MaxToggles /\ toggles' = toggles + 1
    /\ sdk[p] /\ sdk' = [sdk EXCEPT ![p] = FALSE]
    /\ UNCHANGED <<layout, ready, layers, warned, call, passes>>

InitFinishes ==
    /\ ~ready /\ ready' = TRUE
    /\ UNCHANGED <<layout, sdk, layers, warned, call, toggles, passes>>

(* Mutant: a tool that is guarded already is guarded again. *)
enforceAllToolsUntagged ==
    /\ passes < MaxPasses /\ passes' = passes + 1
    /\ layers' = layers + 1
    /\ UNCHANGED <<layout, sdk, ready, warned, call, toggles>>

\* A tool that carries the ENFORCED_TAG is returned unchanged.
enforceAllTools ==
    /\ passes < MaxPasses /\ passes' = passes + 1
    /\ layers' = IF layers > 0 THEN layers ELSE 1
    /\ UNCHANGED <<layout, sdk, ready, warned, call, toggles>>

----------------------------------------------------------------------------
(* A call up to the policy's verdict. *)

GuardsOf(j) == IF j.layered THEN layers ELSE IF j.wrap.gated THEN 1 ELSE 0

\* The wrapped create() reads the thunk when it is called.
patchedCreate(k) ==
    [k EXCEPT !.phase = "create",
              !.governed = k.job.prov \in Providers /\ ready /\ sdk[k.job.prov]]

\* Past the gate: the start row of the model wrappers, then what the wrapper runs.
Proceed(k) ==
    LET w == k.job.wrap
    IN  CASE w.runs = "nothing" -> Settled(RowIf(k, w.ok, "ok"), "allowed")
          [] w.runs = "llm"     -> patchedCreate(RowIf(k, w.start = "after", "start"))
          [] OTHER              -> [k EXCEPT !.phase = w.runs]

Begin(c) ==
    /\ call[c].phase = "idle"
    /\ \E j \in Jobs :
        /\ j.layered => layers > 0
        /\ LET k == RowIf(Fresh(j), j.wrap.start = "before", "start")
           IN  Set(c, IF GuardsOf(j) = 0 THEN Proceed(k) ELSE k)
    /\ UNCHANGED <<layout, sdk, ready, layers, warned, toggles, passes>>

\* A denial: its row, then the error, the string or the empty result.
Denied(k) ==
    Settled(Row(k, "deny"), k.job.wrap.onDeny)

evaluateToolCall(c) ==
    /\ call[c].phase = "gate"
    /\ \E v \in {"allow", "deny", "noApiKey", "fails"} :
        LET k == [call[c] EXCEPT !.asked = @ + 1, !.verdict = v]
        IN  /\ Set(c, CASE v = "allow"    -> IF k.asked < GuardsOf(k.job) THEN k ELSE Proceed(k)
                        [] v = "noApiKey" -> [k EXCEPT !.phase = "fallback", !.fell = TRUE]
                        [] OTHER          -> Denied(k))
            /\ warned' = IF v = "noApiKey" THEN warned \cup {W(c).fw} ELSE warned
    /\ UNCHANGED <<layout, sdk, ready, layers, toggles, passes>>

isAllowed(c) ==
    /\ call[c].phase = "fallback"
    /\ \E v \in {"allow", "deny", "fails"} :
        LET k == [call[c] EXCEPT !.verdict = v]
        IN  Set(c, CASE v = "allow" -> IF k.asked < GuardsOf(k.job)
                                       THEN [k EXCEPT !.phase = "gate"] ELSE Proceed(k)
                     [] v = "fails" /\ W(c).raises -> Settled(k, "error")
                     [] OTHER -> Settled(RowIf(k, ~W(c).mute, "deny"), W(c).onDeny))
    /\ UNCHANGED <<layout, sdk, ready, layers, warned, toggles, passes>>

ToolRuns(c) ==
    /\ call[c].phase = "tool"
    /\ \E fine \in BOOLEAN :
        Set(c, IF fine THEN Settled(RowIf(call[c], W(c).ok, "ok"), "ran")
               ELSE Settled(call[c], "error"))
    /\ UNCHANGED <<layout, sdk, ready, layers, warned, toggles, passes>>

----------------------------------------------------------------------------
(* The relays that audit a stream while the caller consumes it. *)

RowTimes(k, n, r) == [k EXCEPT !.rows = @ \o [i \in 1 .. n |-> r]]

\* afterGenerate: a row for each tool chunk seen, then llm_end, every time it is called.
afterGenerate(k) ==
    Row(RowTimes(k, Cardinality({i \in DOMAIN k.out : k.out[i].tools # {}}), "tool"), "end")

(* Mutant: closed by every end, return and throw. *)
finalizeAgain(k) == Row(RowTimes(k, Cardinality(ToolsOf(k.out)), "tool"), "end")

\* relayOpenAIStream's finalize: a row for each tool call, then llm_end, once.
finalize(k) ==
    IF k.finalized THEN k
    ELSE [Row(RowTimes(k, Cardinality(ToolsOf(k.out)), "tool"), "end") EXCEPT !.finalized = TRUE]

StreamDone(k) ==
    CASE k.job.wrap.relay = "openai" -> finalize(k)
      [] k.job.wrap.relay \in {"iterable", "readable"} -> afterGenerate(k)
      [] OTHER -> k

StreamThrows(k) ==
    CASE k.job.wrap.relay = "openai" -> [Row(k, "error") EXCEPT !.finalized = TRUE]
      [] k.job.wrap.relay = "iterable" -> Row(k, "error")
      [] OTHER -> k

----------------------------------------------------------------------------
(* The model's answer. *)

Count(k, r) == Cardinality({i \in DOMAIN k.rows : k.rows[i] = r})

Rejected(k) == Settled(RowIf(k, k.job.wrap.err, "error"), "rejected")

Delivered(k, chunks) == [k EXCEPT !.out = @ \o chunks]

\* A complete answer reaches the caller; the wrapper closes its pair of rows.
Returned(k, msg) == Settled(RowIf(Delivered(k, msg), k.job.wrap.ok, "end"), "answer")

Read(k) == IF k.job.prov = "openai" THEN extractOpenAIToolCalls(k.src) ELSE ToolsOf(k.src)

ModelAnswers(c) ==
    /\ call[c].phase = "create"
    /\ \E fine \in BOOLEAN :
        LET k == call[c]
        IN  Set(c, CASE ~fine -> Rejected(k)
                     [] fine /\ k.job.stream /\ W(c).relay # "unknown" -> [k EXCEPT !.phase = "open"]
                     [] fine /\ ~k.job.stream /\ k.governed /\ Read(k) # {} ->
                            [k EXCEPT !.phase = "verdicts"]
                     [] OTHER -> Returned(RowIf(k, k.governed /\ k.job.prov = "openai", "plaintext"), k.src))
    /\ UNCHANGED <<layout, sdk, ready, layers, warned, toggles, passes>>

Replayed(k, denied) ==
    IF k.job.prov = "openai" THEN replayOpenAI(k.st.buf, denied) ELSE replayAnthropic(k.st.buf, denied)

Enforced(k, denied) ==
    IF k.job.prov = "openai" THEN enforceNonStreamingOpenAI(k.src, denied)
    ELSE enforceNonStreamingAnthropic(k.src, denied)

\* Promise.all over the tool calls of the answer: one that rejects rejects all.
ToolVerdicts(c) ==
    /\ call[c].phase = "verdicts"
    /\ LET k     == call[c]
           tools == IF k.job.stream THEN k.st.tools ELSE Read(k)
       IN  \E f \in [tools -> {"allow", "deny", "hitl", "fails"}] :
            LET denied == {t \in tools : f[t] \in {"deny", "hitl"}}
                d      == [k EXCEPT !.denied = denied, !.allowed = tools \ denied]
                fails  == \E t \in tools : f[t] = "fails"
            IN  /\ Set(c, CASE fails /\ k.job.stream -> Settled(StreamThrows(k), "error")
                            [] fails /\ ~k.job.stream -> Rejected(k)
                            [] ~fails /\ k.job.stream ->
                                 [d EXCEPT !.phase = "next", !.queue = Replayed(k, denied),
                                           !.st = newStreamState]
                            [] OTHER -> IF k.job.prov = "openai" /\ FilterThrows(k.src) THEN Rejected(d)
                                        ELSE Returned(d, Enforced(k, denied)))
                /\ warned' = IF \E t \in tools : f[t] = "hitl"
                             THEN warned \cup {k.job.prov} ELSE warned
    /\ UNCHANGED <<layout, sdk, ready, layers, toggles, passes>>

----------------------------------------------------------------------------
(* The caller consumes a stream. *)

Ingest(k) ==
    IF k.job.prov = "openai" THEN wrapOpenAIStream(k.st, Head(k.src))
    ELSE wrapAnthropicStream(k.st, Head(k.src))

\* One step of an outstanding next(): deliver what is queued, else read a chunk,
\* else settle the verdicts and replay, else end.
pull(c) ==
    /\ call[c].phase \in {"open", "next"}
    /\ LET k == call[c]
       IN  Set(c,
             CASE k.queue # <<>> ->
                    [Delivered(k, <<Head(k.queue)>>) EXCEPT !.queue = Tail(@), !.phase = "open"]
               [] k.queue = <<>> /\ k.src # <<>> /\ Head(k.src).type = "cut" ->
                    Settled(StreamThrows(k), "error")
               [] k.queue = <<>> /\ k.src # <<>> /\ Head(k.src).type # "cut" ->
                    LET in == IF k.governed THEN Ingest(k) ELSE Ingested(k.st, <<Head(k.src)>>, FALSE)
                    IN  [k EXCEPT !.st = in.st, !.queue = in.out, !.phase = "next",
                                  !.src = IF in.last THEN <<>> ELSE Tail(@)]
               [] k.queue = <<>> /\ k.src = <<>> /\ k.st.tools # {} -> [k EXCEPT !.phase = "verdicts"]
               [] k.queue = <<>> /\ k.src = <<>> /\ k.st.tools = {} /\ k.st.buf # <<>> ->
                    [k EXCEPT !.queue = k.st.buf, !.st = newStreamState, !.phase = "next"]
               [] OTHER -> Settled(StreamDone(k), "stream"))
    /\ UNCHANGED <<layout, sdk, ready, layers, warned, toggles, passes>>

\* The caller leaves its loop: return() on the relay, cancel() on a ReadableStream.
return(c) ==
    /\ call[c].phase = "open" /\ call[c].job.stream
    /\ Set(c, Settled(IF W(c).relay = "readable" THEN call[c] ELSE StreamDone(call[c]), "broken"))
    /\ UNCHANGED <<layout, sdk, ready, layers, warned, toggles, passes>>

\* The caller raises an error inside the relay.
throw(c) ==
    /\ call[c].phase = "open" /\ call[c].job.stream /\ W(c).relay \in {"openai", "iterable"}
    /\ Set(c, Settled(StreamThrows(call[c]), "error"))
    /\ UNCHANGED <<layout, sdk, ready, layers, warned, toggles, passes>>

\* A caller that drives the iterator by hand may ask again after the end.
nextAfterEnd(c) ==
    /\ call[c].phase = "done" /\ call[c].result \in {"stream", "error", "broken"}
    /\ call[c].job.manual /\ W(c).relay # "readable"
    /\ Set(c, [StreamDone(call[c]) EXCEPT !.phase = "over"])
    /\ UNCHANGED <<layout, sdk, ready, layers, warned, toggles, passes>>

----------------------------------------------------------------------------
(* AgentumAssistantRunner.waitForCompletion. *)

RunOver == {"completed", "failed"}

(* Mutant: the deadline counts from the latest poll. *)
waitForCompletionEndless(c) ==
    /\ call[c].phase = "poll"
    /\ \/ Set(c, Settled(call[c], "answer")) \/ Set(c, [call[c] EXCEPT !.clock = 1 - @])
    /\ UNCHANGED <<layout, sdk, ready, layers, warned, toggles, passes>>

\* One round: the deadline, the sleep, retrieve() and the rows for what it says.
waitForCompletion(c) ==
    /\ call[c].phase = "poll"
    /\ LET k == call[c]
       IN  \/ k.clock > MaxWait /\ Set(c, Settled(k, "timeout"))
           \/ /\ k.clock <= MaxWait
              /\ \E status \in RunOver \cup {"in_progress", "requires_action", "rejects"},
                    latency \in {0, 1} :
                   LET p == [k EXCEPT !.clock = @ + PollInterval + latency, !.polls = @ + 1]
                       q == RowIf(Row(p, "poll"), status = "requires_action", "tool")
                   IN  Set(c, CASE status = "rejects" -> Settled(p, "error")
                                [] status \in RunOver -> Settled(Row(q, "end"), "answer")
                                [] OTHER -> q)
    /\ UNCHANGED <<layout, sdk, ready, layers, warned, toggles, passes>>

----------------------------------------------------------------------------

Steps(c) ==
    evaluateToolCall(c) \/ isAllowed(c) \/ ToolRuns(c) \/ ModelAnswers(c) \/ ToolVerdicts(c)
        \/ pull(c) \/ waitForCompletion(c)

ToolsNext ==
    \/ \E p \in Providers : installPatch(p) \/ uninstallPatch(p)
    \/ InitFinishes \/ enforceAllTools
    \/ \E c \in Calls : Begin(c) \/ Steps(c) \/ return(c) \/ throw(c) \/ nextAfterEnd(c)

ToolsSpec == ToolsInit /\ [][ToolsNext]_toolsVars

\* Evaluators and models answer or time out, and a caller goes on consuming.
ToolsFairSpec == ToolsSpec /\ \A c \in Calls : WF_toolsVars(Steps(c))

----------------------------------------------------------------------------
(* Properties *)

Started == {c \in Calls : call[c].phase # "idle"}
Over(c) == call[c].phase \in {"done", "over"}
Refusals == {"throw", "string", "empty"}

\* The parts of call t among the chunks, in order.
Parts(chunks, t) ==
    FlattenSeq([i \in DOMAIN chunks |-> IF t \in chunks[i].tools THEN <<chunks[i].type>> ELSE <<>>])

\* The calls of an OpenAI stream that have a part after a "tool" stop reason
\* (another choice's, when each comes in chunks of its own): the patch stops
\* reading there, so the caller gets them cut short.
Late(j) ==
    IF j.prov = "openai" /\ j.stream
    THEN {t \in ToolsOf(j.answer) :
            \E i, m \in DOMAIN j.answer : i < m /\ j.answer[i].fin = "tool" /\ t \in j.answer[m].tools}
    ELSE {}

\* A call made while a patch and an evaluator were in place, whatever is
\* installed or removed while the answer streams (wrapOpenAIStream,
\* wrapAnthropicStream and the replays): the caller never gets, in choices[0],
\* a part of a tool call that was not allowed; at the end it has of every other
\* call exactly the parts the model sent, in order, but for what came after a
\* "tool" stop reason; and it is told that the model stopped to use a tool only
\* if it was given a tool call.
ReplaySound ==
    \A c \in Started : call[c].governed => LET k == call[c] IN
        /\ \A i \in DOMAIN k.out : \/ k.out[i].tools \subseteq k.allowed
                                   \/ k.out[i].type = "custom" /\ ~k.job.stream
        /\ k.result \in {"stream", "answer"} =>
              \A t \in ToolsOf(k.job.answer) \ (k.denied \cup Late(k.job)) :
                    Parts(k.out, t) = Parts(k.job.answer, t)
        /\ (\E i \in DOMAIN k.out : k.out[i].fin = "tool") => ToolsOf(k.out) # {}

\* enforceNonStreamingOpenAI's comment: "Evaluate every tool_call in a
\* non-streaming response and rewrite the response so denied calls are dropped".
\* The calls of the choices beside the first are handed over unread.
EveryCallEvaluated ==
    \A c \in Started : LET k == call[c] IN
        k.governed /\ k.result = "answer" => \A i \in DOMAIN k.out : k.out[i].rest \subseteq k.allowed

\* What a wrapper guards runs only on the policy's allow, asked for once per
\* call however often the tool was wrapped (enforceAllTools' tag), and every
\* evaluator failure is a denial (the fail-closed catch of each wrapper).  A
\* refused call leaves exactly one denial in the audit trail and no row of
\* success; the one silent denial is withAgentumGuard's on the isAllowed path.
GuardSound ==
    \A c \in Started : LET k == call[c] IN
        /\ (/\ k.job.wrap.gated /\ k.phase \notin {"gate", "fallback"}
            /\ k.result \notin Refusals \cup {"error"})
              => k.verdict = "allow" /\ k.asked = 1
        /\ k.result \in Refusals =>
              /\ Count(k, "deny") = IF k.job.wrap.mute /\ k.fell THEN 0 ELSE 1
              /\ Count(k, "ok") + Count(k, "end") = 0

\* A stream that was let past the gate is closed by one llm_end or llm_error:
\* always by the OpenAI relay, even for a caller that asks again after the end; by the
\* Vercel iterable for a caller that does not; by the Vercel ReadableStream
\* when it is read to its end.  The OpenAI relay adds one row for each call.
OneEnd ==
    \A c \in Started : LET k == call[c]
                            ends == Count(k, "end") + Count(k, "error") IN
        /\ k.job.stream /\ Over(c) /\ k.verdict # "fails"
        /\ k.result \in {"stream", "broken", "error"} /\ Count(k, "start") = 1
        =>
            /\ k.job.wrap.relay = "openai" => ends = 1
            /\ k.job.wrap.relay = "iterable" /\ ~k.job.manual => ends = 1
            /\ k.job.wrap.relay = "readable" /\ k.result = "stream" => ends = 1
            /\ k.job.wrap.relay = "openai" /\ k.result = "stream" =>
                    Count(k, "tool") = Cardinality(ToolsOf(k.out))

\* Every wrapped call settles.
CallsSettle == \A c \in Calls : call[c].phase # "idle" ~> Over(c)

\* wrapOpenAIStream's comment: "On allow we replay the buffered chunks
\* unchanged"; a plain text completion passes "through immediately".
ReplayUnchanged ==
    \A c \in Started : LET k == call[c] IN
        k.job.prov = "openai" /\ k.job.stream /\ k.governed /\ k.result = "stream" /\ k.denied = {} =>
            k.out = k.job.answer
=============================================================================
