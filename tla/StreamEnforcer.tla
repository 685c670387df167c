--------------------------- MODULE StreamEnforcer ---------------------------
(***************************************************************************)
(* Response-side enforcement of a streamed model answer: wrapStreaming-    *)
(* Response of the fetch plane, createStreamingEnforcer behind the undici  *)
(* dispatcher, wrapStreaming of the node:http plane.  The three share one  *)
(* event handler; they differ in how chunks reach it.  A task is one run   *)
(* of the chunk handler, or of the end handler:                            *)
(*   fetch, undici  the tasks run one after the other (TransformStream,    *)
(*                  streamChain)                                           *)
(*   node           res.on("data", async ...): a task runs to its first    *)
(*                  await as it arrives, the continuations of all tasks    *)
(*                  interleave                                             *)
(* A task awaits after every event, and inside a finish (or end) at the    *)
(* evaluation of each call.  Everything between two awaits is one step.    *)
(*                                                                         *)
(* Indices are issued in increasing order, so the insertion order of the   *)
(* Set inFlight is the numeric order and an iterator over it is the index  *)
(* it last visited.  accs.get(idx) is never undefined for an idx of        *)
(* inFlight: accs only grows.                                              *)
(***************************************************************************)
EXTENDS WireParsers, FiniteSetsExt

CONSTANTS
    Planes, Shapes, FailModes,  \* the planes, providers and failModes covered
    CallsPerFrame,  \* functionCalls in one Gemini frame
    ChunkFrames,    \* bound: frames in one chunk
    MaxFrames,      \* bound: frames of one answer
    MaxFiller,      \* bound: frames of one answer that are about no call and end nothing
    Backlog         \* bound: handlers that have not run to their end

ASSUME StreamAssumption ==
    /\ Planes \subseteq {"fetch", "undici", "node"} /\ Shapes \subseteq Providers
    /\ FailModes \subseteq {"allow", "deny"}
    /\ CallsPerFrame \in Nat \ {0} /\ ChunkFrames \in Nat \ {0}
    /\ MaxFrames \in Nat /\ MaxFiller \in Nat /\ Backlog \in Nat \ {0}

VARIABLES
    plane, provider, failMode,
    wire,      \* the frames the upstream has sent
    up,        \* where the upstream is in its answer
    tasks,     \* runs of the chunk handler, in the order of arrival
    accs, inFlight,
    syntheticTerminalEmitted,
    out,       \* what the consumer's stream was given, in order
    answers,   \* history: every evaluation, with what it was about
    closed     \* the consumer's stream: open, done or failed

conf  == <<plane, provider, failMode>>
state == <<accs, inFlight, syntheticTerminalEmitted>>
vars  == <<conf, wire, up, tasks, state, out, answers, closed>>

----------------------------------------------------------------------------
(* The upstream: what a provider sends.  A stream may stop at any frame.   *)

NoAcc == [args |-> <<>>, frames |-> <<>>, live |-> FALSE]

\* The frames the upstream may send next.
Offers ==
    LET body  == up.phase = "body"
        open  == {c \in Calls : c < up.started /\ c \notin up.shut}
        first == IF provider \in {"openai", "cohere"} THEN {0, 1} ELSE {0}
        plain == {WireFrame(t, <<>>, <<>>) : t \in
                    (IF body THEN {"text"} ELSE {}) \cup
                    (IF body /\ provider \in {"openai", "anthropic", "bedrock-invoke"}
                     THEN {"reason"} ELSE {}) \cup
                    (IF up.phase \in {"body", "reason"} THEN {"done"} ELSE {}) \cup
                    (IF up.phase = "done" /\ provider = "bedrock-converse" THEN {"other"} ELSE {})}
    IN  IF provider = "gemini"
        THEN {WireFrame(t, [i \in 1..k |-> up.started + i - 1], Whole) :
                 t \in {s \in {"cand", "last"} : body},
                 k \in {j \in 0..CallsPerFrame : up.started + j <= MaxCalls}}
        ELSE plain
             \cup {WireFrame("start", <<up.started>>, SubSeq(Whole, 1, k)) :
                      k \in {j \in first : body /\ up.started < MaxCalls}}
             \cup (UNION {{WireFrame("args", <<c>>, SubSeq(Whole, up.pieces[c] + 1, k)) :
                              k \in up.pieces[c] + (IF provider = "cohere" THEN 0 ELSE 1) .. ArgPieces} :
                          c \in {d \in open : body}})
             \cup {WireFrame("stop", s, <<>>) :
                      s \in IF ~body \/ provider = "openai" THEN {}
                            ELSE {<<c>> : c \in open} \cup
                                 (IF provider = "cohere" THEN {} ELSE {<<>>})}

Sent(f) ==
    [phase   |-> CASE f.type = "reason" -> "reason" [] f.type \in {"done", "last"} -> "done"
                   [] OTHER -> up.phase,
     started |-> IF f.type \in {"start", "cand", "last"} THEN up.started + Len(f.calls)
                 ELSE up.started,
     pieces  |-> [c \in Calls |-> IF f.type \in {"start", "args"} /\ Index(f) = c
                                  THEN up.pieces[c] + Len(f.args) ELSE up.pieces[c]],
     shut    |-> IF f.type = "stop" THEN up.shut \cup {c \in Calls : Index(f) = c} ELSE up.shut]

----------------------------------------------------------------------------
(* Tasks. *)

\* A handler about to run on the frames lo..hi; eof for the end handler.
\* at, ev: the event it is at.  call: the call whose evaluation it awaits.
NewTask(lo, hi, eof) ==
    [lo |-> lo, hi |-> hi, eof |-> eof, new |-> TRUE,
     at |-> lo, ev |-> 1, call |-> TextBlock, seen |-> <<>>, deny |-> FALSE, over |-> FALSE]

Serial == plane # "node"

(* Mutant: the chunks are not chained. *)
RunnableAny(t) == ~tasks[t].over

\* The task may run to its next await.
Runnable(t) ==
    /\ ~tasks[t].over
    /\ IF Serial THEN \A s \in 1 .. t - 1 : tasks[s].over
       ELSE tasks[t].new \/ \A s \in DOMAIN tasks : ~tasks[s].new
    /\ ~(plane = "fetch" /\ closed = "failed")

CurrentEvent(t) == Events(provider, wire, tasks[t].at)[tasks[t].ev]

\* The task, past the event it was at.
Advanced(t) ==
    LET k    == tasks[t]
        same == k.ev < Len(Events(provider, wire, k.at))
        at   == IF same THEN k.at ELSE k.at + 1
    IN  [k EXCEPT !.new = FALSE, !.at = at, !.ev = IF same THEN k.ev + 1 ELSE 1,
                  !.call = TextBlock, !.deny = FALSE,
                  !.over = ~k.eof /\ at > k.hi]

Raw(n)    == IF n = EMPTY_FRAME THEN <<>> ELSE <<[kind |-> "raw", id |-> n]>>
Mark(k,c) == <<[kind |-> k, id |-> c]>>

----------------------------------------------------------------------------
(* The event handler: handleEvent / onEvent. *)

AtEvent(t, kinds) ==
    /\ Runnable(t) /\ tasks[t].at <= tasks[t].hi /\ tasks[t].call = TextBlock
    /\ CurrentEvent(t).kind \in kinds

OnText(t) ==
    /\ AtEvent(t, {"text-delta", "passthrough"})
    /\ out' = out \o Raw(CurrentEvent(t).rawFrame)
    /\ tasks' = [tasks EXCEPT ![t] = Advanced(t)]
    /\ UNCHANGED <<conf, wire, up, state, answers, closed>>

OnStart(t) ==
    /\ AtEvent(t, {"tool-call-start"})
    /\ LET e == CurrentEvent(t)
       IN  /\ accs' = [accs EXCEPT ![e.index] =
                         [args |-> <<>>, live |-> TRUE,
                          frames |-> IF e.rawFrame = EMPTY_FRAME THEN <<>> ELSE <<e.rawFrame>>]]
           /\ inFlight' = inFlight \cup {e.index}
    /\ tasks' = [tasks EXCEPT ![t] = Advanced(t)]
    /\ UNCHANGED <<conf, wire, up, syntheticTerminalEmitted, out, answers, closed>>

(* Mutant: the closing frame of a call is dropped. *)
BufferOpen(acc, e) ==
    IF e.kind = "tool-call-end" THEN acc
    ELSE [acc EXCEPT !.args = @ \o e.deltaJson,
                     !.frames = IF e.rawFrame = EMPTY_FRAME THEN @ ELSE Append(@, e.rawFrame)]

\* The accumulator of a call, with an arguments or an end event added.
Buffer(acc, e) ==
    [acc EXCEPT !.args = IF e.kind = "tool-call-arguments" THEN @ \o e.deltaJson ELSE @,
                !.frames = IF e.rawFrame = EMPTY_FRAME THEN @ ELSE Append(@, e.rawFrame)]

\* Arguments and the closing frame of a known call are buffered with it.
OnBuffered(t) ==
    /\ AtEvent(t, {"tool-call-arguments", "tool-call-end"})
    /\ LET e == CurrentEvent(t)
       IN  IF accs[e.index].live
           THEN accs' = [accs EXCEPT ![e.index] = Buffer(@, e)] /\ UNCHANGED out
           ELSE out' = out \o Raw(e.rawFrame) /\ UNCHANGED accs
    /\ tasks' = [tasks EXCEPT ![t] = Advanced(t)]
    /\ UNCHANGED <<conf, wire, up, inFlight, syntheticTerminalEmitted, answers, closed>>

(* Mutant: partial arguments are evaluated like any others. *)
SafeEvalPartial(args) ==
    {[outcome |-> o, decision |-> IF o = "throw" THEN failMode ELSE o] :
        o \in {"allow", "deny", "throw"}}

\* safeEval: what an evaluation may come to.  Arguments that are no complete
\* JSON are denied unseen, whatever the failMode; an evaluator that throws
\* decides by the failMode.
SafeEval(args) ==
    IF args # Whole THEN {[outcome |-> "partial", decision |-> "deny"]}
    ELSE {[outcome |-> "allow", decision |-> "allow"], [outcome |-> "deny", decision |-> "deny"],
          [outcome |-> "throw", decision |-> failMode]}

\* flushTool: the buffered frames, or a notice; all but the Anthropic shapes
\* close the message after the notice.
FlushTool(c, decision) ==
    IF decision = "allow"
    THEN [i \in 1 .. Len(accs[c].frames) |-> [kind |-> "raw", id |-> accs[c].frames[i]]]
    ELSE Mark("notice", c) \o
         (IF provider \in {"anthropic", "bedrock-invoke"} THEN <<>> ELSE Mark("terminal", c))

\* The rest of the finish handler once the loop has ended.
AfterLoop(t, deny, flushed) ==
    /\ inFlight' = {}
    /\ syntheticTerminalEmitted' = (syntheticTerminalEmitted \/ deny)
    /\ out' = out \o flushed \o
              (IF deny \/ syntheticTerminalEmitted THEN <<>> ELSE Raw(CurrentEvent(t).rawFrame))
    /\ tasks' = [tasks EXCEPT ![t] = Advanced(t)]

\* The rest of the end handler's loop; OnClose follows.  The node plane leaves
\* inFlight as it is.
AfterEnd(t, flushed) ==
    /\ inFlight' = IF plane = "node" THEN inFlight ELSE {}
    /\ out' = out \o flushed
    /\ tasks' = [tasks EXCEPT ![t].new = FALSE, ![t].call = TextBlock, ![t].ev = 2]
    /\ UNCHANGED syntheticTerminalEmitted

\* for (const idx of inFlight), from the index last visited: to the next
\* await, or out of the loop.
Iterate(t, last, deny, flushed) ==
    LET rest == {c \in inFlight : c > last}
    IN  IF rest # {}
        THEN /\ tasks' = [tasks EXCEPT ![t].new = FALSE, ![t].call = Min(rest), ![t].deny = deny,
                                       ![t].seen = accs[Min(rest)].args]
             /\ out' = out \o flushed
             /\ UNCHANGED <<inFlight, syntheticTerminalEmitted>>
        ELSE IF tasks[t].at <= tasks[t].hi THEN AfterLoop(t, deny, flushed)
             ELSE AfterEnd(t, flushed)

OnFinish(t) ==
    /\ AtEvent(t, {"finish"})
    /\ Iterate(t, TextBlock, FALSE, <<>>)
    /\ UNCHANGED <<conf, wire, up, accs, answers, closed>>

\* The end handler, past the events parser.flush gave it, and past its loop.
AtEnd(t, ev) ==
    /\ Runnable(t) /\ tasks[t].eof /\ tasks[t].at > tasks[t].hi
    /\ tasks[t].call = TextBlock /\ tasks[t].ev = ev

(* Mutant: the end handler does not look at what is still in flight. *)
OnEndUnflushed(t) ==
    /\ AtEnd(t, 1) /\ AfterEnd(t, <<>>)
    /\ UNCHANGED <<conf, wire, up, accs, answers, closed>>

\* The calls no finish event has settled are settled now.
OnEnd(t) ==
    /\ AtEnd(t, 1)
    /\ Iterate(t, TextBlock, FALSE, <<>>)
    /\ UNCHANGED <<conf, wire, up, accs, answers, closed>>

(* Mutant: only a stream whose message was finished is completed. *)
OnCloseFinished(t) ==
    /\ AtEnd(t, 2) /\ \E n \in DOMAIN wire : wire[n].type \in {"done", "last"}
    /\ closed' = "done" /\ out' = out \o Mark("close", 0)
    /\ tasks' = [tasks EXCEPT ![t].over = TRUE]
    /\ UNCHANGED <<conf, wire, up, state, answers>>

\* The consumer's stream is completed.
OnClose(t) ==
    /\ AtEnd(t, 2)
    /\ closed' = "done" /\ out' = out \o Mark("close", 0)
    /\ tasks' = [tasks EXCEPT ![t].over = TRUE]
    /\ UNCHANGED <<conf, wire, up, state, answers>>

\* The evaluation a task awaits resolves or throws.
Answer(t) ==
    /\ Runnable(t) /\ tasks[t].call # TextBlock
    /\ LET c == tasks[t].call
       IN  \E v \in SafeEval(tasks[t].seen) :
             /\ answers' = Append(answers, [call |-> c, args |-> tasks[t].seen,
                                            outcome |-> v.outcome, decision |-> v.decision])
             /\ Iterate(t, c, tasks[t].deny \/ v.decision # "allow", FlushTool(c, v.decision))
    /\ UNCHANGED <<conf, wire, up, accs, closed>>

----------------------------------------------------------------------------
(* Chunks, the end and the failure of the upstream. *)

\* On the node plane a handler runs to its first await before the next event.
Quiet == Serial \/ \A t \in DOMAIN tasks : ~tasks[t].new

\* Bounds on what is sent.
Filler(f) ==
    \/ f.type \in {"text", "other", "cand", "stop"} /\ f.calls = <<>>
    \/ f.type = "args" /\ f.args = <<>>
MaySend(f) ==
    /\ closed = "open" /\ up.phase # "ended" /\ Len(wire) < MaxFrames
    /\ Filler(f) => Cardinality({n \in DOMAIN wire : Filler(wire[n])}) < MaxFiller

\* The frame f arrives, in a chunk of its own or in the one that has just
\* arrived.  Only the node plane can tell: the others handle the frames of all
\* chunks one after the other.
OnData(f) ==
    /\ MaySend(f)
    /\ wire' = Append(wire, f) /\ up' = Sent(f)
    /\ LET n == Len(wire) + 1
           t == Len(tasks)
       IN  \E joined \in {b \in BOOLEAN :
                            b => ~Serial /\ tasks # <<>> /\ tasks[t].new
                                 /\ n < tasks[t].lo + ChunkFrames} :
             IF joined THEN tasks' = [tasks EXCEPT ![t].hi = n]
             ELSE /\ Quiet /\ Cardinality({s \in DOMAIN tasks : ~tasks[s].over}) < Backlog
                  /\ tasks' = Append(tasks, NewTask(n, n, FALSE))
    /\ UNCHANGED <<conf, state, out, answers, closed>>

\* The upstream is done; bytes of an unfinished frame may be left to flush.
OnUpstreamEnd(half) ==
    /\ closed = "open" /\ up.phase # "ended" /\ Quiet
    /\ up' = [up EXCEPT !.phase = "ended"]
    /\ wire' = wire \o half
    /\ tasks' = Append(tasks, NewTask(Len(wire) + 1, Len(wire) + Len(half), TRUE))
    /\ UNCHANGED <<conf, state, out, answers, closed>>

\* The upstream breaks: the consumer sees the error at once.  Tasks of the
\* undici and node planes that have arrived run on.
OnError ==
    /\ closed = "open" /\ up.phase # "ended"
    /\ up' = [up EXCEPT !.phase = "ended"]
    /\ closed' = "failed" /\ out' = out \o Mark("error", 0)
    /\ UNCHANGED <<conf, wire, tasks, state, answers>>

Run(t) ==
    \/ OnText(t) \/ OnStart(t) \/ OnBuffered(t) \/ OnFinish(t)
    \/ Answer(t) \/ OnEnd(t) \/ OnClose(t)

Init ==
    /\ plane \in Planes /\ provider \in Shapes /\ failMode \in FailModes
    /\ wire = <<>> /\ tasks = <<>> /\ out = <<>> /\ answers = <<>>
    /\ up = [phase |-> "body", started |-> 0, pieces |-> [c \in Calls |-> 0], shut |-> {}]
    /\ accs = [c \in Calls |-> NoAcc] /\ inFlight = {}
    /\ syntheticTerminalEmitted = FALSE /\ closed = "open"

Next ==
    \/ \E f \in Offers : OnData(f)
    \/ \E half \in {<<>>, <<WireFrame("cut", <<>>, <<>>)>>} : OnUpstreamEnd(half)
    \/ OnError
    \/ \E t \in DOMAIN tasks : Run(t)

Spec == Init /\ [][Next]_vars

\* The event loop runs what is ready, and every evaluation comes back
\* (CedarClient bounds its requests with a timeout).
FairSpec == Spec /\ WF_vars(\E t \in DOMAIN tasks : Run(t))

----------------------------------------------------------------------------
(* Properties. *)

\* The frame says something about a tool call (an empty tool-call-delta does not).
Carries(n)  == wire[n].calls # <<>> /\ (wire[n].type = "args" => wire[n].args # <<>>)
CallsIn(n)  == {wire[n].calls[i] : i \in DOMAIN wire[n].calls}
Finishes(n) == \E i \in DOMAIN Events(provider, wire, n) :
                  Events(provider, wire, n)[i].kind = "finish" /\
                  Events(provider, wire, n)[i].rawFrame = n
RawAt(i)    == out[i].kind = "raw"

\* The evaluation was about the complete arguments, and the evaluator allowed
\* the call or failed under failMode "allow".
Sanctioned(c) == \E i \in DOMAIN answers :
    /\ answers[i].call = c /\ answers[i].args = Whole
    /\ answers[i].outcome = "allow" \/ (answers[i].outcome = "throw" /\ failMode = "allow")
Denied == \E i \in DOMAIN answers : answers[i].decision = "deny"

\* A frame of a tool call reaches the consumer only after the evaluator, shown
\* the call's complete arguments, has allowed it (tool-call-start, -arguments
\* and -end are all buffered until flushTool).
PassNeedsAllow == Serial => \A i \in DOMAIN out :
    RawAt(i) /\ Carries(out[i].id) => \E c \in CallsIn(out[i].id) : Sanctioned(c)

\* ... and every call the frame carries was allowed.
DeniedDropped == \A i \in DOMAIN out :
    RawAt(i) /\ Carries(out[i].id) => \A c \in CallsIn(out[i].id) : Sanctioned(c)

\* No frame of the upstream is emitted twice: the consumer gets what the wire
\* carried.
FrameOnce == \A i, j \in DOMAIN out :
    RawAt(i) /\ RawAt(j) /\ out[i].id = out[j].id => i = j

\* When the stream completes, every frame was forwarded exactly as often as it
\* should: a call's frames once if the call was allowed and never otherwise,
\* the terminal frames once unless a call was denied, all others once.
FramesAccounted == closed = "done" =>
    \A n \in DOMAIN wire :
        Cardinality({i \in DOMAIN out : RawAt(i) /\ out[i].id = n}) =
            IF Carries(n) THEN Cardinality({c \in CallsIn(n) : Sanctioned(c)})
            ELSE IF Finishes(n) /\ Denied THEN 0 ELSE 1

\* Chunks emit in order: a frame that was not held back comes after everything
\* emitted from earlier frames and before everything from later ones.
InOrder == \A i, j \in DOMAIN out :
    i < j /\ RawAt(i) /\ RawAt(j) /\ ~Carries(out[j].id) => out[i].id < out[j].id

\* Once the upstream has ended, the consumer's stream ends too.
StreamEnds == (up.phase = "ended") ~> (closed # "open")

----------------------------------------------------------------------------
(* The gate the enforcer implements: a call's fate is its first answer. *)

Fate(c) ==
    IF \E i \in DOMAIN answers : answers[i].call = c
    THEN LET i == CHOOSE i \in DOMAIN answers :
                     answers[i].call = c /\ \A j \in 1 .. i - 1 : answers[j].call # c
         IN  IF answers[i].decision = "allow" THEN "passed" ELSE "replaced"
    ELSE IF accs[c].live THEN "held" ELSE "absent"

Gate == INSTANCE ToolGate WITH fate <- [c \in Calls |-> Fate(c)], stream <- closed

\* Every call is held, settled once, and settled before the stream completes.
GateKept == Gate!GateSpec
=============================================================================
