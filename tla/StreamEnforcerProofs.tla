------------------------ MODULE StreamEnforcerProofs ------------------------
(***************************************************************************)
(* The streaming enforcer on the planes that handle the chunks of an       *)
(* answer one after the other, for any number of calls, frames and pieces  *)
(* of arguments.                                                           *)
(***************************************************************************)
EXTENDS StreamEnforcer, FiniteSetTheorems, WellFoundedInduction, SequenceTheorems, TLAPS

IsSeq(s) == Len(s) \in Nat /\ s = [i \in 1 .. Len(s) |-> s[i]]

(* A frame of an answer: p is the provider, w the frames so far. *)
Plain == {"text", "reason", "done", "other", "cut"}

Begun(w, n, c) == \E m \in 1 .. n - 1 : w[m].type = "start" /\ Index(w[m]) = c

FrameOK(p, w, n) ==
    LET f == w[n]
    IN  /\ f.calls \in Seq(Calls)
        /\ p = "gemini" => f.type \in {"cand", "last", "cut"}
        /\ p # "gemini" =>
              /\ f.type \in Plain \cup {"start", "args", "stop"}
              /\ f.type \in Plain => f.calls = <<>>
              /\ f.type \in {"start", "args"} => f.calls # <<>> /\ Len(f.calls) = 1
              /\ f.type = "args" => p = "cohere" \/ f.args # <<>>
              /\ f.type = "stop" => p # "openai" /\ (p = "cohere" => f.calls # <<>>)
              /\ f.type = "args" \/ (f.type = "stop" /\ f.calls # <<>>) => Begun(w, n, f.calls[1])
              /\ f.type = "stop" /\ f.calls # <<>> /\ p # "cohere" => f.calls[1] \in ToolUseIndices(w, n)

(* An upstream has begun the calls it goes on with. *)
UpOK ==
    /\ up = [f \in {"phase", "started", "pieces", "shut"} |-> up[f]]
    /\ up.started \in 0 .. MaxCalls /\ up.pieces \in [Calls -> Nat]
    /\ provider # "gemini" =>
          \A c \in Calls : c < up.started /\ c \notin up.shut =>
              \E m \in 1 .. Len(wire) :
                  /\ wire[m].type = "start" /\ Index(wire[m]) = c
                  /\ \A j \in m + 1 .. Len(wire) : ~(wire[j].type = "stop" /\ Index(wire[j]) = c)

WireOK ==
    /\ plane \in {"fetch", "undici"} /\ provider \in Providers /\ failMode \in {"allow", "deny"}
    /\ IsSeq(wire) /\ \A n \in 1 .. Len(wire) : FrameOK(provider, wire, n)
    /\ UpOK

(* An event of a frame: what passes by says nothing of a call, and what is *)
(* about a call comes after the event that begins it.                      *)
PassKinds == {"text-delta", "passthrough", "finish"}
CallKinds == {"tool-call-start", "tool-call-arguments", "tool-call-end"}

CarriesIn(w, n) == w[n].calls # <<>> /\ (w[n].type = "args" => w[n].args # <<>>)

Before(m, j, n, i) == m < n \/ (m = n /\ j < i)

EventOK(p, w, n, i) ==
    LET e == Events(p, w, n)[i]
    IN  /\ e.kind \in PassKinds =>
              e.rawFrame = EMPTY_FRAME \/ (e.rawFrame = n /\ i = 1 /\ ~CarriesIn(w, n))
        /\ e.kind \in CallKinds =>
              /\ e.index \in Calls
              /\ e.rawFrame = EMPTY_FRAME \/
                    /\ e.rawFrame = n /\ CarriesIn(w, n)
                    /\ \E k \in DOMAIN w[n].calls : w[n].calls[k] = e.index
        /\ e.kind \in {"tool-call-arguments", "tool-call-end"} =>
              \E m \in 1 .. n : \E j \in 1 .. Len(Events(p, w, m)) :
                  /\ Before(m, j, n, i)
                  /\ Events(p, w, m)[j].kind = "tool-call-start" /\ Events(p, w, m)[j].index = e.index

(* Frame n is handled by task n; the end handler is the last task. *)
TaskFields == {"lo", "hi", "eof", "new", "at", "ev", "call", "seen", "deny", "over"}

TaskType(t) ==
    LET k == tasks[t]
    IN  /\ k = [f \in TaskFields |-> k[f]]
        /\ k.eof \in BOOLEAN /\ k.over \in BOOLEAN
        /\ k.at \in {t, t + 1} /\ k.ev \in Nat \ {0} /\ k.call \in Calls \cup {TextBlock}
        /\ ~k.eof => k.hi = t /\ t <= Len(wire) /\ (k.over <=> k.at = t + 1)
        /\ k.eof => /\ t = Len(tasks) /\ k.hi = Len(wire) /\ k.hi \in {t - 1, t}
                    /\ up.phase = "ended" /\ closed # "failed"
                    /\ k.over => k.at > k.hi /\ k.ev = 2
        /\ k.at <= k.hi => k.ev <= Len(Events(provider, wire, t))

(* One task at a time is at work: those before it are over, those after it *)
(* have not begun.  It waits for a call in a loop over inFlight.           *)
Turn(t) ==
    /\ tasks[t].call # TextBlock =>
          /\ ~tasks[t].over /\ (\A s \in 1 .. t - 1 : tasks[s].over) /\ tasks[t].call \in inFlight
          /\ tasks[t].at <= tasks[t].hi => Events(provider, wire, t)[tasks[t].ev].kind = "finish"
    /\ (\E s \in 1 .. t - 1 : ~tasks[s].over) => tasks[t].at = t /\ tasks[t].ev = 1

TasksOK ==
    /\ IsSeq(tasks) /\ Len(tasks) \in {Len(wire), Len(wire) + 1}
    /\ up.phase # "ended" => Len(tasks) = Len(wire) /\ \A t \in 1 .. Len(tasks) : ~tasks[t].eof
    /\ \A t \in 1 .. Len(tasks) : TaskType(t) /\ Turn(t)

Touched(n) == tasks[n].at > n \/ tasks[n].ev > 1
Passed(n, i) == tasks[n].at > n \/ i < tasks[n].ev

(* What has been begun is live; what is buffered belongs to its call. *)
FramesOK(c, s) ==
    /\ IsSeq(s)
    /\ \A i \in 1 .. Len(s) :
          s[i] \in 1 .. Len(wire) /\ c \in CallsIn(s[i]) /\ Carries(s[i]) /\ Touched(s[i])

AccType(a) == a = [f \in {"args", "frames", "live"} |-> a[f]] /\ a.live \in BOOLEAN

AccsOK ==
    /\ accs = [c \in Calls |-> accs[c]]
    /\ \A c \in Calls : AccType(accs[c]) /\ FramesOK(c, accs[c].frames)
    /\ \A n \in 1 .. Len(wire) : \A i \in 1 .. Len(Events(provider, wire, n)) :
          Passed(n, i) /\ Events(provider, wire, n)[i].kind = "tool-call-start" =>
              accs[Events(provider, wire, n)[i].index].live
    /\ inFlight \subseteq Calls /\ \A c \in inFlight : accs[c].live

(* What the consumer was given: frames of T, those of a call only if a      *)
(* call of S is among its calls, the others in the order of the wire.      *)
OutIs(w, o, T, S) ==
    /\ IsSeq(o)
    /\ \A i \in 1 .. Len(o) : o[i].kind = "raw" =>
          /\ o[i].id \in T
          /\ CarriesIn(w, o[i].id) => \E k \in DOMAIN w[o[i].id].calls : w[o[i].id].calls[k] \in S
    /\ \A i, j \in 1 .. Len(o) :
          i < j /\ o[i].kind = "raw" /\ o[j].kind = "raw" /\ ~CarriesIn(w, o[j].id) => o[i].id < o[j].id

OutOK ==
    OutIs(wire, out, {n \in 1 .. Len(wire) : Touched(n)}, {c \in Calls : Sanctioned(c)})

(* Every call that was begun is in flight or settled. *)
Answered(c) == \E i \in DOMAIN answers : answers[i].call = c

SettledOK ==
    /\ IsSeq(answers)
    /\ \A i \in 1 .. Len(answers) : answers[i].call \in Calls /\ accs[answers[i].call].live
    /\ \A c \in Calls : accs[c].live => Answered(c) \/ c \in inFlight

(* A loop has settled the calls it has passed; nothing is in flight when   *)
(* the stream is completed.                                                *)
LoopsOK ==
    /\ \A t \in 1 .. Len(tasks) :
          /\ tasks[t].call # TextBlock => \A c \in inFlight : c < tasks[t].call => Answered(c)
          /\ tasks[t].eof /\ tasks[t].at > tasks[t].hi /\ tasks[t].ev = 2 => inFlight = {}
    /\ closed \in {"open", "done", "failed"}
    /\ closed # "open" => up.phase = "ended"
    /\ closed = "done" => inFlight = {} /\ \A t \in 1 .. Len(tasks) : tasks[t].over

GateOK == SettledOK /\ LoopsOK

StreamInv == WireOK /\ TasksOK /\ AccsOK /\ OutOK /\ GateOK
-----------------------------------------------------------------------------
(* Sequences, whatever their elements. *)
LEMMA SeqTyped == ASSUME NEW s, IsSeq(s) PROVE s \in Seq({s[i] : i \in 1 .. Len(s)})
BY DEF IsSeq

LEMMA TypedSeq == ASSUME NEW S, NEW s \in Seq(S) PROVE IsSeq(s) /\ DOMAIN s = 1 .. Len(s)
BY DEF IsSeq

LEMMA SeqDomain == ASSUME NEW s, IsSeq(s) PROVE DOMAIN s = 1 .. Len(s) /\ (s = <<>> <=> Len(s) = 0)
BY SeqTyped, EmptySeq

LEMMA LenNat == ASSUME NEW s, IsSeq(s) PROVE Len(s) \in Nat
BY DEF IsSeq

LEMMA AppendSeq ==
    ASSUME NEW s, IsSeq(s), NEW e
    PROVE  /\ IsSeq(Append(s, e)) /\ Len(Append(s, e)) = Len(s) + 1
           /\ \A i \in 1 .. Len(s) : Append(s, e)[i] = s[i]
           /\ Append(s, e)[Len(s) + 1] = e
<1> DEFINE S == {s[i] : i \in 1 .. Len(s)} \cup {e}
<1>1. s \in Seq({s[i] : i \in 1 .. Len(s)})
  BY SeqTyped
<1>2. s \in Seq(S) /\ e \in S
  BY <1>1
<1> HIDE DEF S
<1>3. Append(s, e) \in Seq(S)
  BY <1>2
<1>4. Len(Append(s, e)) = Len(s) + 1 /\ Append(s, e)[Len(s) + 1] = e
  BY <1>2
<1>5. \A i \in 1 .. Len(s) : Append(s, e)[i] = s[i]
  BY <1>2
<1> QED BY <1>3, <1>4, <1>5, TypedSeq

LEMMA ConcatSeq ==
    ASSUME NEW s, IsSeq(s), NEW t, IsSeq(t)
    PROVE  /\ IsSeq(s \o t) /\ Len(s \o t) = Len(s) + Len(t)
           /\ \A i \in 1 .. Len(s) : (s \o t)[i] = s[i]
           /\ \A i \in 1 .. Len(t) : (s \o t)[Len(s) + i] = t[i]
<1> DEFINE S == {s[i] : i \in 1 .. Len(s)} \cup {t[i] : i \in 1 .. Len(t)}
<1>1. s \in Seq({s[i] : i \in 1 .. Len(s)}) /\ t \in Seq({t[i] : i \in 1 .. Len(t)})
  BY SeqTyped
<1>2. s \in Seq(S) /\ t \in Seq(S)
  BY <1>1
<1> HIDE DEF S
<1>3. s \o t \in Seq(S)
  BY <1>2
<1>4. Len(s) \in Nat /\ Len(t) \in Nat
  BY DEF IsSeq
<1>5. Len(s \o t) = Len(s) + Len(t)
  BY <1>2
<1>6. \A i \in 1 .. Len(s) : (s \o t)[i] = s[i]
  BY <1>2, <1>4
<1>7. ASSUME NEW i \in 1 .. Len(t) PROVE (s \o t)[Len(s) + i] = t[i]
  <2>1. Len(s) + i \in 1 .. Len(s) + Len(t) /\ ~(Len(s) + i <= Len(s)) /\ (Len(s) + i) - Len(s) = i
    BY <1>4
  <2> QED BY <1>2, <1>4, <2>1
<1> QED BY <1>3, <1>5, <1>6, <1>7, TypedSeq

LEMMA OneSeq == ASSUME NEW e PROVE IsSeq(<<e>>) /\ Len(<<e>>) = 1 /\ <<e>>[1] = e
BY DEF IsSeq

LEMMA NoSeq == IsSeq(<<>>) /\ Len(<<>>) = 0
BY DEF IsSeq

(* The least of a set of calls. *)
LEMMA Least ==
    ASSUME NEW S \in SUBSET Calls, S # {} PROVE Min(S) \in S /\ \A c \in S : Min(S) <= c
<1> DEFINE R == OpToRel(<, Nat)
<1>1. IsWellFoundedOn(R, Nat)
  BY NatLessThanWellFounded
<1>2. S \subseteq Nat
  BY WireAssumption DEF Calls
<1>3. PICK x \in S : \A y \in S : ~(<<y, x>> \in R)
  <2> HIDE DEF R
  <2> QED BY <1>1, <1>2, WFMin
<1>4. \A y \in S : y < x => <<y, x>> \in R
  BY <1>2 DEF OpToRel
<1> HIDE DEF R
<1>5. \A y \in S : ~(y < x)
  BY <1>3, <1>4, Zenon
<1>6. \A y \in S : x <= y
  BY <1>2, <1>5
<1> QED BY <1>6 DEF Min
-----------------------------------------------------------------------------
(* The parsers: the events of a frame depend on the frames up to it. *)
LEMMA EventsLocal ==
    ASSUME NEW p, NEW v, NEW w, NEW n \in Nat \ {0}, \A m \in 1 .. n : v[m] = w[m]
    PROVE  /\ Events(p, v, n) = Events(p, w, n)
           /\ FrameOK(p, w, n) => FrameOK(p, v, n)
<1>1. v[n] = w[n]
  OBVIOUS
<1>2. ToolUseIndices(v, n) = ToolUseIndices(w, n)
  <2>1. ASSUME NEW c \in Calls
        PROVE  c \in ToolUseIndices(v, n) <=> c \in ToolUseIndices(w, n)
    <3>1. \A i \in 1 .. n - 1 : v[i] = w[i] /\ \A j \in i + 1 .. n - 1 : v[j] = w[j]
      OBVIOUS
    <3> QED BY <3>1 DEF ToolUseIndices
  <2> QED BY <2>1 DEF ToolUseIndices
<1>3. Events(p, v, n) = Events(p, w, n)
  BY <1>1, <1>2 DEF Events, OpenAISSEParser, CohereV2SSEParser, GeminiSSEParser,
                    BedrockConverseStreamParser, MapAnthropicChunkObject
<1>4. \A c : Begun(v, n, c) <=> Begun(w, n, c)
  BY DEF Begun
<1>5. FrameOK(p, w, n) => FrameOK(p, v, n)
  BY <1>1, <1>2, <1>4 DEF FrameOK
<1> QED BY <1>3, <1>5

(* What the parsers but Gemini's make of a frame. *)
FirstEvent(p, w, n) ==
    LET f == w[n]
        e == Events(p, w, n)
    IN  /\ IsSeq(e) /\ Len(e) \in {1, 2} /\ e[1].rawFrame = n /\ e[1].index = Index(f)
        /\ f.type \in Plain => e[1].kind \in PassKinds
        /\ f.type = "start" => e[1].kind = "tool-call-start"
        /\ f.type = "args" =>
              e[1].kind = IF f.args = <<>> THEN "passthrough" ELSE "tool-call-arguments"
        /\ f.type = "stop" =>
              e[1].kind = IF f.calls = <<>> THEN "passthrough" ELSE "tool-call-end"
        /\ Len(e) = 2 => /\ f.type = "start" /\ e[2].kind = "tool-call-arguments"
                         /\ e[2].index = Index(f) /\ e[2].rawFrame = EMPTY_FRAME

LEMMA OpenAIFirst ==
    ASSUME NEW w, NEW n \in Nat \ {0}, FrameOK("openai", w, n) PROVE FirstEvent("openai", w, n)
<1> DEFINE f == w[n]
           e == Events("openai", w, n)
           table == [start |-> "tool-call-start", args |-> "tool-call-arguments",
                     text |-> "text-delta", reason |-> "finish", done |-> "finish"]
           kind == IF f.type \in DOMAIN table THEN table[f.type] ELSE "passthrough"
<1>1. PICK a : e = <<WireEvent(kind, Index(f), a, n)>>
  <2>1. e = OpenAISSEParser(w, n)
    BY DEF Events
  <2>2. CASE f.type = "start"
    BY <2>1, <2>2 DEF OpenAISSEParser, Mapped, WireEvent
  <2>3. CASE f.type # "start"
    BY <2>1, <2>3 DEF OpenAISSEParser, Mapped
  <2> QED BY <2>2, <2>3
<1>2. /\ f.type \in Plain => kind \in PassKinds
      /\ f.type = "start" => kind = "tool-call-start"
      /\ f.type = "args" => kind = "tool-call-arguments" /\ f.args # <<>>
      /\ f.type # "stop"
  BY DEF FrameOK, Plain, PassKinds
<1> HIDE DEF kind, e
<1>3. IsSeq(e) /\ Len(e) = 1 /\ e[1] = WireEvent(kind, Index(f), a, n)
  BY <1>1, OneSeq
<1> QED BY <1>2, <1>3 DEF FirstEvent, WireEvent, e

LEMMA CohereFirst ==
    ASSUME NEW w, NEW n \in Nat \ {0}, FrameOK("cohere", w, n) PROVE FirstEvent("cohere", w, n)
<1> DEFINE f == w[n]
           e == Events("cohere", w, n)
           table == [args |-> "tool-call-arguments", stop |-> "tool-call-end",
                     text |-> "text-delta", done |-> "finish"]
           kind == IF f.type \in DOMAIN table THEN table[f.type] ELSE "passthrough"
           e1 == WireEvent("tool-call-start", Index(f), <<>>, n)
           e2 == WireEvent("tool-call-arguments", Index(f), f.args, EMPTY_FRAME)
<1>1. e = CohereV2SSEParser(w, n)
  BY DEF Events
<1>2. CASE f.type = "start"
  <2>1. e = <<e1>> \o (IF f.args = <<>> THEN <<>> ELSE <<e2>>)
    BY <1>1, <1>2 DEF CohereV2SSEParser
  <2>2. CASE f.args = <<>>
    <3>1. e = <<e1>> \o <<>>
      BY <2>1, <2>2
    <3> HIDE DEF e1, e
    <3>2. IsSeq(e) /\ Len(e) = 1 /\ e[1] = e1
      BY <3>1, OneSeq, NoSeq, ConcatSeq
    <3> QED BY <1>2, <3>2 DEF FirstEvent, WireEvent, e, e1, Plain
  <2>3. CASE f.args # <<>>
    <3>1. e = <<e1>> \o <<e2>>
      BY <2>1, <2>3
    <3> HIDE DEF e1, e2, e
    <3>2. /\ IsSeq(<<e1>>) /\ Len(<<e1>>) = 1 /\ <<e1>>[1] = e1
          /\ IsSeq(<<e2>>) /\ Len(<<e2>>) = 1 /\ <<e2>>[1] = e2
      BY OneSeq
    <3>3. IsSeq(e) /\ Len(e) = 2 /\ e[1] = e1 /\ e[2] = e2
      BY <3>1, <3>2, ConcatSeq
    <3> QED BY <1>2, <3>3 DEF FirstEvent, WireEvent, e, e1, e2, Plain
  <2> QED BY <2>2, <2>3
<1>3. CASE f.type = "args" /\ f.args = <<>>
  <2>1. e = <<WireEvent("passthrough", Index(f), <<>>, n)>>
    BY <1>1, <1>3 DEF CohereV2SSEParser
  <2> HIDE DEF e
  <2>2. IsSeq(e) /\ Len(e) = 1 /\ e[1] = WireEvent("passthrough", Index(f), <<>>, n)
    BY <2>1, OneSeq
  <2> QED BY <1>3, <2>2 DEF FirstEvent, WireEvent, e, Plain
<1>4. CASE f.type # "start" /\ ~(f.type = "args" /\ f.args = <<>>)
  <2>1. e = <<WireEvent(kind, Index(f), f.args, n)>>
    BY <1>1, <1>4 DEF CohereV2SSEParser, Mapped
  <2>2. /\ f.type \in Plain => kind \in PassKinds
        /\ f.type = "args" => kind = "tool-call-arguments"
        /\ f.type = "stop" => kind = "tool-call-end" /\ f.calls # <<>>
    BY DEF FrameOK, Plain, PassKinds
  <2> HIDE DEF kind, e
  <2>3. IsSeq(e) /\ Len(e) = 1 /\ e[1] = WireEvent(kind, Index(f), f.args, n)
    BY <2>1, OneSeq
  <2> QED BY <1>4, <2>2, <2>3 DEF FirstEvent, WireEvent, e
<1> QED BY <1>2, <1>3, <1>4

LEMMA ToolUseFirst ==
    ASSUME NEW p \in {"anthropic", "bedrock-invoke", "bedrock-converse"},
           NEW w, NEW n \in Nat \ {0}, FrameOK(p, w, n)
    PROVE  FirstEvent(p, w, n)
<1> DEFINE f == w[n]
           e == Events(p, w, n)
           table == [start |-> "tool-call-start", args |-> "tool-call-arguments",
                     text |-> "text-delta", done |-> "finish"]
           kind == IF f.type \in DOMAIN table THEN table[f.type] ELSE "passthrough"
<1>1. e = IF f.type = "stop" /\ Index(f) \in ToolUseIndices(w, n)
          THEN <<WireEvent("tool-call-end", Index(f), <<>>, n)>>
          ELSE <<WireEvent(kind, Index(f), f.args, n)>>
  BY DEF Events, MapAnthropicChunkObject, BedrockConverseStreamParser, Mapped
<1>2. CASE f.type = "stop" /\ Index(f) \in ToolUseIndices(w, n)
  <2>1. f.calls # <<>>
    BY <1>2, WireAssumption DEF ToolUseIndices, Index, TextBlock, Calls
  <2>2. e = <<WireEvent("tool-call-end", Index(f), <<>>, n)>>
    BY <1>1, <1>2
  <2> HIDE DEF e
  <2>3. IsSeq(e) /\ Len(e) = 1 /\ e[1] = WireEvent("tool-call-end", Index(f), <<>>, n)
    BY <2>2, OneSeq
  <2> QED BY <1>2, <2>1, <2>3 DEF FirstEvent, WireEvent, e, Plain
<1>3. CASE ~(f.type = "stop" /\ Index(f) \in ToolUseIndices(w, n))
  <2>1. e = <<WireEvent(kind, Index(f), f.args, n)>>
    BY <1>1, <1>3
  <2>2. f.type = "stop" => f.calls = <<>> /\ kind = "passthrough"
    BY <1>3 DEF FrameOK, Index
  <2>3. /\ f.type \in Plain => kind \in PassKinds
        /\ f.type = "start" => kind = "tool-call-start"
        /\ f.type = "args" => kind = "tool-call-arguments" /\ f.args # <<>>
    BY DEF Plain, PassKinds, FrameOK
  <2> HIDE DEF kind, e
  <2>4. IsSeq(e) /\ Len(e) = 1 /\ e[1] = WireEvent(kind, Index(f), f.args, n)
    BY <2>1, OneSeq
  <2> QED BY <2>2, <2>3, <2>4 DEF FirstEvent, WireEvent, e
<1> QED BY <1>2, <1>3

LEMMA OneOrTwo == \A m, k : (m = 1 \/ m = 2) /\ k \in 1 .. m => k = 1 \/ (k = 2 /\ m = 2)
OBVIOUS

LEMMA PlainEventsOK ==
    ASSUME NEW p \in Providers \ {"gemini"}, NEW w, NEW n \in Nat \ {0},
           \A m \in 1 .. n : FrameOK(p, w, m), NEW i \in 1 .. Len(Events(p, w, n))
    PROVE  EventOK(p, w, n, i)
<1> DEFINE f == w[n]
           e == Events(p, w, n)
<1>1. \A m \in 1 .. n : FirstEvent(p, w, m)
  BY OpenAIFirst, CohereFirst, ToolUseFirst DEF Providers
<1>2. FrameOK(p, w, n) /\ FirstEvent(p, w, n)
  BY <1>1
<1>3. f.calls \in Seq(Calls) /\ (f.calls # <<>> => 1 \in DOMAIN f.calls /\ f.calls[1] \in Calls)
  <2>1. f.calls \in Seq(Calls)
    BY <1>2 DEF FrameOK
  <2> HIDE DEF f
  <2> QED BY <2>1, EmptySeq
<1>4. i = 1 \/ (i = 2 /\ Len(e) = 2)
  <2>1. Len(e) = 1 \/ Len(e) = 2
    BY <1>2 DEF FirstEvent
  <2> QED BY <2>1, OneOrTwo
<1>5. f.calls # <<>> => Index(f) = f.calls[1]
  BY DEF Index
<1>6. CASE i = 1 /\ e[1].kind \in PassKinds
  <2>1. ~CarriesIn(w, n)
    BY <1>2, <1>6 DEF FirstEvent, FrameOK, CarriesIn, PassKinds, Plain
  <2>2. e[1].rawFrame = n /\ e[1].kind \notin CallKinds
    BY <1>2, <1>6 DEF FirstEvent, PassKinds, CallKinds
  <2> QED BY <1>6, <2>1, <2>2 DEF EventOK, CallKinds
<1>7. CASE i = 1 /\ e[1].kind \notin PassKinds
  <2>1. f.calls # <<>> /\ e[1].index = f.calls[1] /\ e[1].rawFrame = n
    BY <1>2, <1>5, <1>7 DEF FirstEvent, FrameOK, PassKinds, Plain
  <2>2. f.type # "start" => Begun(w, n, f.calls[1])
    BY <1>2, <1>7, <2>1 DEF FirstEvent, FrameOK, PassKinds, Plain
  <2>3. f.type = "start" => e[1].kind = "tool-call-start"
    BY <1>2 DEF FirstEvent
  <2>4. ASSUME f.type # "start"
        PROVE  \E m \in 1 .. n : \E j \in 1 .. Len(Events(p, w, m)) :
                  /\ Before(m, j, n, 1)
                  /\ Events(p, w, m)[j].kind = "tool-call-start"
                  /\ Events(p, w, m)[j].index = e[1].index
    <3>1. PICK m \in 1 .. n - 1 : w[m].type = "start" /\ Index(w[m]) = f.calls[1]
      BY <2>2, <2>4 DEF Begun
    <3>2. m \in 1 .. n /\ m < n
      OBVIOUS
    <3>3. /\ 1 \in 1 .. Len(Events(p, w, m)) /\ Events(p, w, m)[1].kind = "tool-call-start"
          /\ Events(p, w, m)[1].index = e[1].index
      BY <1>1, <2>1, <3>1, <3>2 DEF FirstEvent
    <3> QED BY <3>2, <3>3 DEF Before
  <2>5. CarriesIn(w, n)
    BY <1>2, <1>7, <2>1 DEF FirstEvent, CarriesIn, PassKinds
  <2> QED BY <1>3, <1>7, <2>1, <2>3, <2>4, <2>5 DEF EventOK, CallKinds
<1>8. CASE i = 2 /\ Len(e) = 2
  <2>1. /\ f.type = "start" /\ e[2].kind = "tool-call-arguments" /\ e[2].index = Index(f)
        /\ e[2].rawFrame = EMPTY_FRAME /\ e[1].kind = "tool-call-start" /\ e[1].index = Index(f)
    BY <1>2, <1>8 DEF FirstEvent
  <2>2. Index(f) \in Calls
    BY <1>2, <1>3, <1>5, <2>1 DEF FrameOK
  <2>3. n \in 1 .. n /\ 1 \in 1 .. Len(e) /\ Before(n, 1, n, 2)
    BY <1>8 DEF Before
  <2> QED BY <1>8, <2>1, <2>2, <2>3 DEF EventOK, PassKinds
<1> QED BY <1>4, <1>6, <1>7, <1>8

(* Gemini's: three events for each call of the frame. *)
LEMMA Thirds ==
    ASSUME NEW j \in Nat \ {0}, NEW k \in Nat, j <= 3 * k
    PROVE  /\ (j - 1) % 3 \in {0, 1, 2} /\ 1 + ((j - 1) \div 3) \in 1 .. k
           /\ LET i == j - ((j - 1) % 3)
              IN  i \in 1 .. j /\ (i - 1) % 3 = 0 /\ (i - 1) \div 3 = (j - 1) \div 3
           /\ (j - 1) % 3 # 0 => j - ((j - 1) % 3) < j
OBVIOUS

Third(w, n, j) ==
    LET c == w[n].calls[1 + ((j - 1) \div 3)]
    IN  << WireEvent("tool-call-start", c, <<>>, n),
           WireEvent("tool-call-arguments", c, Whole, EMPTY_FRAME),
           WireEvent("tool-call-end", c, <<>>, EMPTY_FRAME) >>[1 + ((j - 1) % 3)]

LEMMA ThirdIs ==
    ASSUME NEW w, NEW n, NEW j \in Nat \ {0},  (j - 1) % 3 \in {0, 1, 2}
    PROVE  LET c == w[n].calls[1 + ((j - 1) \div 3)]
               r == (j - 1) % 3
           IN  /\ r = 0 => Third(w, n, j) = WireEvent("tool-call-start", c, <<>>, n)
               /\ r = 1 => Third(w, n, j) = WireEvent("tool-call-arguments", c, Whole, EMPTY_FRAME)
               /\ r = 2 => Third(w, n, j) = WireEvent("tool-call-end", c, <<>>, EMPTY_FRAME)
<1> DEFINE r == (j - 1) % 3
<1>1. CASE r = 0
  <2>1. 1 + r = 1
    BY <1>1
  <2> HIDE DEF r
  <2> QED BY <1>1, <2>1 DEF Third, r
<1>2. CASE r = 1
  <2>1. 1 + r = 2
    BY <1>2
  <2> HIDE DEF r
  <2> QED BY <1>2, <2>1 DEF Third, r
<1>3. CASE r = 2
  <2>1. 1 + r = 3
    BY <1>3
  <2> HIDE DEF r
  <2> QED BY <1>3, <2>1 DEF Third, r
<1> QED BY <1>1, <1>2, <1>3

LEMMA GeminiShape ==
    ASSUME NEW w, NEW n \in Nat \ {0}, FrameOK("gemini", w, n)
    PROVE  LET e == Events("gemini", w, n)
               k == Len(w[n].calls)
           IN  /\ IsSeq(e) /\ Len(e) \in Nat \ {0} /\ k \in Nat
               /\ Len(e) = (IF k = 0 THEN 1 ELSE 3 * k) + (IF w[n].type = "last" THEN 1 ELSE 0)
               /\ k = 0 => e[1] = WireEvent("passthrough", TextBlock, <<>>, n)
               /\ \A j \in 1 .. 3 * k : j \in 1 .. Len(e) /\ e[j] = Third(w, n, j)
               /\ \A j \in 1 .. Len(e) : (k = 0 /\ j = 1) \/ j <= 3 * k
                                         \/ e[j] = WireEvent("finish", TextBlock, <<>>, EMPTY_FRAME)
<1> DEFINE f == w[n]
           e == Events("gemini", w, n)
           k == Len(f.calls)
           call == [j \in 1 .. 3 * k |-> Third(w, n, j)]
           pass == <<WireEvent("passthrough", TextBlock, <<>>, n)>>
           end == WireEvent("finish", TextBlock, <<>>, EMPTY_FRAME)
           a == IF f.calls = <<>> THEN pass ELSE call
           b == IF f.type = "last" THEN <<end>> ELSE <<>>
<1>1. e = a \o b
  BY DEF Events, GeminiSSEParser, Third
<1>2. k \in Nat /\ (f.calls = <<>> <=> k = 0)
  <2>1. f.calls \in Seq(Calls)
    BY DEF FrameOK
  <2> HIDE DEF f
  <2> QED BY <2>1, EmptySeq
<1>3. IsSeq(b) /\ Len(b) \in {0, 1} /\ Len(b) = (IF f.type = "last" THEN 1 ELSE 0) /\ (\A i \in 1 .. Len(b) : b[i] = end)
  <2>1. CASE f.type = "last"
    <3> HIDE DEF end
    <3> QED BY <2>1, OneSeq
  <2>2. CASE f.type # "last"
    <3> HIDE DEF end
    <3> QED BY <2>2, NoSeq
  <2> QED BY <2>1, <2>2
<1>4. IsSeq(call) /\ Len(call) = 3 * k
  BY <1>2 DEF IsSeq
<1>5. IsSeq(pass) /\ Len(pass) = 1 /\ pass[1] = WireEvent("passthrough", TextBlock, <<>>, n)
  BY OneSeq
<1> HIDE DEF e, b, k, end
<1>6. CASE k = 0
  <2>1. a = pass
    BY <1>2, <1>6
  <2> HIDE DEF a, pass
  <2>2. IsSeq(e) /\ Len(e) = 1 + Len(b) /\ e[1] = pass[1] /\ (\A i \in 1 .. Len(b) : e[1 + i] = b[i])
    <3>1. e = pass \o b
      BY <1>1, <2>1
    <3>2. IsSeq(pass) /\ Len(pass) = 1 /\ IsSeq(b)
      BY <1>3, <1>5
    <3>3. IsSeq(e) /\ Len(e) = Len(pass) + Len(b)
      BY <3>1, <3>2, ConcatSeq
    <3>4. \A i \in 1 .. Len(pass) : e[i] = pass[i]
      BY <3>1, <3>2, ConcatSeq
    <3>5. \A i \in 1 .. Len(b) : e[Len(pass) + i] = b[i]
      <4>1. IsSeq(pass) /\ IsSeq(b)
        BY <3>2
      <4>2. \A i \in 1 .. Len(b) : (pass \o b)[Len(pass) + i] = b[i]
        BY <4>1, ConcatSeq
      <4> QED BY <3>1, <4>2
    <3> QED BY <3>2, <3>3, <3>4, <3>5
  <2>3. \A j \in 1 .. Len(e) : j = 1 \/ e[j] = end
    <3>1. ASSUME NEW j \in 1 .. Len(e), j # 1 PROVE j - 1 \in 1 .. Len(b) /\ 1 + (j - 1) = j
      BY <1>3, <2>2, <3>1
    <3> QED BY <1>3, <2>2, <3>1
  <2>4. Len(e) \in Nat \ {0}
    BY <1>3, <2>2
  <2>5. ~\E j \in 1 .. 3 * k : TRUE
    BY <1>6
  <2>6. Len(e) = (IF k = 0 THEN 1 ELSE 3 * k) + (IF f.type = "last" THEN 1 ELSE 0)
    BY <1>3, <1>6, <2>2
  <2> QED BY <1>2, <1>5, <1>6, <2>2, <2>3, <2>4, <2>5, <2>6 DEF e, k, end, pass
<1>7. CASE k # 0
  <2>1. a = call
    BY <1>2, <1>7
  <2>2. \A j \in 1 .. 3 * k : call[j] = Third(w, n, j)
    OBVIOUS
  <2> HIDE DEF a, call
  <2>3. /\ IsSeq(e) /\ Len(e) = 3 * k + Len(b) /\ (\A j \in 1 .. 3 * k : e[j] = call[j])
        /\ \A i \in 1 .. Len(b) : e[3 * k + i] = b[i]
    BY <1>1, <1>3, <1>4, <2>1, ConcatSeq
  <2>4. \A j \in 1 .. Len(e) : j <= 3 * k \/ e[j] = end
    <3>1. ASSUME NEW j \in 1 .. Len(e), ~(j <= 3 * k)
          PROVE  j - 3 * k \in 1 .. Len(b) /\ 3 * k + (j - 3 * k) = j
      BY <1>2, <1>3, <2>3, <3>1
    <3> QED BY <1>3, <2>3, <3>1
  <2>5. Len(e) \in Nat \ {0} /\ 1 .. 3 * k \subseteq 1 .. Len(e)
    BY <1>2, <1>3, <1>7, <2>3
  <2>6. Len(e) = (IF k = 0 THEN 1 ELSE 3 * k) + (IF f.type = "last" THEN 1 ELSE 0)
    BY <1>2, <1>3, <1>7, <2>3
  <2> QED BY <1>2, <1>7, <2>2, <2>3, <2>4, <2>5, <2>6 DEF e, k, end
<1> QED BY <1>6, <1>7

LEMMA GeminiEventsOK ==
    ASSUME NEW w, NEW n \in Nat \ {0}, FrameOK("gemini", w, n), NEW i \in 1 .. Len(Events("gemini", w, n))
    PROVE  EventOK("gemini", w, n, i)
<1> DEFINE f == w[n]
           e == Events("gemini", w, n)
           k == Len(f.calls)
<1>1. /\ IsSeq(e) /\ Len(e) \in Nat \ {0} /\ k \in Nat
      /\ k = 0 => e[1] = WireEvent("passthrough", TextBlock, <<>>, n)
      /\ \A j \in 1 .. 3 * k : j \in 1 .. Len(e) /\ e[j] = Third(w, n, j)
      /\ \A j \in 1 .. Len(e) : (k = 0 /\ j = 1) \/ j <= 3 * k
                                \/ e[j] = WireEvent("finish", TextBlock, <<>>, EMPTY_FRAME)
  BY GeminiShape
<1>2. f.calls \in Seq(Calls) /\ (k = 0 => f.calls = <<>>)
  <2>1. f.calls \in Seq(Calls)
    BY DEF FrameOK
  <2> HIDE DEF f
  <2> QED BY <2>1, EmptySeq
<1>3. CASE k = 0 /\ i = 1
  <2>1. ~CarriesIn(w, n)
    BY <1>2, <1>3 DEF CarriesIn
  <2> QED BY <1>1, <1>3, <2>1 DEF EventOK, WireEvent, CallKinds
<1>4. CASE e[i] = WireEvent("finish", TextBlock, <<>>, EMPTY_FRAME)
  BY <1>4 DEF EventOK, WireEvent, CallKinds
<1>5. CASE i <= 3 * k
  <2> DEFINE r == (i - 1) % 3
             h == i - r
             c == f.calls[1 + ((i - 1) \div 3)]
  <2>1. i \in Nat \ {0}
    BY <1>1
  <2>2. /\ r \in {0, 1, 2} /\ 1 + ((i - 1) \div 3) \in 1 .. k
        /\ h \in 1 .. i /\ (h - 1) % 3 = 0 /\ (h - 1) \div 3 = (i - 1) \div 3
        /\ r # 0 => h < i
    BY <1>1, <1>5, <2>1, Thirds
  <2>3. 1 + ((i - 1) \div 3) \in DOMAIN f.calls /\ c \in Calls
    BY <1>2, <2>2
  <2>4. e[i] = Third(w, n, i) /\ e[h] = Third(w, n, h) /\ h \in 1 .. Len(e) /\ h \in Nat \ {0}
    BY <1>1, <1>5, <2>1, <2>2
  <2>5. e[h] = WireEvent("tool-call-start", c, <<>>, n)
    BY <2>2, <2>4, ThirdIs
  <2>6. /\ r = 0 => e[i] = WireEvent("tool-call-start", c, <<>>, n)
        /\ r = 1 => e[i] = WireEvent("tool-call-arguments", c, Whole, EMPTY_FRAME)
        /\ r = 2 => e[i] = WireEvent("tool-call-end", c, <<>>, EMPTY_FRAME)
    BY <2>1, <2>2, <2>4, ThirdIs
  <2>7. \E x \in DOMAIN f.calls : f.calls[x] = c
    BY <2>3
  <2>8. n \in 1 .. n /\ (r # 0 => Before(n, h, n, i))
    BY <2>2 DEF Before
  <2> HIDE DEF r, h, c, e, f
  <2>9. e[h].kind = "tool-call-start" /\ e[h].index = c
    BY <2>5 DEF WireEvent
  <2>10. CASE r = 0
    <3>1. e[i].kind = "tool-call-start" /\ e[i].index = c /\ e[i].rawFrame = n
      BY <2>6, <2>10 DEF WireEvent
    <3>2. f.calls # <<>> /\ f.type # "args"
      BY <2>3 DEF FrameOK, f
    <3>3. CarriesIn(w, n)
      BY <3>2 DEF CarriesIn, f
    <3> QED BY <2>3, <2>7, <3>1, <3>3 DEF EventOK, PassKinds, e, f
  <2>11. CASE r # 0
    <3>1. /\ e[i].kind \in {"tool-call-arguments", "tool-call-end"} /\ e[i].index = c
          /\ e[i].rawFrame = EMPTY_FRAME
      BY <2>2, <2>6, <2>11 DEF WireEvent
    <3> QED BY <2>3, <2>4, <2>8, <2>9, <2>11, <3>1 DEF EventOK, PassKinds, e
  <2> QED BY <2>10, <2>11
<1> QED BY <1>1, <1>3, <1>4, <1>5

LEMMA EventsOK ==
    ASSUME NEW p \in Providers, NEW w, NEW n \in Nat \ {0}, \A m \in 1 .. n : FrameOK(p, w, m)
    PROVE  /\ IsSeq(Events(p, w, n)) /\ Len(Events(p, w, n)) \in Nat \ {0}
           /\ \A i \in 1 .. Len(Events(p, w, n)) : EventOK(p, w, n, i)
<1>1. FrameOK(p, w, n)
  OBVIOUS
<1>2. CASE p = "gemini"
  BY <1>1, <1>2, GeminiShape, GeminiEventsOK
<1>3. CASE p # "gemini"
  <2>1. FirstEvent(p, w, n)
    BY <1>1, <1>3, OpenAIFirst, CohereFirst, ToolUseFirst DEF Providers
  <2> QED BY <1>3, <2>1, PlainEventsOK DEF FirstEvent
<1> QED BY <1>2, <1>3
-----------------------------------------------------------------------------
(* The upstream. *)
Going(c) == c \in Calls /\ c < up.started /\ c \notin up.shut

Offered(f) ==
    /\ f.calls \in Seq(Calls) /\ f.args \in Seq(Nat) /\ (f.calls # <<>> => up.phase = "body")
    /\ provider = "gemini" =>
          /\ f.type \in {"cand", "last"} /\ up.started + Len(f.calls) <= MaxCalls
          /\ \A i \in 1 .. Len(f.calls) : f.calls[i] = up.started + i - 1
    /\ provider # "gemini" =>
          \/ f.type \in {"text", "reason", "done", "other"} /\ f.calls = <<>>
          \/ f.type = "start" /\ f.calls = <<up.started>> /\ up.started < MaxCalls
          \/ /\ f.type = "args" /\ \E c : Going(c) /\ f.calls = <<c>>
             /\ provider = "cohere" \/ f.args # <<>>
          \/ f.type = "stop" /\ provider # "openai" /\ \E c : Going(c) /\ f.calls = <<c>>
          \/ f.type = "stop" /\ provider \notin {"openai", "cohere"} /\ f.calls = <<>>

LEMMA OneCall == ASSUME NEW c \in Calls PROVE <<c>> \in Seq(Calls)
OBVIOUS

LEMMA WholeIs == Whole \in Seq(Nat) /\ Len(Whole) = ArgPieces
BY WireAssumption DEF Whole

LEMMA Pieces ==
    ASSUME NEW a \in Nat, NEW k \in Nat, k <= ArgPieces
    PROVE  SubSeq(Whole, a + 1, k) \in Seq(Nat) /\ (a < k => SubSeq(Whole, a + 1, k) # <<>>)
<1>1. Whole \in Seq(Nat) /\ Len(Whole) = ArgPieces /\ ArgPieces \in Nat
  BY WholeIs, WireAssumption
<1> DEFINE s == SubSeq(Whole, a + 1, k)
<1>2. CASE a < k
  <2>1. a + 1 \in 1 .. Len(Whole) + 1 /\ k \in a + 1 - 1 .. Len(Whole) /\ a + 1 <= k
    BY <1>1, <1>2
  <2> HIDE DEF s
  <2>2. s \in Seq(Nat) /\ Len(s) = k - (a + 1) + 1
    BY <1>1, <2>1, SubSeqProperties DEF s
  <2>3. Len(s) # 0
    BY <1>2, <2>2
  <2>4. s # <<>>
    BY <2>2, <2>3
  <2> QED BY <2>2, <2>4 DEF s
<1>3. CASE ~(a < k)
  <2>1. s = <<>>
    BY <1>1, <1>3, SubSeqEmpty
  <2>2. <<>> \in Seq(Nat)
    OBVIOUS
  <2> QED BY <1>3, <2>1, <2>2
<1> QED BY <1>2, <1>3

LEMMA OffersAre == ASSUME WireOK, NEW f \in Offers PROVE Offered(f)
<1>1. up.started \in 0 .. MaxCalls /\ MaxCalls \in Nat /\ CallsPerFrame \in Nat
  BY WireAssumption, StreamAssumption DEF WireOK, UpOK
<1> DEFINE body == up.phase = "body"
           open == {c \in Calls : c < up.started /\ c \notin up.shut}
           first == IF provider \in {"openai", "cohere"} THEN {0, 1} ELSE {0}
           plain == {WireFrame(t, <<>>, <<>>) : t \in
                       (IF body THEN {"text"} ELSE {}) \cup
                       (IF body /\ provider \in {"openai", "anthropic", "bedrock-invoke"}
                        THEN {"reason"} ELSE {}) \cup
                       (IF up.phase \in {"body", "reason"} THEN {"done"} ELSE {}) \cup
                       (IF up.phase = "done" /\ provider = "bedrock-converse" THEN {"other"} ELSE {})}
           start == {WireFrame("start", <<up.started>>, SubSeq(Whole, 1, k)) :
                        k \in {j \in first : body /\ up.started < MaxCalls}}
           args  == UNION {{WireFrame("args", <<c>>, SubSeq(Whole, up.pieces[c] + 1, k)) :
                               k \in up.pieces[c] + (IF provider = "cohere" THEN 0 ELSE 1) .. ArgPieces} :
                           c \in {d \in open : body}}
           stop  == {WireFrame("stop", s, <<>>) :
                        s \in IF ~body \/ provider = "openai" THEN {}
                              ELSE {<<c>> : c \in open} \cup
                                   (IF provider = "cohere" THEN {} ELSE {<<>>})}
           run(k) == [i \in 1 .. k |-> up.started + i - 1]
           gem  == {WireFrame(t, run(k), Whole) :
                       t \in {s \in {"cand", "last"} : body},
                       k \in {j \in 0 .. CallsPerFrame : up.started + j <= MaxCalls}}
<1>0. Offers = IF provider = "gemini" THEN gem ELSE plain \cup start \cup args \cup stop
  BY DEF Offers
<1>2. CASE provider = "gemini"
  <2>0. f \in gem
    <3> HIDE DEF gem, plain, start, args, stop
    <3> QED BY <1>0, <1>2
  <2>1. PICK t, k :
          /\ t \in {"cand", "last"} /\ k \in 0 .. CallsPerFrame /\ up.started + k <= MaxCalls
          /\ f = WireFrame(t, run(k), Whole) /\ body
    <3> HIDE DEF run
    <3> QED BY <2>0 DEF WireFrame
  <2>2. k \in Nat /\ up.started + k <= MaxCalls /\ t \in {"cand", "last"}
    BY <1>1, <2>1
  <2>3. \A i \in 1 .. k : up.started + i - 1 \in Calls
    BY <1>1, <2>2 DEF Calls
  <2>4. run(k) \in Seq(Calls) /\ Len(run(k)) = k
    BY <2>2, <2>3
  <2>5. \A i \in 1 .. k : run(k)[i] = up.started + i - 1
    OBVIOUS
  <2> HIDE DEF run
  <2> QED BY <1>2, <2>1, <2>2, <2>4, <2>5, WholeIs DEF Offered, WireFrame
<1>3. CASE provider # "gemini"
  <2>1. f \in plain \/ f \in start \/ f \in args \/ f \in stop
    <3> HIDE DEF gem, plain, start, args, stop
    <3> QED BY <1>0, <1>3
  <2>2. CASE f \in plain
    <3>1. PICK t \in {"text", "reason", "done", "other"} : f = WireFrame(t, <<>>, <<>>)
      BY <2>2
    <3>2. <<>> \in Seq(Calls)
      OBVIOUS
    <3> QED BY <1>3, <3>1, <3>2 DEF Offered, WireFrame
  <2>3. CASE f \in start
    <3>1. PICK k \in {j \in first : body /\ up.started < MaxCalls} :
              f = WireFrame("start", <<up.started>>, SubSeq(Whole, 1, k))
      BY <2>3
    <3>2. up.started < MaxCalls /\ up.started \in Calls /\ body
      BY <1>1, <3>1 DEF Calls
    <3>3. SubSeq(Whole, 1, k) \in Seq(Nat)
      <4>1. k \in Nat /\ k <= ArgPieces
        BY WireAssumption
      <4> QED BY <4>1, Pieces
    <3> QED BY <1>3, <3>1, <3>2, <3>3, OneCall DEF Offered, WireFrame
  <2>4. CASE f \in args
    <3>1. PICK c \in open :
            \E k \in up.pieces[c] + (IF provider = "cohere" THEN 0 ELSE 1) .. ArgPieces :
                f = WireFrame("args", <<c>>, SubSeq(Whole, up.pieces[c] + 1, k))
      BY <2>4
    <3>2. PICK k \in up.pieces[c] + (IF provider = "cohere" THEN 0 ELSE 1) .. ArgPieces :
              f = WireFrame("args", <<c>>, SubSeq(Whole, up.pieces[c] + 1, k))
      BY <3>1
    <3>3. up.pieces[c] \in Nat
      BY <3>1 DEF WireOK, UpOK
    <3>4. k \in Nat /\ k <= ArgPieces /\ (provider # "cohere" => up.pieces[c] < k)
      BY <3>2, <3>3, WireAssumption
    <3>5. f.args \in Seq(Nat) /\ (provider # "cohere" => f.args # <<>>)
      BY <3>2, <3>3, <3>4, Pieces DEF WireFrame
    <3>6. f.type = "args" /\ f.calls = <<c>> /\ Going(c)
      BY <3>1, <3>2 DEF WireFrame, Going
    <3>7. body
      BY <2>4
    <3> QED BY <1>3, <3>1, <3>5, <3>6, <3>7, OneCall DEF Offered
  <2>5. CASE f \in stop
    <3>1. PICK s : /\ f = WireFrame("stop", s, <<>>) /\ provider # "openai" /\ body
                   /\ s \in {<<c>> : c \in open} \/ (provider # "cohere" /\ s = <<>>)
      BY <2>5
    <3>2. CASE s \in {<<c>> : c \in open}
      <4>1. PICK c \in open : s = <<c>>
        BY <3>2
      <4> QED BY <1>3, <3>1, <4>1, OneCall DEF Offered, WireFrame, Going
    <3>3. CASE provider # "cohere" /\ s = <<>>
      <4>1. <<>> \in Seq(Calls)
        OBVIOUS
      <4> QED BY <1>3, <3>1, <3>3, <4>1 DEF Offered, WireFrame
    <3> QED BY <3>1, <3>2, <3>3
  <2> QED BY <2>1, <2>2, <2>3, <2>4, <2>5
<1> QED BY <1>2, <1>3

Cut == WireFrame("cut", <<>>, <<>>)

(* v is the wire with one more frame. *)
Longer(v) ==
    /\ IsSeq(v) /\ Len(v) = Len(wire) + 1 /\ \A m \in 1 .. Len(wire) : v[m] = wire[m]
    /\ \A m \in 1 .. Len(v) : FrameOK(provider, v, m)

LEMMA FrameAdded ==
    ASSUME WireOK, NEW f, Offered(f) \/ f = Cut, NEW v, v = Append(wire, f)
    PROVE  Longer(v) /\ v[Len(wire) + 1] = f
<1> DEFINE n == Len(wire) + 1
<1>1. IsSeq(wire) /\ Len(wire) \in Nat /\ n \in Nat \ {0} /\ \A m \in 1 .. Len(wire) : FrameOK(provider, wire, m)
  BY DEF WireOK, IsSeq
<1>2. IsSeq(v) /\ Len(v) = n
  BY <1>1, AppendSeq
<1>3. \A m \in 1 .. Len(wire) : v[m] = wire[m]
  BY <1>1, AppendSeq
<1>4. v[n] = f
  BY <1>1, AppendSeq
<1>5. ASSUME NEW m \in 1 .. Len(wire) PROVE FrameOK(provider, v, m)
  <2>1. m \in Nat \ {0} /\ \A i \in 1 .. m : v[i] = wire[i]
    BY <1>1, <1>3
  <2> QED BY <1>1, <2>1, EventsLocal
<1>6. FrameOK(provider, v, n)
  <2>1. CASE f = Cut
    <3>1. v[n].type = "cut" /\ v[n].calls = <<>> /\ <<>> \in Seq(Calls)
      BY <1>4, <2>1 DEF Cut, WireFrame
    <3> QED BY <3>1 DEF FrameOK, Plain
  <2>2. CASE Offered(f) /\ provider = "gemini"
    BY <1>4, <2>2 DEF Offered, FrameOK
  <2>3. CASE Offered(f) /\ provider # "gemini" /\ (f.calls = <<>> \/ f.type = "start")
    <3> HIDE DEF n
    <3>1. CASE f.type = "start"
      <4>1. f.calls = <<up.started>> /\ f.calls \in Seq(Calls)
        BY <2>3, <3>1 DEF Offered
      <4>2. f.calls # <<>> /\ Len(f.calls) = 1
        BY <4>1
      <4> QED BY <1>4, <2>3, <3>1, <4>1, <4>2 DEF FrameOK, Plain
    <3>2. CASE f.type # "start" /\ f.calls = <<>>
      <4>1. \A c : <<c>> # <<>>
        OBVIOUS
      <4>2. \/ f.type \in {"text", "reason", "done", "other"}
            \/ f.type = "stop" /\ provider \notin {"openai", "cohere"}
        BY <2>3, <3>2, <4>1 DEF Offered
      <4>3. f.calls \in Seq(Calls)
        BY <2>3 DEF Offered
      <4> QED BY <1>4, <2>3, <3>2, <4>2, <4>3 DEF FrameOK, Plain
    <3> QED BY <2>3, <3>1, <3>2
  <2>4. CASE Offered(f) /\ provider # "gemini" /\ f.calls # <<>> /\ f.type # "start"
    <3>1. PICK c : Going(c) /\ f.calls = <<c>>
      BY <2>4 DEF Offered
    <3>2. /\ f.type \in {"args", "stop"} /\ (f.type = "stop" => provider # "openai") /\ f.calls \in Seq(Calls)
          /\ f.type = "args" => provider = "cohere" \/ f.args # <<>>
      BY <2>4 DEF Offered
    <3>3. PICK m \in 1 .. Len(wire) :
              /\ wire[m].type = "start" /\ Index(wire[m]) = c
              /\ \A j \in m + 1 .. Len(wire) : ~(wire[j].type = "stop" /\ Index(wire[j]) = c)
      BY <2>4, <3>1 DEF WireOK, UpOK, Going
    <3>4. n - 1 = Len(wire)
      BY <1>1
    <3>5. Begun(v, n, c)
      BY <1>3, <3>3, <3>4 DEF Begun
    <3>6. c \in ToolUseIndices(v, n)
      <4>1. \A j \in m + 1 .. Len(wire) : j \in 1 .. Len(wire) /\ v[j] = wire[j]
        BY <1>1, <1>3
      <4>2. v[m] = wire[m] /\ c \in Calls
        BY <1>3, <3>1 DEF Going
      <4> QED BY <3>3, <3>4, <4>1, <4>2 DEF ToolUseIndices
    <3>7. f.calls # <<>> /\ Len(f.calls) = 1 /\ f.calls[1] = c
      BY <3>1
    <3> HIDE DEF n
    <3> QED BY <1>4, <2>4, <3>2, <3>5, <3>6, <3>7 DEF FrameOK, Plain
  <2> QED BY <2>1, <2>2, <2>3, <2>4
<1>7. \A m \in 1 .. Len(v) : m \in 1 .. Len(wire) \/ m = n
  BY <1>1, <1>2
<1> QED BY <1>2, <1>3, <1>4, <1>5, <1>6, <1>7 DEF Longer

LEMMA WireSent ==
    ASSUME WireOK, NEW f, Offered(f), wire' = Append(wire, f), up' = Sent(f), UNCHANGED conf
    PROVE  WireOK'
<1> DEFINE n == Len(wire) + 1
<1>1. Longer(wire') /\ wire'[n] = f
  BY FrameAdded
<1>2. Len(wire) \in Nat /\ Len(wire') = n /\ up.started \in 0 .. MaxCalls /\ MaxCalls \in Nat
  BY <1>1, WireAssumption DEF WireOK, IsSeq, UpOK, Longer
<1>3. up' = [x \in {"phase", "started", "pieces", "shut"} |-> up'[x]]
  BY DEF Sent
<1>4. up'.started = IF f.type \in {"start", "cand", "last"} THEN up.started + Len(f.calls) ELSE up.started
  BY DEF Sent
<1>5. up'.shut = IF f.type = "stop" THEN up.shut \cup {c \in Calls : Index(f) = c} ELSE up.shut
  BY DEF Sent
<1>6. up'.started \in 0 .. MaxCalls /\ (up'.started # up.started /\ provider # "gemini" =>
                                           f.type = "start" /\ f.calls = <<up.started>> /\ up'.started = up.started + 1)
  <2>1. CASE provider = "gemini"
    <3>1. Len(f.calls) \in Nat /\ up.started + Len(f.calls) <= MaxCalls
      BY <2>1 DEF Offered
    <3> QED BY <1>2, <1>4, <2>1, <3>1
  <2>2. CASE provider # "gemini" /\ f.type = "start"
    <3>1. f.calls = <<up.started>> /\ up.started < MaxCalls /\ Len(f.calls) = 1
      BY <2>2 DEF Offered
    <3> QED BY <1>2, <1>4, <2>2, <3>1
  <2>3. CASE provider # "gemini" /\ f.type # "start"
    <3>1. f.type \notin {"start", "cand", "last"}
      BY <2>3 DEF Offered
    <3> QED BY <1>2, <1>4, <3>1
  <2> QED BY <2>1, <2>2, <2>3
<1>7. ASSUME provider # "gemini", NEW c \in Calls, c < up'.started, c \notin up'.shut
      PROVE  \E m \in 1 .. Len(wire') :
                /\ wire'[m].type = "start" /\ Index(wire'[m]) = c
                /\ \A j \in m + 1 .. Len(wire') : ~(wire'[j].type = "stop" /\ Index(wire'[j]) = c)
  <2>1. CASE c < up.started
    <3>1. c \notin up.shut /\ ~(f.type = "stop" /\ Index(f) = c)
      BY <1>5, <1>7
    <3>2. PICK m \in 1 .. Len(wire) :
              /\ wire[m].type = "start" /\ Index(wire[m]) = c
              /\ \A j \in m + 1 .. Len(wire) : ~(wire[j].type = "stop" /\ Index(wire[j]) = c)
      BY <1>7, <2>1, <3>1 DEF WireOK, UpOK
    <3>3. \A j \in m + 1 .. n : j = n \/ (j \in m + 1 .. Len(wire) /\ j \in 1 .. Len(wire))
      BY <1>2
    <3>4. \A j \in 1 .. Len(wire) : wire'[j] = wire[j]
      BY <1>1 DEF Longer
    <3>5. m \in 1 .. n
      BY <1>2
    <3>6. ASSUME NEW j \in m + 1 .. n PROVE ~(wire'[j].type = "stop" /\ Index(wire'[j]) = c)
      BY <1>1, <3>1, <3>2, <3>3, <3>4
    <3> HIDE DEF n
    <3> QED BY <1>2, <3>2, <3>4, <3>5, <3>6
  <2>2. CASE ~(c < up.started)
    <3>1. c = up.started /\ f.type = "start" /\ f.calls = <<up.started>>
      <4>1. c \in Nat
        BY WireAssumption DEF Calls
      <4>2. up'.started # up.started
        BY <1>7, <2>2
      <4>3. f.type = "start" /\ f.calls = <<up.started>> /\ up'.started = up.started + 1
        BY <1>6, <1>7, <4>2
      <4>4. c < up.started + 1
        BY <1>7, <4>3
      <4>5. c = up.started
        BY <1>2, <2>2, <4>1, <4>4
      <4> QED BY <4>3, <4>5
    <3>2. wire'[n].type = "start" /\ Index(wire'[n]) = c
      BY <1>1, <3>1 DEF Index
    <3>3. n \in 1 .. n /\ n + 1 .. n = {}
      BY <1>2
    <3> HIDE DEF n
    <3> QED BY <1>2, <3>2, <3>3
  <2> QED BY <2>1, <2>2
<1>8. provider' = provider /\ plane' = plane /\ failMode' = failMode
  BY DEF conf
<1>9. up'.pieces \in [Calls -> Nat]
  <2>1. up.pieces \in [Calls -> Nat] /\ Len(f.args) \in Nat
    BY DEF WireOK, UpOK, Offered
  <2>2. up'.pieces = [c \in Calls |-> IF f.type \in {"start", "args"} /\ Index(f) = c
                                     THEN up.pieces[c] + Len(f.args) ELSE up.pieces[c]]
    BY DEF Sent
  <2> QED BY <2>1, <2>2
<1>10. UpOK'
  BY <1>3, <1>6, <1>7, <1>8, <1>9 DEF UpOK
<1> QED BY <1>1, <1>8, <1>10 DEF WireOK, Longer

LEMMA OneMore ==
    ASSUME NEW a \in Nat, NEW b, b = a + 1, NEW m \in Nat
    PROVE  \A j \in m + 1 .. b : j = a + 1 \/ (j \in m + 1 .. a /\ j \in 1 .. a)
OBVIOUS

LEMMA WireEnded ==
    ASSUME WireOK, NEW half \in {<<>>, <<Cut>>}, wire' = wire \o half,
           up' = [up EXCEPT !.phase = "ended"], UNCHANGED conf
    PROVE  /\ WireOK' /\ Len(wire') = Len(wire) + Len(half) /\ Len(half) \in {0, 1}
           /\ \A m \in 1 .. Len(wire) : wire'[m] = wire[m]
<1>1. IsSeq(wire) /\ Len(wire) \in Nat
  BY DEF WireOK, IsSeq
<1>2. provider' = provider /\ plane' = plane /\ failMode' = failMode
  BY DEF conf
<1>3. up' = [x \in {"phase", "started", "pieces", "shut"} |-> up'[x]] /\ up'.started = up.started /\ up'.shut = up.shut /\ up'.pieces = up.pieces
  BY DEF WireOK, UpOK
<1>4. CASE half = <<>>
  <2>1. wire' = wire /\ Len(half) = 0
    <3>1. wire \in Seq({wire[i] : i \in 1 .. Len(wire)})
      BY <1>1, SeqTyped
    <3>2. wire \o <<>> = wire
      BY <3>1
    <3> QED BY <1>4, <3>2, NoSeq
  <2>2. UpOK'
    BY <1>2, <1>3, <2>1 DEF WireOK, UpOK
  <2> QED BY <1>1, <1>2, <2>1, <2>2 DEF WireOK
<1>5. CASE half = <<Cut>>
  <2>1. wire' = Append(wire, Cut) /\ Len(half) = 1
    <3>1. wire \in Seq({wire[i] : i \in 1 .. Len(wire)} \cup {Cut})
      <4>1. wire \in Seq({wire[i] : i \in 1 .. Len(wire)})
        BY <1>1, SeqTyped
      <4> QED BY <4>1
    <3>2. wire \o <<Cut>> = Append(wire, Cut)
      BY <3>1
    <3> QED BY <1>5, <3>2, OneSeq
  <2>2. Longer(wire') /\ wire'[Len(wire) + 1] = Cut
    BY <2>1, FrameAdded
  <2>3. ASSUME provider # "gemini", NEW c \in Calls, c < up.started, c \notin up.shut
        PROVE  \E m \in 1 .. Len(wire') :
                  /\ wire'[m].type = "start" /\ Index(wire'[m]) = c
                  /\ \A j \in m + 1 .. Len(wire') : ~(wire'[j].type = "stop" /\ Index(wire'[j]) = c)
    <3>1. PICK m \in 1 .. Len(wire) :
              /\ wire[m].type = "start" /\ Index(wire[m]) = c
              /\ \A j \in m + 1 .. Len(wire) : ~(wire[j].type = "stop" /\ Index(wire[j]) = c)
      BY <2>3 DEF WireOK, UpOK
    <3>2. Len(wire') = Len(wire) + 1 /\ m \in 1 .. Len(wire') /\ wire'[m] = wire[m]
      BY <1>1, <2>2 DEF Longer
    <3>3. \A j \in m + 1 .. Len(wire') : j = Len(wire) + 1 \/ (j \in m + 1 .. Len(wire) /\ j \in 1 .. Len(wire))
      BY <1>1, <3>2, OneMore
    <3>4. wire'[Len(wire) + 1].type # "stop"
      BY <2>2 DEF Cut, WireFrame
    <3>5. \A j \in 1 .. Len(wire) : wire'[j] = wire[j]
      BY <2>2 DEF Longer
    <3>6. ASSUME NEW j \in m + 1 .. Len(wire') PROVE ~(wire'[j].type = "stop" /\ Index(wire'[j]) = c)
      BY <3>1, <3>3, <3>4, <3>5
    <3> QED BY <3>1, <3>2, <3>6
  <2>4. UpOK'
    BY <1>2, <1>3, <2>3 DEF WireOK, UpOK
  <2> QED BY <1>2, <2>1, <2>2, <2>4 DEF WireOK, Longer
<1> QED BY <1>4, <1>5
-----------------------------------------------------------------------------
(* The tasks: one at a time is at work. *)
LEMMA SetAtTyped ==
    ASSUME NEW S, NEW s \in Seq(S), NEW n \in 1 .. Len(s), NEW e \in S, NEW r, r = [s EXCEPT ![n] = e]
    PROVE  r \in Seq(S) /\ Len(r) = Len(s) /\ r[n] = e /\ \A i \in 1 .. Len(s) : i # n => r[i] = s[i]
<1>1. r \in Seq(S) /\ Len(r) = Len(s)
  OBVIOUS
<1>2. r[n] = e
  OBVIOUS
<1>3. \A i \in 1 .. Len(s) : i # n => r[i] = s[i]
  OBVIOUS
<1> QED BY <1>1, <1>2, <1>3

LEMMA SetAtSeq ==
    ASSUME NEW s, NEW n \in 1 .. Len(s), NEW e, NEW r, IsSeq(s), r = [s EXCEPT ![n] = e]
    PROVE  /\ IsSeq(r) /\ Len(r) = Len(s) /\ r[n] = e
           /\ \A i \in 1 .. Len(s) : i # n => r[i] = s[i]
<1>1. PICK S : s \in Seq(S) /\ e \in S
  <2>1. s \in Seq({s[i] : i \in 1 .. Len(s)})
    BY SeqTyped
  <2>2. s \in Seq({s[i] : i \in 1 .. Len(s)} \cup {e})
    BY <2>1
  <2> QED BY <2>2
<1>2. r \in Seq(S) /\ Len(r) = Len(s) /\ r[n] = e /\ \A i \in 1 .. Len(s) : i # n => r[i] = s[i]
  BY <1>1, SetAtTyped
<1>3. IsSeq(r)
  BY <1>2, TypedSeq
<1> QED BY <1>2, <1>3

LEMMA Lengths ==
    ASSUME WireOK, TasksOK
    PROVE  /\ IsSeq(tasks) /\ Len(tasks) \in Nat /\ Len(wire) \in Nat
           /\ \A n \in 1 .. Len(wire) : n \in 1 .. Len(tasks)
<1>1. IsSeq(tasks) /\ IsSeq(wire) /\ Len(tasks) \in {Len(wire), Len(wire) + 1}
  BY DEF WireOK, TasksOK
<1>2. Len(tasks) \in Nat /\ Len(wire) \in Nat
  BY <1>1, LenNat
<1> QED BY <1>1, <1>2

LEMMA EventsAre ==
    ASSUME WireOK, NEW n \in 1 .. Len(wire)
    PROVE  /\ Len(Events(provider, wire, n)) \in Nat \ {0}
           /\ \A i \in 1 .. Len(Events(provider, wire, n)) : i \in Nat /\ EventOK(provider, wire, n, i)
<1>1. Len(wire) \in Nat /\ n \in Nat \ {0}
  BY LenNat DEF WireOK
<1>2. \A m \in 1 .. n : FrameOK(provider, wire, m)
  BY <1>1 DEF WireOK
<1>3. /\ Len(Events(provider, wire, n)) \in Nat \ {0}
      /\ \A i \in 1 .. Len(Events(provider, wire, n)) : EventOK(provider, wire, n, i)
  BY <1>1, <1>2, EventsOK DEF WireOK
<1> QED BY <1>3

LEMMA WireEvents ==
    ASSUME WireOK', NEW n \in 1 .. Len(wire')
    PROVE  /\ Len(Events(provider, wire, n)') \in Nat \ {0}
           /\ \A i \in 1 .. Len(Events(provider, wire, n)') : i \in Nat \ {0}
<1>1. IsSeq(wire') /\ provider' \in Providers /\ \A m \in 1 .. Len(wire') : FrameOK(provider', wire', m)
  BY DEF WireOK
<1>2. Len(wire') \in Nat /\ n \in Nat \ {0}
  BY <1>1, LenNat
<1>3. \A m \in 1 .. n : FrameOK(provider', wire', m)
  BY <1>1, <1>2
<1>4. Len(Events(provider', wire', n)) \in Nat \ {0}
  BY <1>1, <1>2, <1>3, EventsOK
<1> QED BY <1>4

LEMMA Only ==
    ASSUME WireOK, TasksOK, NEW t \in 1 .. Len(tasks), Runnable(t)
    PROVE  /\ ~tasks[t].over /\ t \in Nat \ {0}
           /\ \A s \in 1 .. Len(tasks) :
                 /\ s # t => tasks[s].call = TextBlock
                 /\ s < t => tasks[s].over /\ ~tasks[s].eof /\ tasks[s].at = s + 1
                 /\ s > t => tasks[s].at = s /\ tasks[s].ev = 1
<1>1. ~tasks[t].over /\ \A s \in 1 .. t - 1 : tasks[s].over
  BY DEF Runnable, Serial, WireOK
<1>2. Len(tasks) \in Nat /\ t \in Nat \ {0}
  BY LenNat DEF TasksOK
<1>3. ASSUME NEW s \in 1 .. Len(tasks), s < t
      PROVE  tasks[s].call = TextBlock /\ tasks[s].over /\ ~tasks[s].eof /\ tasks[s].at = s + 1
  <2>1. s \in 1 .. t - 1 /\ s # Len(tasks) /\ TaskType(s) /\ Turn(s)
    BY <1>2, <1>3 DEF TasksOK
  <2>2. tasks[s].over
    BY <1>1, <2>1
  <2> QED BY <2>1, <2>2 DEF TaskType, Turn
<1>4. ASSUME NEW s \in 1 .. Len(tasks), s > t
      PROVE  tasks[s].call = TextBlock /\ tasks[s].at = s /\ tasks[s].ev = 1
  <2>1. t \in 1 .. s - 1 /\ Turn(s)
    BY <1>2, <1>4 DEF TasksOK
  <2> QED BY <1>1, <2>1 DEF Turn
<1>5. \A s \in 1 .. Len(tasks) : s = t \/ s < t \/ s > t
  BY <1>2
<1> QED BY <1>1, <1>2, <1>3, <1>4, <1>5

LEMMA AtFrame ==
    ASSUME WireOK, TasksOK, NEW t \in 1 .. Len(tasks), Runnable(t), tasks[t].at <= tasks[t].hi
    PROVE  /\ t \in 1 .. Len(wire) /\ tasks[t].at = t /\ tasks[t].hi = t
           /\ tasks[t].ev \in 1 .. Len(Events(provider, wire, t)) /\ tasks[t].ev \in Nat \ {0}
           /\ CurrentEvent(t) = Events(provider, wire, t)[tasks[t].ev]
           /\ EventOK(provider, wire, t, tasks[t].ev) /\ Len(Events(provider, wire, t)) \in Nat
           /\ \A n \in 1 .. Len(wire) : Touched(n) => n < t \/ (n = t /\ tasks[t].ev > 1)
           /\ \A m \in 1 .. t : \A j \in Nat : Before(m, j, t, tasks[t].ev) => Passed(m, j)
<1>1. Len(tasks) \in Nat /\ t \in Nat \ {0} /\ TaskType(t) /\ Len(wire) \in Nat
  BY LenNat DEF TasksOK, WireOK
<1>2. t \in 1 .. Len(wire) /\ tasks[t].at = t /\ tasks[t].hi = t
  BY <1>1 DEF TaskType
<1>3. \A m \in 1 .. t : FrameOK(provider, wire, m)
  BY <1>1, <1>2 DEF WireOK
<1>4. /\ Len(Events(provider, wire, t)) \in Nat \ {0}
      /\ \A i \in 1 .. Len(Events(provider, wire, t)) : EventOK(provider, wire, t, i)
  BY <1>1, <1>3, EventsOK DEF WireOK
<1>5. tasks[t].ev \in Nat \ {0} /\ tasks[t].ev \in 1 .. Len(Events(provider, wire, t))
  BY <1>1, <1>2, <1>4 DEF TaskType
<1>6. CurrentEvent(t) = Events(provider, wire, t)[tasks[t].ev]
  BY <1>2 DEF CurrentEvent
<1>7. ASSUME NEW n \in 1 .. Len(wire), Touched(n) PROVE n < t \/ (n = t /\ tasks[t].ev > 1)
  <2>1. n \in 1 .. Len(tasks)
    BY <1>1 DEF TasksOK
  <2>2. ~(n > t)
    BY <1>7, <2>1, Only DEF Touched
  <2>3. n = t => tasks[t].ev > 1
    BY <1>2, <1>7 DEF Touched
  <2> QED BY <1>1, <2>2, <2>3
<1>8. ASSUME NEW m \in 1 .. t, NEW j \in Nat, Before(m, j, t, tasks[t].ev) PROVE Passed(m, j)
  <2>1. m \in 1 .. Len(tasks) /\ m \in Nat
    BY <1>1
  <2>2. CASE m < t
    BY <2>1, <2>2, Only DEF Passed
  <2>3. CASE m = t /\ j < tasks[t].ev
    BY <2>3 DEF Passed
  <2> QED BY <1>8, <2>2, <2>3 DEF Before
<1> QED BY <1>2, <1>4, <1>5, <1>6, <1>7, <1>8

LEMMA Moved ==
    ASSUME WireOK, TasksOK, NEW t \in 1 .. Len(tasks), Runnable(t),
           NEW k, tasks' = [tasks EXCEPT ![t] = k], UNCHANGED <<conf, wire, up>>,
           TaskType(t)',
           k.call # TextBlock =>
               /\ ~k.over /\ k.call \in inFlight'
               /\ k.at <= k.hi => Events(provider, wire, t)[k.ev].kind = "finish",
           k.eof = tasks[t].eof, closed' = closed \/ closed' # "failed"
    PROVE  /\ TasksOK' /\ Len(tasks') = Len(tasks) /\ tasks'[t] = k
           /\ \A s \in 1 .. Len(tasks) : s # t => tasks'[s] = tasks[s]
<1>1. IsSeq(tasks)
  BY DEF TasksOK
<1>2. IsSeq(tasks') /\ Len(tasks') = Len(tasks) /\ tasks'[t] = k /\ Len(tasks) \in Nat
  <2>1. IsSeq(tasks')
    BY <1>1, SetAtSeq
  <2>2. Len(tasks') = Len(tasks) /\ tasks'[t] = k
    BY <1>1, SetAtSeq
  <2> QED BY <1>1, <2>1, <2>2, LenNat
<1>3. \A s \in 1 .. Len(tasks) : s # t => tasks'[s] = tasks[s]
  BY <1>1, SetAtSeq
<1>4. provider' = provider /\ wire' = wire /\ up' = up
  BY DEF conf
<1>5. ASSUME NEW s \in 1 .. Len(tasks), s # t PROVE TaskType(s)' /\ Turn(s)'
  <2>1. TaskType(s) /\ tasks'[s] = tasks[s]
    BY <1>3, <1>5 DEF TasksOK
  <2>2. TaskType(s)'
    BY <1>2, <1>4, <2>1 DEF TaskType
  <2>3. /\ tasks[s].call = TextBlock
        /\ s < t => tasks[s].over /\ ~tasks[s].eof /\ tasks[s].at = s + 1
        /\ s > t => tasks[s].at = s /\ tasks[s].ev = 1
    BY <1>5, Only
  <2>4. (\E r \in 1 .. s - 1 : ~tasks'[r].over) => tasks'[s].at = s /\ tasks'[s].ev = 1
    <3>1. CASE s > t
      BY <2>1, <2>3, <3>1
    <3>2. CASE s < t
      <4>1. \A r \in 1 .. s - 1 : r \in 1 .. Len(tasks) /\ r < t /\ r # t
        BY <1>2, <3>2
      <4>2. \A r \in 1 .. s - 1 : tasks'[r].over
        BY <1>3, <4>1, Only
      <4> QED BY <4>2
    <3>3. s < t \/ s > t
      BY <1>2, <1>5
    <3> QED BY <3>1, <3>2, <3>3
  <2>5. Turn(s)'
    BY <2>1, <2>3, <2>4 DEF Turn
  <2> QED BY <2>2, <2>5
<1>6. Turn(t)'
  <2>1. \A r \in 1 .. t - 1 : r \in 1 .. Len(tasks) /\ r < t /\ r # t
    BY <1>2
  <2>2. \A r \in 1 .. t - 1 : tasks'[r].over
    BY <1>3, <2>1, Only
  <2> QED BY <1>2, <1>4, <2>2 DEF Turn
<1>7. \A s \in 1 .. Len(tasks) : tasks'[s].eof = tasks[s].eof
  BY <1>2, <1>3
<1>8. \A s \in 1 .. Len(tasks') : TaskType(s)' /\ Turn(s)'
  BY <1>2, <1>5, <1>6
<1>9. Len(tasks') \in {Len(wire'), Len(wire') + 1}
  BY <1>2, <1>4 DEF TasksOK
<1>10. up'.phase # "ended" => Len(tasks') = Len(wire') /\ \A s \in 1 .. Len(tasks') : ~tasks'[s].eof
  BY <1>2, <1>4, <1>7 DEF TasksOK
<1>11. TasksOK'
  BY <1>2, <1>8, <1>9, <1>10 DEF TasksOK
<1> QED BY <1>2, <1>3, <1>11

(* The steps of a task: past an event, to an await, out of the last loop. *)
LEMMA Advances ==
    ASSUME WireOK, TasksOK, NEW t \in 1 .. Len(tasks), Runnable(t), tasks[t].at <= tasks[t].hi,
           tasks' = [tasks EXCEPT ![t] = Advanced(t)], UNCHANGED <<conf, wire, up, closed>>
    PROVE  /\ TasksOK' /\ tasks'[t].call = TextBlock /\ Touched(t)' /\ Len(tasks') = Len(tasks)
           /\ \A s \in 1 .. Len(tasks) :
                 /\ s # t => tasks'[s] = tasks[s]
                 /\ tasks'[s].eof = tasks[s].eof /\ tasks'[s].hi = tasks[s].hi
                 /\ tasks'[s].at > tasks'[s].hi /\ tasks'[s].ev = 2 => tasks'[s] = tasks[s]
           /\ \A n \in 1 .. Len(wire) : Touched(n) => Touched(n)'
           /\ \A n \in 1 .. Len(wire) : \A i \in 1 .. Len(Events(provider, wire, n)) :
                 Passed(n, i)' => Passed(n, i) \/ (n = t /\ i = tasks[t].ev)
<1> DEFINE k == tasks[t]
           e == Len(Events(provider, wire, t))
           a == Advanced(t)
<1>1. /\ t \in 1 .. Len(wire) /\ k.at = t /\ k.hi = t /\ k.ev \in 1 .. e /\ k.ev \in Nat \ {0} /\ e \in Nat
      /\ t \in Nat \ {0}
  BY AtFrame, Only
<1>2. TaskType(t) /\ ~k.over
  BY Only DEF TasksOK
<1>3. k = [f \in TaskFields |-> k[f]]
  BY <1>2 DEF TaskType
<1>4. a = [k EXCEPT !.new = FALSE, !.at = IF k.ev < e THEN k.at ELSE k.at + 1,
                    !.ev = IF k.ev < e THEN k.ev + 1 ELSE 1, !.call = TextBlock, !.deny = FALSE,
                    !.over = ~k.eof /\ (IF k.ev < e THEN k.at ELSE k.at + 1) > k.hi]
  BY <1>1 DEF Advanced
<1> HIDE DEF e, k, a
<1>5. /\ a = [f \in TaskFields |-> a[f]]
      /\ a.at = IF k.ev < e THEN t ELSE t + 1
      /\ a.ev = IF k.ev < e THEN k.ev + 1 ELSE 1
      /\ a.call = TextBlock /\ a.eof = k.eof /\ a.hi = k.hi
      /\ a.over = (~k.eof /\ a.at > k.hi)
  BY <1>1, <1>3, <1>4 DEF TaskFields
<1>6. provider' = provider /\ wire' = wire /\ up' = up /\ closed' = closed
  BY DEF conf
<1>7. IsSeq(tasks) /\ tasks'[t] = a /\ Len(tasks') = Len(tasks)
  <2>1. IsSeq(tasks)
    BY DEF TasksOK
  <2> QED BY <2>1, SetAtSeq DEF a
<1>8. TaskType(t)'
  <2>1. a.at \in {t, t + 1} /\ a.ev \in Nat \ {0} /\ (a.at <= a.hi => a.ev <= e)
    BY <1>1, <1>5
  <2>4. k.eof \in BOOLEAN
    BY <1>2 DEF TaskType, k
  <2>5. (a.at > k.hi) = (a.at = t + 1)
    BY <1>1, <1>5
  <2>6. a.over = (~k.eof /\ a.at = t + 1)
    BY <1>5, <2>5, Zenon
  <2>7. /\ a.over \in BOOLEAN /\ a.eof \in BOOLEAN
        /\ ~a.eof => (a.over <=> a.at = t + 1)
        /\ a.eof => ~a.over
    BY <1>5, <2>4, <2>6, Zenon
  <2>2. k.eof => t = Len(tasks) /\ k.hi = Len(wire) /\ k.hi \in {t - 1, t} /\ up.phase = "ended" /\ closed # "failed"
    BY <1>2 DEF TaskType, k
  <2>3. ~k.eof => t <= Len(wire)
    BY <1>2 DEF TaskType, k
  <2> QED BY <1>1, <1>5, <1>6, <1>7, <2>1, <2>2, <2>3, <2>7 DEF TaskType, e
<1>9. TasksOK' /\ \A s \in 1 .. Len(tasks) : s # t => tasks'[s] = tasks[s]
  BY <1>5, <1>6, <1>8, Moved DEF a, k
<1>10. Touched(t)'
  BY <1>1, <1>5, <1>7 DEF Touched
<1>11. ASSUME NEW n \in 1 .. Len(wire), n # t PROVE tasks'[n] = tasks[n]
  <2>1. n \in 1 .. Len(tasks)
    BY Lengths
  <2> QED BY <1>9, <1>11, <2>1
<1>12. \A n \in 1 .. Len(wire) : Touched(n) => Touched(n)'
  BY <1>10, <1>11 DEF Touched
<1>13. ASSUME NEW n \in 1 .. Len(wire), NEW i \in 1 .. Len(Events(provider, wire, n)), Passed(n, i)'
       PROVE  Passed(n, i) \/ (n = t /\ i = tasks[t].ev)
  <2>1. CASE n # t
    <3>1. tasks'[n] = tasks[n]
      BY <1>11, <2>1
    <3> QED BY <1>13, <3>1 DEF Passed
  <2>2. CASE n = t
    <3>1. i \in 1 .. e /\ i \in Nat
      BY <1>1, <2>2 DEF e
    <3>2. a.at > t \/ i < a.ev
      BY <1>7, <1>13, <2>2 DEF Passed
    <3>3. i < k.ev \/ i = k.ev
      BY <1>1, <1>5, <3>1, <3>2
    <3> QED BY <2>2, <3>3 DEF Passed, k
  <2> QED BY <2>1, <2>2
<1>14. \A s \in 1 .. Len(tasks) :
          /\ s # t => tasks'[s] = tasks[s]
          /\ tasks'[s].eof = tasks[s].eof /\ tasks'[s].hi = tasks[s].hi
          /\ tasks'[s].at > tasks'[s].hi /\ tasks'[s].ev = 2 => tasks'[s] = tasks[s]
  <2>1. a.at > a.hi => a.ev # 2
    BY <1>1, <1>5
  <2> QED BY <1>5, <1>7, <1>9, <2>1 DEF k
<1> QED BY <1>5, <1>7, <1>9, <1>10, <1>12, <1>13, <1>14

LEMMA Stays ==
    ASSUME WireOK, TasksOK, NEW t \in 1 .. Len(tasks), Runnable(t),
           NEW k, tasks' = [tasks EXCEPT ![t] = k], UNCHANGED <<conf, wire, up>>,
           closed' = closed \/ closed' # "failed",
           k = [f \in TaskFields |-> k[f]],
           k.hi = tasks[t].hi, k.eof = tasks[t].eof, k.at = tasks[t].at,
           k.over \in BOOLEAN, k.call \in Calls \cup {TextBlock},
           k.ev = tasks[t].ev \/ (k.ev = 2 /\ k.eof /\ k.at > k.hi),
           k.over => k.eof /\ k.at > k.hi /\ k.ev = 2,
           k.call # TextBlock =>
               /\ ~k.over /\ k.call \in inFlight'
               /\ k.at <= k.hi => Events(provider, wire, t)[k.ev].kind = "finish"
    PROVE  /\ TasksOK' /\ Len(tasks') = Len(tasks) /\ tasks'[t] = k
           /\ \A s \in 1 .. Len(tasks) : s # t => tasks'[s] = tasks[s]
           /\ \A n \in 1 .. Len(wire) : /\ Touched(n) <=> Touched(n)'
                                       /\ \A i \in Nat : Passed(n, i) <=> Passed(n, i)'
<1>1. TaskType(t) /\ ~tasks[t].over /\ t \in Nat \ {0}
  BY Only DEF TasksOK
<1>2. provider' = provider /\ wire' = wire /\ up' = up
  BY DEF conf
<1>3. IsSeq(tasks) /\ Len(tasks) \in Nat /\ Len(wire) \in Nat /\ \A n \in 1 .. Len(wire) : n \in 1 .. Len(tasks)
  BY Lengths
<1>4. Len(tasks') = Len(tasks) /\ tasks'[t] = k
  BY <1>3, SetAtSeq
<1>5. k.at \in {t, t + 1} /\ k.ev \in Nat \ {0} /\ k.eof \in BOOLEAN
  BY <1>1 DEF TaskType
<1>6. ~k.eof => k.hi = t /\ t <= Len(wire) /\ k.at = t /\ ~k.over
  BY <1>1 DEF TaskType
<1>7. k.eof => /\ t = Len(tasks) /\ k.hi = Len(wire) /\ k.hi \in {t - 1, t}
               /\ up.phase = "ended" /\ closed # "failed"
  BY <1>1 DEF TaskType
<1>8. k.at <= k.hi => k.ev <= Len(Events(provider, wire, t))
  <2>1. k.at <= k.hi => k.ev = tasks[t].ev
    BY <1>1, <1>5, <1>6, <1>7
  <2> QED BY <1>1, <2>1 DEF TaskType
<1>9. TaskType(t)'
  BY <1>1, <1>2, <1>4, <1>5, <1>6, <1>7, <1>8 DEF TaskType
<1>10. TasksOK' /\ \A s \in 1 .. Len(tasks) : s # t => tasks'[s] = tasks[s]
  BY <1>9, Moved
<1>11. ASSUME NEW n \in 1 .. Len(wire)
       PROVE  /\ Touched(n) <=> Touched(n)'
              /\ \A i \in Nat : Passed(n, i) <=> Passed(n, i)'
  <2>1. n \in 1 .. Len(tasks)
    BY <1>3
  <2>2. CASE n # t
    <3>1. tasks'[n] = tasks[n]
      BY <1>10, <2>1, <2>2
    <3> QED BY <3>1 DEF Touched, Passed
  <2>3. CASE n = t /\ k.ev = tasks[t].ev
    BY <1>4, <2>3 DEF Touched, Passed
  <2>4. CASE n = t /\ k.eof /\ k.at > k.hi
    <3>1. k.at > t
      BY <1>1, <1>3, <1>5, <1>7, <2>4
    <3> QED BY <1>4, <2>4, <3>1 DEF Touched, Passed
  <2> QED BY <2>2, <2>3, <2>4
<1> QED BY <1>4, <1>10, <1>11
-----------------------------------------------------------------------------
(* What is buffered. *)
LEMMA AccsSet ==
    ASSUME AccsOK, NEW c \in Calls, NEW a, accs' = [accs EXCEPT ![c] = a], UNCHANGED <<conf, wire>>,
           AccType(a), a.live, FramesOK(c, a.frames)', inFlight' \subseteq inFlight \cup {c},
           \A n \in 1 .. Len(wire) : Touched(n) => Touched(n)',
           \A n \in 1 .. Len(wire) : \A i \in 1 .. Len(Events(provider, wire, n)) :
               Passed(n, i)' /\ Events(provider, wire, n)[i].kind = "tool-call-start" =>
                   Passed(n, i) \/ Events(provider, wire, n)[i].index = c
    PROVE  AccsOK'
<1>1. provider' = provider /\ wire' = wire
  BY DEF conf
<1>2. /\ accs' = [d \in Calls |-> accs'[d]] /\ accs'[c] = a
      /\ \A d \in Calls : d # c => accs'[d] = accs[d]
  BY DEF AccsOK
<1>3. ASSUME NEW d \in Calls PROVE AccType(accs'[d]) /\ FramesOK(d, accs[d].frames)'
  <2>1. CASE d = c
    BY <1>2, <2>1
  <2>2. CASE d # c
    <3>1. accs'[d] = accs[d] /\ AccType(accs[d]) /\ FramesOK(d, accs[d].frames)
      BY <1>2, <2>2 DEF AccsOK
    <3>2. \A n \in 1 .. Len(wire) : (d \in CallsIn(n) => (d \in CallsIn(n))') /\ (Carries(n) => Carries(n)')
      BY <1>1 DEF CallsIn, Carries
    <3> QED BY <1>1, <3>1, <3>2 DEF FramesOK
  <2> QED BY <2>1, <2>2
<1>4. \A d \in Calls : accs[d].live => accs'[d].live
  BY <1>2
<1>5. ASSUME NEW n \in 1 .. Len(wire), NEW i \in 1 .. Len(Events(provider, wire, n)),
             Passed(n, i)', Events(provider, wire, n)[i].kind = "tool-call-start"
      PROVE  accs'[Events(provider, wire, n)[i].index].live
  <2>1. CASE Events(provider, wire, n)[i].index = c
    BY <1>2, <2>1
  <2>2. CASE Passed(n, i) /\ Events(provider, wire, n)[i].index # c
    <3>1. accs[Events(provider, wire, n)[i].index].live
      BY <1>5, <2>2 DEF AccsOK
    <3>2. accs'[Events(provider, wire, n)[i].index] = accs[Events(provider, wire, n)[i].index]
      BY <2>2
    <3> QED BY <3>1, <3>2
  <2> QED BY <1>5, <2>1, <2>2
<1>6. inFlight' \subseteq Calls /\ \A d \in inFlight' : accs'[d].live
  BY <1>2, <1>4 DEF AccsOK
<1> QED BY <1>1, <1>2, <1>3, <1>5, <1>6 DEF AccsOK

LEMMA AccsKept ==
    ASSUME AccsOK, UNCHANGED <<conf, wire, accs>>, inFlight' \subseteq inFlight,
           \A n \in 1 .. Len(wire) : Touched(n) => Touched(n)',
           \A n \in 1 .. Len(wire) : \A i \in 1 .. Len(Events(provider, wire, n)) :
               Passed(n, i)' /\ Events(provider, wire, n)[i].kind = "tool-call-start" => Passed(n, i)
    PROVE  AccsOK'
<1>1. provider' = provider /\ wire' = wire /\ accs' = accs
  BY DEF conf
<1>2. ASSUME NEW d \in Calls PROVE AccType(accs'[d]) /\ FramesOK(d, accs[d].frames)'
  <2>1. AccType(accs[d]) /\ FramesOK(d, accs[d].frames)
    BY DEF AccsOK
  <2>2. \A n \in 1 .. Len(wire) : (d \in CallsIn(n) => (d \in CallsIn(n))') /\ (Carries(n) => Carries(n)')
    BY <1>1 DEF CallsIn, Carries
  <2> QED BY <1>1, <2>1, <2>2 DEF FramesOK
<1>3. accs' = [d \in Calls |-> accs'[d]]
  BY <1>1 DEF AccsOK
<1>4. inFlight' \subseteq Calls /\ \A d \in inFlight' : accs'[d].live
  BY <1>1 DEF AccsOK
<1>5. \A n \in 1 .. Len(wire) : \A i \in 1 .. Len(Events(provider, wire, n)) :
          Passed(n, i)' /\ Events(provider, wire, n)[i].kind = "tool-call-start" =>
              accs[Events(provider, wire, n)[i].index].live
  BY DEF AccsOK
<1> QED BY <1>1, <1>2, <1>3, <1>4, <1>5 DEF AccsOK
-----------------------------------------------------------------------------
(* What is given to the consumer. *)
LEMMA ConcatCases ==
    ASSUME NEW s, IsSeq(s), NEW t, IsSeq(t), NEW k \in 1 .. Len(s \o t)
    PROVE  \/ k \in 1 .. Len(s) /\ (s \o t)[k] = s[k]
           \/ \E i \in 1 .. Len(t) : k = Len(s) + i /\ (s \o t)[k] = t[i]
<1>1. Len(s) \in Nat /\ Len(t) \in Nat
  BY LenNat
<1>2. Len(s \o t) = Len(s) + Len(t)
  BY ConcatSeq
<1>3. CASE k <= Len(s)
  <2>1. k \in 1 .. Len(s)
    BY <1>1, <1>2, <1>3
  <2> QED BY <2>1, ConcatSeq
<1>4. CASE ~(k <= Len(s))
  <2>1. k - Len(s) \in 1 .. Len(t) /\ k = Len(s) + (k - Len(s))
    BY <1>1, <1>2, <1>4
  <2>2. \A i \in 1 .. Len(t) : (s \o t)[Len(s) + i] = t[i]
    BY ConcatSeq
  <2> QED BY <2>1, <2>2
<1> QED BY <1>3, <1>4

LEMMA MarkIs ==
    ASSUME NEW k, k # "raw", NEW c
    PROVE  IsSeq(Mark(k, c)) /\ \A i \in 1 .. Len(Mark(k, c)) : Mark(k, c)[i].kind # "raw"
<1> DEFINE s == Mark(k, c)
<1>1. IsSeq(s) /\ Len(s) = 1 /\ s[1].kind = k
  BY OneSeq DEF Mark
<1> HIDE DEF s
<1>2. \A i \in 1 .. Len(s) : s[i].kind # "raw"
  BY <1>1
<1> QED BY <1>1, <1>2 DEF s

LEMMA OutWider ==
    ASSUME NEW w, NEW o, NEW T, NEW S, OutIs(w, o, T, S), NEW U, NEW V, T \subseteq U, S \subseteq V
    PROVE  OutIs(w, o, U, V)
BY DEF OutIs

(* Frames of calls, and notices, may follow anything. *)
LEMMA OutFlushed ==
    ASSUME NEW w, NEW o, NEW T, NEW S, OutIs(w, o, T, S), NEW x, IsSeq(x),
           \A i \in 1 .. Len(x) : x[i].kind = "raw" =>
               /\ x[i].id \in T /\ CarriesIn(w, x[i].id)
               /\ \E k \in DOMAIN w[x[i].id].calls : w[x[i].id].calls[k] \in S
    PROVE  OutIs(w, o \o x, T, S)
<1> DEFINE y == o \o x
<1>1. IsSeq(o) /\ Len(o) \in Nat /\ Len(x) \in Nat
  BY LenNat DEF OutIs
<1>2. IsSeq(y)
  BY <1>1, ConcatSeq
<1>3. ASSUME NEW n \in 1 .. Len(y)
      PROVE  (n \in 1 .. Len(o) /\ y[n] = o[n]) \/ \E i \in 1 .. Len(x) : n = Len(o) + i /\ y[n] = x[i]
  BY <1>1, ConcatCases
<1> HIDE DEF y
<1>4. ASSUME NEW n \in 1 .. Len(y), y[n].kind = "raw"
      PROVE  /\ y[n].id \in T
             /\ CarriesIn(w, y[n].id) => \E k \in DOMAIN w[y[n].id].calls : w[y[n].id].calls[k] \in S
             /\ CarriesIn(w, y[n].id) \/ (n \in 1 .. Len(o) /\ y[n] = o[n])
  BY <1>3, <1>4 DEF OutIs
<1>5. ASSUME NEW m \in 1 .. Len(y), NEW n \in 1 .. Len(y), m < n,
             y[m].kind = "raw", y[n].kind = "raw", ~CarriesIn(w, y[n].id)
      PROVE  y[m].id < y[n].id
  <2>1. n \in 1 .. Len(o) /\ y[n] = o[n]
    BY <1>4, <1>5
  <2>2. m \in 1 .. Len(o) /\ y[m] = o[m]
    BY <1>1, <1>3, <1>5, <2>1
  <2> QED BY <1>5, <2>1, <2>2 DEF OutIs
<1> QED BY <1>2, <1>4, <1>5 DEF OutIs, y

(* A frame that was not held back follows the frames before it. *)
LEMMA OutPast ==
    ASSUME NEW w, NEW o, NEW T, NEW S, OutIs(w, o, T, S), NEW n, NEW U, T \subseteq U,
           n # EMPTY_FRAME => n \in U /\ ~CarriesIn(w, n) /\ \A m \in T : m < n
    PROVE  OutIs(w, o \o Raw(n), U, S)
<1>1. OutIs(w, o, U, S) /\ IsSeq(o) /\ Len(o) \in Nat
  <2>1. OutIs(w, o, U, S)
    BY OutWider
  <2> QED BY <2>1, LenNat DEF OutIs
<1>2. CASE n = EMPTY_FRAME
  <2>1. Raw(n) = <<>>
    BY <1>2 DEF Raw
  <2>2. IsSeq(<<>>) /\ ~\E i \in 1 .. Len(<<>>) : TRUE
    BY NoSeq
  <2> QED BY <1>1, <2>1, <2>2, OutFlushed
<1>3. CASE n # EMPTY_FRAME
  <2> DEFINE x == Raw(n)
             y == o \o x
  <2>1. IsSeq(x) /\ Len(x) = 1 /\ x[1] = [kind |-> "raw", id |-> n]
    BY <1>3, OneSeq DEF Raw
  <2>2. x[1].kind = "raw" /\ x[1].id = n
    BY <2>1
  <2> HIDE DEF x
  <2>3. IsSeq(y)
    BY <1>1, <2>1, ConcatSeq
  <2>4. ASSUME NEW k \in 1 .. Len(y)
        PROVE  (k \in 1 .. Len(o) /\ y[k] = o[k]) \/ (k = Len(o) + 1 /\ y[k] = x[1])
    <3>1. (k \in 1 .. Len(o) /\ y[k] = o[k]) \/ \E i \in 1 .. Len(x) : k = Len(o) + i /\ y[k] = x[i]
      BY <1>1, <2>1, ConcatCases
    <3> QED BY <2>1, <3>1
  <2> HIDE DEF y
  <2>5. ASSUME NEW k \in 1 .. Len(y), y[k].kind = "raw"
        PROVE  /\ y[k].id \in U
               /\ CarriesIn(w, y[k].id) => \E h \in DOMAIN w[y[k].id].calls : w[y[k].id].calls[h] \in S
    BY <1>1, <1>3, <2>2, <2>4, <2>5 DEF OutIs
  <2>6. ASSUME NEW h \in 1 .. Len(y), NEW k \in 1 .. Len(y), h < k,
               y[h].kind = "raw", y[k].kind = "raw", ~CarriesIn(w, y[k].id)
        PROVE  y[h].id < y[k].id
    <3>1. h \in 1 .. Len(o) /\ y[h] = o[h]
      BY <1>1, <2>3, <2>4, <2>6, LenNat
    <3>2. CASE k \in 1 .. Len(o) /\ y[k] = o[k]
      BY <2>6, <3>1, <3>2 DEF OutIs
    <3>3. CASE y[k] = x[1]
      BY <1>3, <2>2, <2>6, <3>1, <3>3 DEF OutIs
    <3> QED BY <2>4, <3>2, <3>3
  <2> QED BY <2>3, <2>5, <2>6 DEF OutIs, y, x
<1> QED BY <1>2, <1>3
-----------------------------------------------------------------------------
(* The handler of an event that does not wait. *)
LEMMA WireKept == ASSUME WireOK, UNCHANGED <<conf, wire, up>> PROVE WireOK'
<1>1. plane' = plane /\ provider' = provider /\ failMode' = failMode /\ wire' = wire /\ up' = up
  BY DEF conf
<1>2. UpOK'
  BY <1>1 DEF WireOK, UpOK
<1> QED BY <1>1, <1>2 DEF WireOK

LEMMA LoopsAdvanced ==
    ASSUME WireOK, TasksOK, LoopsOK, NEW t \in 1 .. Len(tasks), Runnable(t), tasks[t].at <= tasks[t].hi,
           tasks' = [tasks EXCEPT ![t] = Advanced(t)], UNCHANGED <<conf, wire, up, closed>>
    PROVE  LoopsOK'
<1>1. /\ tasks'[t].call = TextBlock /\ Len(tasks') = Len(tasks)
      /\ \A s \in 1 .. Len(tasks) :
            /\ s # t => tasks'[s] = tasks[s]
            /\ tasks'[s].at > tasks'[s].hi /\ tasks'[s].ev = 2 => tasks'[s] = tasks[s]
  BY Advances
<1>2. ASSUME NEW s \in 1 .. Len(tasks) PROVE tasks'[s].call = TextBlock
  BY <1>1, Only
<1>3. ASSUME NEW s \in 1 .. Len(tasks), tasks'[s].eof, tasks'[s].at > tasks'[s].hi, tasks'[s].ev = 2
      PROVE  FALSE
  <2>1. tasks'[s] = tasks[s]
    BY <1>1, <1>3
  <2>2. CASE s = t
    <3>1. tasks[t].at = t /\ tasks[t].hi = t /\ t \in Nat
      BY AtFrame, Only
    <3>2. tasks[t].at > tasks[t].hi
      BY <1>3, <2>1, <2>2
    <3> QED BY <3>1, <3>2
  <2>3. CASE s < t
    BY <1>3, <2>1, <2>3, Only
  <2>4. CASE s > t
    BY <1>3, <2>1, <2>4, Only
  <2>5. s = t \/ s < t \/ s > t
    BY Lengths
  <2> QED BY <2>2, <2>3, <2>4, <2>5
<1>4. closed # "done"
  BY Only DEF LoopsOK
<1>5. closed' = closed /\ up' = up
  OBVIOUS
<1> QED BY <1>1, <1>2, <1>3, <1>4, <1>5 DEF LoopsOK

LEMMA ToldPast ==
    ASSUME WireOK, TasksOK, NEW t \in 1 .. Len(tasks), Runnable(t), tasks[t].at <= tasks[t].hi,
           CurrentEvent(t).kind \in PassKinds, NEW o, NEW S, NEW U, t \in U,
           OutIs(wire, o, {n \in 1 .. Len(wire) : Touched(n)}, S),
           {n \in 1 .. Len(wire) : Touched(n)} \subseteq U
    PROVE  OutIs(wire, o \o Raw(CurrentEvent(t).rawFrame), U, S)
<1> DEFINE T == {n \in 1 .. Len(wire) : Touched(n)}
           e == CurrentEvent(t)
<1>1. /\ e = Events(provider, wire, t)[tasks[t].ev] /\ EventOK(provider, wire, t, tasks[t].ev)
      /\ \A n \in 1 .. Len(wire) : Touched(n) => n < t \/ (n = t /\ tasks[t].ev > 1)
  BY AtFrame
<1>2. e.rawFrame # EMPTY_FRAME => e.rawFrame = t /\ tasks[t].ev = 1 /\ ~CarriesIn(wire, t)
  BY <1>1 DEF EventOK
<1>3. e.rawFrame # EMPTY_FRAME => \A m \in T : m < e.rawFrame
  BY <1>1, <1>2
<1> HIDE DEF T, e
<1>4. OutIs(wire, o, T, S) /\ T \subseteq U
  BY DEF T
<1>5. OutIs(wire, o \o Raw(e.rawFrame), U, S)
  BY <1>2, <1>3, <1>4, OutPast
<1> QED BY <1>5 DEF e

LEMMA SanctionedKept ==
    ASSUME UNCHANGED <<conf, answers>>
    PROVE  {c \in Calls : Sanctioned(c)'} = {c \in Calls : Sanctioned(c)}
BY DEF conf, Sanctioned

LEMMA TextOK ==
    ASSUME StreamInv, NEW t \in 1 .. Len(tasks), OnText(t) PROVE StreamInv'
<1>1. WireOK /\ TasksOK /\ AccsOK /\ OutOK /\ SettledOK /\ LoopsOK
  BY DEF StreamInv, GateOK
<1>2. /\ Runnable(t) /\ tasks[t].at <= tasks[t].hi /\ CurrentEvent(t).kind \in {"text-delta", "passthrough"}
      /\ out' = out \o Raw(CurrentEvent(t).rawFrame) /\ tasks' = [tasks EXCEPT ![t] = Advanced(t)]
      /\ UNCHANGED <<conf, wire, up, closed>> /\ UNCHANGED <<accs, inFlight, answers>>
  BY DEF OnText, AtEvent, state
<1>3. WireOK'
  BY <1>1, <1>2, WireKept
<1>4. /\ TasksOK' /\ Touched(t)'
      /\ \A n \in 1 .. Len(wire) : Touched(n) => Touched(n)'
  BY <1>1, <1>2, Advances
<1>5. \A n \in 1 .. Len(wire) : \A i \in 1 .. Len(Events(provider, wire, n)) :
          Passed(n, i)' => Passed(n, i) \/ (n = t /\ i = tasks[t].ev)
  BY <1>1, <1>2, Advances
<1>6. t \in 1 .. Len(wire) /\ CurrentEvent(t) = Events(provider, wire, t)[tasks[t].ev]
  BY <1>1, <1>2, AtFrame
<1>7. AccsOK'
  <2>1. CurrentEvent(t).kind # "tool-call-start"
    BY <1>2
  <2>2. UNCHANGED <<conf, wire, accs>> /\ inFlight' \subseteq inFlight
    BY <1>2
  <2>3. \A n \in 1 .. Len(wire) : \A i \in 1 .. Len(Events(provider, wire, n)) :
            Passed(n, i)' /\ Events(provider, wire, n)[i].kind = "tool-call-start" => Passed(n, i)
    BY <1>5, <1>6, <2>1
  <2> QED BY <1>1, <1>4, <2>2, <2>3, AccsKept
<1>8. OutOK'
  <2> DEFINE T == {n \in 1 .. Len(wire) : Touched(n)}
             U == {n \in 1 .. Len(wire) : Touched(n)'}
             S == {c \in Calls : Sanctioned(c)}
  <2>1. T \subseteq U /\ t \in U /\ CurrentEvent(t).kind \in PassKinds
    BY <1>2, <1>4, <1>6 DEF PassKinds
  <2>2. OutIs(wire, out, T, S)
    BY <1>1 DEF OutOK
  <2>3. {c \in Calls : Sanctioned(c)'} = S
    BY <1>2, SanctionedKept
  <2> HIDE DEF U, S
  <2>4. OutIs(wire, out \o Raw(CurrentEvent(t).rawFrame), U, S)
    BY <1>1, <1>2, <2>1, <2>2, ToldPast
  <2> QED BY <1>2, <2>3, <2>4 DEF OutOK, U
<1>9. SettledOK'
  BY <1>1, <1>2 DEF SettledOK, Answered
<1>10. LoopsOK'
  BY <1>1, <1>2, LoopsAdvanced
<1> QED BY <1>3, <1>4, <1>7, <1>8, <1>9, <1>10 DEF StreamInv, GateOK

LEMMA OutKept ==
    ASSUME OutOK, UNCHANGED <<conf, wire, out, answers>>,
           \A n \in 1 .. Len(wire) : Touched(n) => Touched(n)'
    PROVE  OutOK'
<1> DEFINE T == {n \in 1 .. Len(wire) : Touched(n)}
           U == {n \in 1 .. Len(wire) : Touched(n)'}
           S == {c \in Calls : Sanctioned(c)}
<1>1. T \subseteq U
  OBVIOUS
<1>2. {c \in Calls : Sanctioned(c)'} = S
  BY SanctionedKept
<1>3. OutIs(wire, out, T, S)
  BY DEF OutOK
<1> HIDE DEF T, S
<1>4. OutIs(wire, out, U, S)
  <2> HIDE DEF U
  <2> QED BY <1>1, <1>3, OutWider
<1> QED BY <1>2, <1>4 DEF OutOK

(* An event about a call. *)
LEMMA AtCall ==
    ASSUME WireOK, TasksOK, NEW t \in 1 .. Len(tasks), Runnable(t), tasks[t].at <= tasks[t].hi,
           CurrentEvent(t).kind \in CallKinds
    PROVE  LET e == CurrentEvent(t)
           IN  /\ e.index \in Calls /\ t \in 1 .. Len(wire)
               /\ e.rawFrame = EMPTY_FRAME \/ (e.rawFrame = t /\ e.index \in CallsIn(t) /\ Carries(t))
<1>1. /\ CurrentEvent(t) = Events(provider, wire, t)[tasks[t].ev]
      /\ EventOK(provider, wire, t, tasks[t].ev) /\ t \in 1 .. Len(wire)
  BY AtFrame
<1> QED BY <1>1 DEF EventOK, CallsIn, Carries, CarriesIn

LEMMA StartOK ==
    ASSUME StreamInv, NEW t \in 1 .. Len(tasks), OnStart(t) PROVE StreamInv'
<1>0. PICK e : e = CurrentEvent(t)
  OBVIOUS
<1> DEFINE c == e.index
           a == [args |-> <<>>, live |-> TRUE,
                 frames |-> IF e.rawFrame = EMPTY_FRAME THEN <<>> ELSE <<e.rawFrame>>]
<1>1. WireOK /\ TasksOK /\ AccsOK /\ OutOK /\ SettledOK /\ LoopsOK
  BY DEF StreamInv, GateOK
<1>2. /\ Runnable(t) /\ tasks[t].at <= tasks[t].hi /\ e.kind = "tool-call-start"
      /\ accs' = [accs EXCEPT ![c] = a] /\ inFlight' = inFlight \cup {c}
      /\ tasks' = [tasks EXCEPT ![t] = Advanced(t)]
      /\ UNCHANGED <<conf, wire, up, closed>> /\ UNCHANGED <<out, answers>>
  BY <1>0 DEF OnStart, AtEvent
<1>3. WireOK'
  BY <1>1, <1>2, WireKept
<1>4. /\ TasksOK' /\ Touched(t)'
      /\ \A n \in 1 .. Len(wire) : Touched(n) => Touched(n)'
  BY <1>1, <1>2, Advances
<1>5. \A n \in 1 .. Len(wire) : \A i \in 1 .. Len(Events(provider, wire, n)) :
          Passed(n, i)' => Passed(n, i) \/ (n = t /\ i = tasks[t].ev)
  BY <1>1, <1>2, Advances
<1>6. t \in 1 .. Len(wire) /\ e = Events(provider, wire, t)[tasks[t].ev]
  BY <1>0, <1>1, <1>2, AtFrame
<1>7. c \in Calls /\ (e.rawFrame = EMPTY_FRAME \/ (e.rawFrame = t /\ c \in CallsIn(t) /\ Carries(t)))
  <2>1. e.kind \in CallKinds
    BY <1>2 DEF CallKinds
  <2> QED BY <1>0, <1>1, <1>2, <2>1, AtCall
<1>8. AccType(a) /\ a.live
  BY DEF AccType
<1>9. FramesOK(c, a.frames)'
  <2> DEFINE s == a.frames
  <2>1. wire' = wire /\ (c \in CallsIn(t) => c \in CallsIn(t)') /\ (Carries(t) => Carries(t)')
    BY <1>2 DEF CallsIn, Carries
  <2>2. CASE e.rawFrame = EMPTY_FRAME
    <3>1. s = <<>>
      BY <2>2
    <3>2. IsSeq(s) /\ ~\E i \in 1 .. Len(s) : TRUE
      BY <3>1, NoSeq
    <3> QED BY <3>2 DEF FramesOK
  <2>3. CASE e.rawFrame # EMPTY_FRAME
    <3>1. s = <<t>>
      BY <1>7, <2>3
    <3>2. IsSeq(s) /\ Len(s) = 1 /\ s[1] = t
      BY <3>1, OneSeq
    <3>3. t \in 1 .. Len(wire') /\ c \in CallsIn(t)' /\ Carries(t)' /\ Touched(t)'
      BY <1>4, <1>6, <1>7, <2>1, <2>3
    <3> HIDE DEF s
    <3>4. \A i \in 1 .. Len(s) : s[i] = t
      BY <3>2
    <3> QED BY <3>2, <3>3, <3>4 DEF FramesOK, s
  <2> QED BY <2>2, <2>3
<1> HIDE DEF a, c
<1>10. AccsOK'
  <2>1. inFlight' \subseteq inFlight \cup {c} /\ UNCHANGED <<conf, wire>>
    BY <1>2
  <2>2. \A n \in 1 .. Len(wire) : \A i \in 1 .. Len(Events(provider, wire, n)) :
            Passed(n, i)' => Passed(n, i) \/ Events(provider, wire, n)[i].index = c
    BY <1>5, <1>6 DEF c
  <2> QED BY <1>1, <1>2, <1>4, <1>7, <1>8, <1>9, <2>1, <2>2, AccsSet
<1>11. OutOK'
  BY <1>1, <1>2, <1>4, OutKept
<1>12. SettledOK'
  <2>1. accs'[c].live /\ \A d \in Calls : d # c => accs'[d] = accs[d]
    BY <1>1, <1>2, <1>7, <1>8 DEF AccsOK
  <2>2. answers' = answers /\ \A d : Answered(d)' <=> Answered(d)
    BY <1>2 DEF Answered
  <2>3. inFlight' = inFlight \cup {c}
    BY <1>2
  <2> QED BY <1>1, <2>1, <2>2, <2>3 DEF SettledOK
<1>13. LoopsOK'
  BY <1>1, <1>2, LoopsAdvanced
<1> QED BY <1>3, <1>4, <1>10, <1>11, <1>12, <1>13 DEF StreamInv, GateOK

(* Arguments and ends are about calls that were begun. *)
LEMMA KnownCall ==
    ASSUME WireOK, TasksOK, AccsOK, NEW t \in 1 .. Len(tasks), Runnable(t), tasks[t].at <= tasks[t].hi,
           CurrentEvent(t).kind \in {"tool-call-arguments", "tool-call-end"}
    PROVE  accs[CurrentEvent(t).index].live
<1>0. PICK e : e = CurrentEvent(t)
  OBVIOUS
<1>1. /\ t \in 1 .. Len(wire) /\ e = Events(provider, wire, t)[tasks[t].ev]
      /\ EventOK(provider, wire, t, tasks[t].ev) /\ t \in Nat \ {0}
      /\ \A m \in 1 .. t : \A j \in Nat : Before(m, j, t, tasks[t].ev) => Passed(m, j)
  BY <1>0, AtFrame, Only
<1>2. PICK m \in 1 .. t : \E j \in 1 .. Len(Events(provider, wire, m)) :
          /\ Before(m, j, t, tasks[t].ev)
          /\ Events(provider, wire, m)[j].kind = "tool-call-start" /\ Events(provider, wire, m)[j].index = e.index
  BY <1>0, <1>1 DEF EventOK
<1>3. PICK j \in 1 .. Len(Events(provider, wire, m)) :
          /\ Before(m, j, t, tasks[t].ev)
          /\ Events(provider, wire, m)[j].kind = "tool-call-start" /\ Events(provider, wire, m)[j].index = e.index
  BY <1>2
<1>4. m \in 1 .. Len(wire)
  BY <1>1, Lengths
<1>5. j \in Nat
  BY <1>3, <1>4, EventsAre
<1>6. Passed(m, j)
  BY <1>1, <1>3, <1>5
<1> QED BY <1>0, <1>3, <1>4, <1>6 DEF AccsOK

LEMMA BufferedOK ==
    ASSUME StreamInv, NEW t \in 1 .. Len(tasks), OnBuffered(t) PROVE StreamInv'
<1>0. PICK e, a : e = CurrentEvent(t) /\ a = Buffer(accs[e.index], e)
  OBVIOUS
<1> DEFINE c == e.index
<1>1. WireOK /\ TasksOK /\ AccsOK /\ OutOK /\ SettledOK /\ LoopsOK
  BY DEF StreamInv, GateOK
<1>2. /\ Runnable(t) /\ tasks[t].at <= tasks[t].hi /\ e.kind \in {"tool-call-arguments", "tool-call-end"}
      /\ tasks' = [tasks EXCEPT ![t] = Advanced(t)]
      /\ UNCHANGED <<conf, wire, up, closed>> /\ UNCHANGED <<inFlight, answers>>
  BY <1>0 DEF OnBuffered, AtEvent
<1>3. WireOK'
  BY <1>1, <1>2, WireKept
<1>4. /\ TasksOK' /\ Touched(t)'
      /\ \A n \in 1 .. Len(wire) : Touched(n) => Touched(n)'
  BY <1>1, <1>2, Advances
<1>5. \A n \in 1 .. Len(wire) : \A i \in 1 .. Len(Events(provider, wire, n)) :
          Passed(n, i)' => Passed(n, i) \/ (n = t /\ i = tasks[t].ev)
  BY <1>1, <1>2, Advances
<1>6. /\ t \in 1 .. Len(wire) /\ e = Events(provider, wire, t)[tasks[t].ev]
      /\ EventOK(provider, wire, t, tasks[t].ev) /\ t \in Nat \ {0}
      /\ \A m \in 1 .. t : \A j \in Nat : Before(m, j, t, tasks[t].ev) => Passed(m, j)
  BY <1>0, <1>1, <1>2, AtFrame, Only
<1>7. c \in Calls /\ (e.rawFrame = EMPTY_FRAME \/ (e.rawFrame = t /\ c \in CallsIn(t) /\ Carries(t)))
  <2>1. e.kind \in CallKinds
    BY <1>2 DEF CallKinds
  <2> QED BY <1>0, <1>1, <1>2, <2>1, AtCall
<1>8. accs[c].live
  BY <1>0, <1>1, <1>2, KnownCall
<1>9. accs' = [accs EXCEPT ![c] = a] /\ out' = out
  <2>1. accs' = [accs EXCEPT ![c] = Buffer(@, e)] /\ out' = out
    BY <1>0, <1>8 DEF OnBuffered
  <2> QED BY <1>0, <2>1
<1>10. AccType(accs[c]) /\ FramesOK(c, accs[c].frames)
  BY <1>1, <1>7 DEF AccsOK
<1>11. AccType(a) /\ a.live /\ a.frames = IF e.rawFrame = EMPTY_FRAME THEN accs[c].frames ELSE Append(accs[c].frames, e.rawFrame)
  BY <1>0, <1>8, <1>10 DEF Buffer, AccType
<1> HIDE DEF c
<1>12. FramesOK(c, a.frames)'
  <2>1. wire' = wire /\ \A n : (c \in CallsIn(n) => c \in CallsIn(n)') /\ (Carries(n) => Carries(n)')
    BY <1>2 DEF CallsIn, Carries
  <2> DEFINE r == a.frames
  <2>0. PICK s : s = accs[c].frames
    OBVIOUS
  <2>2. IsSeq(s) /\ Len(s) \in Nat /\ \A i \in 1 .. Len(s) : s[i] \in 1 .. Len(wire') /\ c \in CallsIn(s[i])' /\ Carries(s[i])' /\ Touched(s[i])'
    BY <1>4, <1>10, <2>0, <2>1, LenNat DEF FramesOK
  <2>3. CASE e.rawFrame = EMPTY_FRAME
    BY <1>11, <2>0, <2>2, <2>3 DEF FramesOK
  <2>4. CASE e.rawFrame # EMPTY_FRAME
    <3>1. r = Append(s, t)
      BY <1>7, <1>11, <2>0, <2>4
    <3> HIDE DEF r
    <3>2. IsSeq(r) /\ Len(r) = Len(s) + 1 /\ r[Len(s) + 1] = t
      BY <2>2, <3>1, AppendSeq
    <3>3. \A i \in 1 .. Len(s) : r[i] = s[i]
      BY <2>2, <3>1, AppendSeq
    <3>4. t \in 1 .. Len(wire') /\ c \in CallsIn(t)' /\ Carries(t)' /\ Touched(t)'
      BY <1>4, <1>6, <1>7, <2>1, <2>4
    <3>5. \A i \in 1 .. Len(r) : i \in 1 .. Len(s) \/ i = Len(s) + 1
      BY <2>2, <3>2
    <3>6. \A i \in 1 .. Len(r) : r[i] \in 1 .. Len(wire') /\ c \in CallsIn(r[i])' /\ Carries(r[i])' /\ Touched(r[i])'
      BY <2>2, <3>2, <3>3, <3>4, <3>5
    <3> QED BY <3>2, <3>6 DEF FramesOK, r
  <2> QED BY <2>3, <2>4
<1>13. AccsOK'
  <2>1. inFlight' \subseteq inFlight \cup {c} /\ UNCHANGED <<conf, wire>>
    BY <1>2
  <2>2. \A n \in 1 .. Len(wire) : \A i \in 1 .. Len(Events(provider, wire, n)) :
            Passed(n, i)' => Passed(n, i) \/ Events(provider, wire, n)[i].index = c
    BY <1>5, <1>6 DEF c
  <2> QED BY <1>1, <1>4, <1>7, <1>9, <1>11, <1>12, <2>1, <2>2, AccsSet
<1>14. OutOK'
  BY <1>1, <1>2, <1>4, <1>9, OutKept
<1>15. SettledOK'
  <2>1. accs'[c].live /\ \A d \in Calls : d # c => accs'[d] = accs[d]
    BY <1>1, <1>7, <1>9, <1>11 DEF AccsOK
  <2>2. answers' = answers /\ inFlight' = inFlight /\ \A d : Answered(d)' <=> Answered(d)
    BY <1>2 DEF Answered
  <2> QED BY <1>1, <1>8, <2>1, <2>2 DEF SettledOK
<1>16. LoopsOK'
  BY <1>1, <1>2, LoopsAdvanced
<1> QED BY <1>3, <1>4, <1>13, <1>14, <1>15, <1>16 DEF StreamInv, GateOK
-----------------------------------------------------------------------------
(* The loops over inFlight. *)
FlushIs(x, S) ==
    /\ IsSeq(x)
    /\ \A i \in 1 .. Len(x) : x[i].kind = "raw" =>
          /\ x[i].id \in {n \in 1 .. Len(wire) : Touched(n)} /\ CarriesIn(wire, x[i].id)
          /\ \E k \in DOMAIN wire[x[i].id].calls : wire[x[i].id].calls[k] \in S

(* The evaluations so far settle every call in flight up to last. *)
Settles(last) ==
    /\ IsSeq(answers)'
    /\ \A i \in 1 .. Len(answers') : answers'[i].call \in Calls /\ accs[answers'[i].call].live
    /\ \A c \in Calls : (Answered(c) => Answered(c)') /\ (Sanctioned(c) => Sanctioned(c)')
    /\ \A c \in inFlight : c <= last => Answered(c)'

LEMMA FlushedOut ==
    ASSUME OutOK, NEW last, Settles(last), NEW x, NEW S, S = {c \in Calls : Sanctioned(c)'}, FlushIs(x, S)
    PROVE  OutIs(wire, out \o x, {n \in 1 .. Len(wire) : Touched(n)}, S)
<1> DEFINE T == {n \in 1 .. Len(wire) : Touched(n)}
           R == {c \in Calls : Sanctioned(c)}
<1>1. R \subseteq S /\ T \subseteq T
  BY DEF Settles
<1>2. OutIs(wire, out, T, R)
  BY DEF OutOK
<1> HIDE DEF R, T
<1>3. OutIs(wire, out, T, S)
  BY <1>1, <1>2, OutWider
<1>4. IsSeq(x) /\ \A i \in 1 .. Len(x) : x[i].kind = "raw" =>
          /\ x[i].id \in T /\ CarriesIn(wire, x[i].id)
          /\ \E k \in DOMAIN wire[x[i].id].calls : wire[x[i].id].calls[k] \in S
  BY DEF FlushIs, T
<1>5. OutIs(wire, out \o x, T, S)
  BY <1>3, <1>4, OutFlushed
<1> QED BY <1>5 DEF T

LEMMA AwaitOK ==
    ASSUME StreamInv, NEW t \in 1 .. Len(tasks), Runnable(t), NEW last \in Calls \cup {TextBlock},
           NEW deny, NEW x, FlushIs(x, {c \in Calls : Sanctioned(c)'}), Settles(last),
           tasks[t].at <= tasks[t].hi => CurrentEvent(t).kind = "finish",
           {c \in inFlight : c > last} # {}, Iterate(t, last, deny, x),
           UNCHANGED <<conf, wire, up, accs, closed>>
    PROVE  StreamInv'
<1> DEFINE rest == {c \in inFlight : c > last}
<1>0. PICK d : d = Min(rest)
  OBVIOUS
<1>1. WireOK /\ TasksOK /\ AccsOK /\ OutOK /\ SettledOK /\ LoopsOK
  BY DEF StreamInv, GateOK
<1>2. rest \subseteq Calls /\ inFlight \subseteq Calls
  BY <1>1 DEF AccsOK
<1>3. d \in inFlight /\ d > last /\ d \in Calls /\ \A c \in rest : d <= c
  BY <1>0, <1>2, Least
<1>4. PICK k : k = [tasks[t] EXCEPT !.new = FALSE, !.call = d, !.deny = deny, !.seen = accs[d].args]
  OBVIOUS
<1>5. /\ tasks' = [tasks EXCEPT ![t].new = FALSE, ![t].call = d, ![t].deny = deny, ![t].seen = accs[d].args]
      /\ out' = out \o x /\ UNCHANGED <<inFlight, syntheticTerminalEmitted>>
  BY <1>0 DEF Iterate
<1>6. IsSeq(tasks) /\ TaskType(t) /\ ~tasks[t].over /\ DOMAIN tasks = 1 .. Len(tasks)
  BY <1>1, Only, SeqDomain DEF TasksOK
<1>7. tasks' = [tasks EXCEPT ![t] = k]
  BY <1>4, <1>5, <1>6
<1>8. /\ k = [f \in TaskFields |-> k[f]] /\ k.hi = tasks[t].hi /\ k.eof = tasks[t].eof /\ k.at = tasks[t].at
      /\ k.ev = tasks[t].ev /\ k.call = d /\ k.over = tasks[t].over
  <2>1. tasks[t] = [f \in TaskFields |-> tasks[t][f]]
    BY <1>6 DEF TaskType
  <2> QED BY <1>4, <2>1 DEF TaskFields
<1>9. k.at <= k.hi => Events(provider, wire, t)[k.ev].kind = "finish"
  <2>1. tasks[t].at <= tasks[t].hi => CurrentEvent(t) = Events(provider, wire, t)[tasks[t].ev]
    BY <1>1, AtFrame
  <2> QED BY <1>8, <2>1
<1>10. k.over = FALSE /\ k.call \in Calls \cup {TextBlock}
  <2>1. tasks[t].over = FALSE
    BY <1>6 DEF TaskType
  <2> QED BY <1>3, <1>8, <2>1
<1>11. /\ TasksOK' /\ Len(tasks') = Len(tasks) /\ tasks'[t] = k
       /\ \A s \in 1 .. Len(tasks) : s # t => tasks'[s] = tasks[s]
       /\ \A n \in 1 .. Len(wire) : /\ Touched(n) <=> Touched(n)'
                                   /\ \A i \in Nat : Passed(n, i) <=> Passed(n, i)'
  <2>1. k.over \in BOOLEAN /\ (k.over => k.eof /\ k.at > k.hi /\ k.ev = 2)
    BY <1>10
  <2>2. k.call # TextBlock => /\ ~k.over /\ k.call \in inFlight'
                              /\ k.at <= k.hi => Events(provider, wire, t)[k.ev].kind = "finish"
    BY <1>3, <1>5, <1>8, <1>9, <1>10
  <2>3. closed' = closed /\ UNCHANGED <<conf, wire, up>>
    OBVIOUS
  <2> QED BY <1>1, <1>7, <1>8, <1>10, <2>1, <2>2, <2>3, Stays
<1>12. WireOK'
  BY <1>1, WireKept
<1>13. AccsOK'
  <2>1. inFlight' \subseteq inFlight
    BY <1>5
  <2>2. \A n \in 1 .. Len(wire) : \A i \in 1 .. Len(Events(provider, wire, n)) : i \in Nat
    <3>1. \A n \in 1 .. Len(wire) : Len(Events(provider, wire, n)) \in Nat
      BY <1>1, EventsAre
    <3> QED BY <3>1
  <2> QED BY <1>1, <1>11, <2>1, <2>2, AccsKept
<1>14. OutOK'
  <2> DEFINE U == {n \in 1 .. Len(wire) : Touched(n)'}
  <2>1. PICK S : S = {c \in Calls : Sanctioned(c)'}
    OBVIOUS
  <2>2. OutIs(wire, out \o x, {n \in 1 .. Len(wire) : Touched(n)}, S)
    BY <1>1, <2>1, FlushedOut
  <2>3. {n \in 1 .. Len(wire) : Touched(n)} = U
    BY <1>11
  <2> QED BY <1>5, <2>1, <2>2, <2>3 DEF OutOK
<1>15. SettledOK'
  BY <1>1, <1>5 DEF SettledOK, Settles
<1>16. LoopsOK'
  <2>1. ASSUME NEW c \in inFlight, c < d PROVE Answered(c)'
    <3>1. c \in Calls /\ ~(c \in rest)
      BY <1>2, <1>3, <2>1, WireAssumption DEF Calls
    <3>2. c <= last
      BY <3>1, WireAssumption DEF Calls, TextBlock
    <3> QED BY <3>2 DEF Settles
  <2>2. \A s \in 1 .. Len(tasks) : s # t => tasks[s].call = TextBlock
    BY <1>1, Only
  <2>3. \A s \in 1 .. Len(tasks) : tasks'[s].call # TextBlock => \A c \in inFlight : c < tasks'[s].call => Answered(c)'
    BY <1>8, <1>11, <2>1, <2>2
  <2>4. \A s \in 1 .. Len(tasks) : tasks'[s].eof = tasks[s].eof /\ tasks'[s].at = tasks[s].at
                                   /\ tasks'[s].hi = tasks[s].hi /\ tasks'[s].ev = tasks[s].ev
    BY <1>8, <1>11
  <2>5. closed # "done"
    BY <1>1, <1>6 DEF LoopsOK
  <2> QED BY <1>1, <1>5, <1>11, <2>3, <2>4, <2>5 DEF LoopsOK
<1> QED BY <1>11, <1>12, <1>13, <1>14, <1>15, <1>16 DEF StreamInv, GateOK

(* Out of the loop, everything that was in flight is settled. *)
LEMMA AllSettled ==
    ASSUME WireOK, AccsOK, SettledOK, NEW last \in Calls \cup {TextBlock}, Settles(last),
           {c \in inFlight : c > last} = {}, accs' = accs
    PROVE  SettledOK'
<1>1. ASSUME NEW c \in Calls, accs[c].live PROVE Answered(c)'
  <2>1. CASE Answered(c)
    BY <2>1 DEF Settles
  <2>2. CASE c \in inFlight
    <3>1. ~(c > last)
      BY <2>2
    <3>2. c <= last
      BY <3>1, WireAssumption DEF Calls, TextBlock
    <3> QED BY <2>2, <3>2 DEF Settles
  <2> QED BY <1>1, <2>1, <2>2 DEF SettledOK
<1>2. IsSeq(answers)' /\ \A i \in 1 .. Len(answers') : answers'[i].call \in Calls /\ accs[answers'[i].call].live
  BY DEF Settles
<1> QED BY <1>1, <1>2 DEF SettledOK

LEMMA FinishedOK ==
    ASSUME StreamInv, NEW t \in 1 .. Len(tasks), Runnable(t), NEW last \in Calls \cup {TextBlock},
           NEW deny, NEW x, FlushIs(x, {c \in Calls : Sanctioned(c)'}), Settles(last),
           tasks[t].at <= tasks[t].hi, CurrentEvent(t).kind = "finish",
           {c \in inFlight : c > last} = {}, Iterate(t, last, deny, x),
           UNCHANGED <<conf, wire, up, accs, closed>>
    PROVE  StreamInv'
<1>1. WireOK /\ TasksOK /\ AccsOK /\ OutOK /\ SettledOK /\ LoopsOK
  BY DEF StreamInv, GateOK
<1>2. AfterLoop(t, deny, x)
  BY DEF Iterate
<1>3. /\ inFlight' = {} /\ tasks' = [tasks EXCEPT ![t] = Advanced(t)]
      /\ out' = out \o x \o (IF deny \/ syntheticTerminalEmitted THEN <<>> ELSE Raw(CurrentEvent(t).rawFrame))
  BY <1>2 DEF AfterLoop
<1>4. WireOK'
  BY <1>1, WireKept
<1>5. /\ TasksOK' /\ Touched(t)'
      /\ \A n \in 1 .. Len(wire) : Touched(n) => Touched(n)'
  BY <1>1, <1>3, Advances
<1>6. \A n \in 1 .. Len(wire) : \A i \in 1 .. Len(Events(provider, wire, n)) :
          Passed(n, i)' => Passed(n, i) \/ (n = t /\ i = tasks[t].ev)
  BY <1>1, <1>3, Advances
<1>7. t \in 1 .. Len(wire) /\ CurrentEvent(t) = Events(provider, wire, t)[tasks[t].ev]
  BY <1>1, AtFrame
<1>8. AccsOK'
  <2>1. UNCHANGED <<conf, wire, accs>> /\ inFlight' \subseteq inFlight
    BY <1>3
  <2>2. \A n \in 1 .. Len(wire) : \A i \in 1 .. Len(Events(provider, wire, n)) :
            Passed(n, i)' /\ Events(provider, wire, n)[i].kind = "tool-call-start" => Passed(n, i)
    BY <1>6, <1>7
  <2> QED BY <1>1, <1>5, <2>1, <2>2, AccsKept
<1>9. OutOK'
  <2> DEFINE U == {n \in 1 .. Len(wire) : Touched(n)'}
             o == out \o x
  <2>1. PICK S : S = {c \in Calls : Sanctioned(c)'}
    OBVIOUS
  <2>2. OutIs(wire, o, {n \in 1 .. Len(wire) : Touched(n)}, S)
    BY <1>1, <2>1, FlushedOut
  <2>3. {n \in 1 .. Len(wire) : Touched(n)} \subseteq U /\ t \in U /\ CurrentEvent(t).kind \in PassKinds
    BY <1>5, <1>7 DEF PassKinds
  <2>4. wire' = wire /\ (OutIs(wire, out', U, S) => OutOK')
    BY <2>1 DEF OutOK
  <2> HIDE DEF U, o
  <2>5. CASE deny \/ syntheticTerminalEmitted
    <3>1. out' = o \o <<>>
      BY <1>3, <2>5 DEF o
    <3>2. IsSeq(<<>>) /\ ~\E i \in 1 .. Len(<<>>) : TRUE
      BY NoSeq
    <3>3. OutIs(wire, o, U, S)
      BY <2>2, <2>3, OutWider
    <3>4. OutIs(wire, o \o <<>>, U, S)
      BY <3>2, <3>3, OutFlushed
    <3> QED BY <2>4, <3>1, <3>4
  <2>6. CASE ~(deny \/ syntheticTerminalEmitted)
    <3>1. out' = o \o Raw(CurrentEvent(t).rawFrame)
      BY <1>3, <2>6 DEF o
    <3>2. OutIs(wire, o \o Raw(CurrentEvent(t).rawFrame), U, S)
      BY <1>1, <2>2, <2>3, ToldPast
    <3> QED BY <2>4, <3>1, <3>2
  <2> QED BY <2>5, <2>6
<1>10. SettledOK'
  BY <1>1, AllSettled
<1>11. LoopsOK'
  BY <1>1, <1>3, LoopsAdvanced
<1> QED BY <1>4, <1>5, <1>8, <1>9, <1>10, <1>11 DEF StreamInv, GateOK

LEMMA EndedOK ==
    ASSUME StreamInv, NEW t \in 1 .. Len(tasks), Runnable(t), NEW last \in Calls \cup {TextBlock},
           NEW deny, NEW x, FlushIs(x, {c \in Calls : Sanctioned(c)'}), Settles(last),
           ~(tasks[t].at <= tasks[t].hi),
           {c \in inFlight : c > last} = {}, Iterate(t, last, deny, x),
           UNCHANGED <<conf, wire, up, accs, closed>>
    PROVE  StreamInv'
<1>1. WireOK /\ TasksOK /\ AccsOK /\ OutOK /\ SettledOK /\ LoopsOK
  BY DEF StreamInv, GateOK
<1>2. AfterEnd(t, x)
  BY DEF Iterate
<1>3. /\ inFlight' = {} /\ out' = out \o x
      /\ tasks' = [tasks EXCEPT ![t].new = FALSE, ![t].call = TextBlock, ![t].ev = 2]
  BY <1>1, <1>2 DEF AfterEnd, WireOK
<1>4. IsSeq(tasks) /\ TaskType(t) /\ ~tasks[t].over /\ DOMAIN tasks = 1 .. Len(tasks) /\ t \in Nat \ {0} /\ Len(wire) \in Nat
  BY <1>1, Only, SeqDomain, Lengths DEF TasksOK
<1>5. PICK k : k = [tasks[t] EXCEPT !.new = FALSE, !.call = TextBlock, !.ev = 2]
  OBVIOUS
<1>6. tasks' = [tasks EXCEPT ![t] = k]
  BY <1>3, <1>4, <1>5
<1>7. /\ k = [f \in TaskFields |-> k[f]] /\ k.hi = tasks[t].hi /\ k.eof = tasks[t].eof /\ k.at = tasks[t].at
      /\ k.ev = 2 /\ k.call = TextBlock /\ k.over = tasks[t].over
  <2>1. tasks[t] = [f \in TaskFields |-> tasks[t][f]]
    BY <1>4 DEF TaskType
  <2> QED BY <1>5, <2>1 DEF TaskFields
<1>8. k.over = FALSE /\ k.eof /\ k.at > k.hi
  <2>1. tasks[t].over = FALSE /\ tasks[t].eof
    BY <1>4 DEF TaskType
  <2>2. tasks[t].at > tasks[t].hi
    <3>1. tasks[t].at \in {t, t + 1} /\ tasks[t].hi \in {t - 1, t}
      BY <1>4, <2>1 DEF TaskType
    <3>2. tasks[t].at \in Int /\ tasks[t].hi \in Int
      BY <1>4, <3>1
    <3> QED BY <3>2
  <2> QED BY <1>7, <2>1, <2>2
<1>9. /\ TasksOK' /\ Len(tasks') = Len(tasks) /\ tasks'[t] = k
      /\ \A s \in 1 .. Len(tasks) : s # t => tasks'[s] = tasks[s]
      /\ \A n \in 1 .. Len(wire) : /\ Touched(n) <=> Touched(n)'
                                  /\ \A i \in Nat : Passed(n, i) <=> Passed(n, i)'
  <2>1. k.over \in BOOLEAN /\ (k.over => k.eof /\ k.at > k.hi /\ k.ev = 2) /\ k.call \in Calls \cup {TextBlock}
    BY <1>7, <1>8
  <2>2. k.call # TextBlock => /\ ~k.over /\ k.call \in inFlight'
                              /\ k.at <= k.hi => Events(provider, wire, t)[k.ev].kind = "finish"
    BY <1>7
  <2>3. closed' = closed /\ UNCHANGED <<conf, wire, up>>
    OBVIOUS
  <2> QED BY <1>1, <1>6, <1>7, <1>8, <2>1, <2>2, <2>3, Stays
<1>10. WireOK'
  BY <1>1, WireKept
<1>11. AccsOK'
  <2>1. inFlight' \subseteq inFlight
    BY <1>3
  <2>2. \A n \in 1 .. Len(wire) : \A i \in 1 .. Len(Events(provider, wire, n)) : i \in Nat
    BY <1>1, EventsAre
  <2> QED BY <1>1, <1>9, <2>1, <2>2, AccsKept
<1>12. OutOK'
  <2> DEFINE U == {n \in 1 .. Len(wire) : Touched(n)'}
  <2>1. PICK S : S = {c \in Calls : Sanctioned(c)'}
    OBVIOUS
  <2>2. OutIs(wire, out \o x, {n \in 1 .. Len(wire) : Touched(n)}, S)
    BY <1>1, <2>1, FlushedOut
  <2>3. {n \in 1 .. Len(wire) : Touched(n)} = U
    BY <1>9
  <2> QED BY <1>3, <2>1, <2>2, <2>3 DEF OutOK
<1>13. SettledOK'
  BY <1>1, AllSettled
<1>14. LoopsOK'
  <2>1. \A s \in 1 .. Len(tasks) : tasks'[s].call = TextBlock
    BY <1>1, <1>7, <1>9, Only
  <2>2. closed # "done"
    BY <1>1, <1>4 DEF LoopsOK
  <2> QED BY <1>1, <1>3, <1>9, <2>1, <2>2 DEF LoopsOK
<1> QED BY <1>9, <1>10, <1>11, <1>12, <1>13, <1>14 DEF StreamInv, GateOK

LEMMA IterateOK ==
    ASSUME StreamInv, NEW t \in 1 .. Len(tasks), Runnable(t), NEW last \in Calls \cup {TextBlock},
           NEW deny, NEW x, FlushIs(x, {c \in Calls : Sanctioned(c)'}), Settles(last),
           tasks[t].at <= tasks[t].hi => CurrentEvent(t).kind = "finish",
           Iterate(t, last, deny, x), UNCHANGED <<conf, wire, up, accs, closed>>
    PROVE  StreamInv'
<1>1. CASE {c \in inFlight : c > last} # {}
  BY <1>1, AwaitOK
<1>2. CASE {c \in inFlight : c > last} = {} /\ tasks[t].at <= tasks[t].hi
  BY <1>2, FinishedOK
<1>3. CASE {c \in inFlight : c > last} = {} /\ ~(tasks[t].at <= tasks[t].hi)
  BY <1>3, EndedOK
<1> QED BY <1>1, <1>2, <1>3

LEMMA NothingFlushed == ASSUME NEW S PROVE FlushIs(<<>>, S)
<1>1. IsSeq(<<>>) /\ ~\E i \in 1 .. Len(<<>>) : TRUE
  BY NoSeq
<1> QED BY <1>1 DEF FlushIs

LEMMA NothingSettled ==
    ASSUME SettledOK, AccsOK, UNCHANGED <<conf, answers>> PROVE Settles(TextBlock)
<1>1. \A c \in inFlight : ~(c <= TextBlock)
  <2>1. inFlight \subseteq Calls
    BY DEF AccsOK
  <2> QED BY <2>1, WireAssumption DEF Calls, TextBlock
<1>2. \A c \in Calls : (Answered(c) => Answered(c)') /\ (Sanctioned(c) => Sanctioned(c)')
  BY DEF Answered, Sanctioned, conf
<1>3. IsSeq(answers)' /\ \A i \in 1 .. Len(answers') : answers'[i].call \in Calls /\ accs[answers'[i].call].live
  BY DEF SettledOK
<1> QED BY <1>1, <1>2, <1>3 DEF Settles

LEMMA FinishOK ==
    ASSUME StreamInv, NEW t \in 1 .. Len(tasks), OnFinish(t) \/ OnEnd(t) PROVE StreamInv'
<1>1. SettledOK /\ AccsOK
  BY DEF StreamInv, GateOK
<1>2. /\ Runnable(t) /\ Iterate(t, TextBlock, FALSE, <<>>)
      /\ UNCHANGED <<conf, wire, up, accs, closed>> /\ UNCHANGED <<conf, answers>>
  BY DEF OnFinish, OnEnd, AtEvent, AtEnd
<1>3. tasks[t].at <= tasks[t].hi => CurrentEvent(t).kind = "finish"
  <2>1. CASE OnFinish(t)
    BY <2>1 DEF OnFinish, AtEvent
  <2>2. CASE OnEnd(t)
    <3>1. TaskType(t) /\ t \in Nat \ {0}
      BY <1>2, Only DEF StreamInv, TasksOK
    <3>2. tasks[t].at > tasks[t].hi /\ tasks[t].eof
      BY <2>2 DEF OnEnd, AtEnd
    <3>3. tasks[t].at \in {t, t + 1} /\ tasks[t].hi \in {t - 1, t}
      BY <3>1, <3>2 DEF TaskType
    <3>4. tasks[t].at \in Int /\ tasks[t].hi \in Int
      BY <3>1, <3>3
    <3> QED BY <3>2, <3>4
  <2> QED BY <2>1, <2>2
<1>4. Settles(TextBlock) /\ FlushIs(<<>>, {c \in Calls : Sanctioned(c)'})
  BY <1>1, <1>2, NothingSettled, NothingFlushed
<1> QED BY <1>2, <1>3, <1>4, IterateOK

LEMMA AnswerOK ==
    ASSUME StreamInv, NEW t \in 1 .. Len(tasks), Answer(t) PROVE StreamInv'
<1>0. PICK c : c = tasks[t].call
  OBVIOUS
<1>1. WireOK /\ TasksOK /\ AccsOK /\ SettledOK /\ LoopsOK
  BY DEF StreamInv, GateOK
<1>2. Runnable(t) /\ c # TextBlock /\ UNCHANGED <<conf, wire, up, accs, closed>>
  BY <1>0 DEF Answer
<1>3. PICK v \in SafeEval(tasks[t].seen) :
        /\ answers' = Append(answers, [call |-> c, args |-> tasks[t].seen,
                                       outcome |-> v.outcome, decision |-> v.decision])
        /\ Iterate(t, c, tasks[t].deny \/ v.decision # "allow", FlushTool(c, v.decision))
  BY <1>0 DEF Answer
<1>4. PICK a : a = [call |-> c, args |-> tasks[t].seen, outcome |-> v.outcome, decision |-> v.decision]
  OBVIOUS
<1>5. /\ c \in inFlight /\ c \in Calls /\ accs[c].live
      /\ tasks[t].at <= tasks[t].hi => Events(provider, wire, t)[tasks[t].ev].kind = "finish"
  <2>1. Turn(t)
    BY <1>1 DEF TasksOK
  <2> QED BY <1>0, <1>1, <1>2, <2>1 DEF Turn, AccsOK
<1>6. tasks[t].at <= tasks[t].hi => CurrentEvent(t).kind = "finish"
  <2>1. tasks[t].at <= tasks[t].hi => CurrentEvent(t) = Events(provider, wire, t)[tasks[t].ev]
    BY <1>1, <1>2, AtFrame
  <2> QED BY <1>5, <2>1
<1>7. IsSeq(answers) /\ Len(answers) \in Nat /\ DOMAIN answers = 1 .. Len(answers)
  <2>1. IsSeq(answers)
    BY <1>1 DEF SettledOK
  <2> QED BY <2>1, LenNat, SeqDomain
<1>8. answers' = Append(answers, a)
  BY <1>3, <1>4
<1>9. IsSeq(answers') /\ Len(answers') = Len(answers) + 1 /\ answers'[Len(answers) + 1] = a
  BY <1>7, <1>8, AppendSeq
<1>10. \A i \in 1 .. Len(answers) : answers'[i] = answers[i]
  BY <1>7, <1>8, AppendSeq
<1>11. DOMAIN answers' = 1 .. Len(answers')
  BY <1>9, SeqDomain
<1>12. /\ \A i \in DOMAIN answers : i \in DOMAIN answers' /\ answers'[i] = answers[i]
       /\ \A i \in DOMAIN answers' : i \in DOMAIN answers \/ i = Len(answers) + 1
       /\ Len(answers) + 1 \in DOMAIN answers'
  BY <1>7, <1>9, <1>10, <1>11
<1>13. failMode' = failMode
  BY <1>2 DEF conf
<1>14. \A d \in Calls : (Answered(d) => Answered(d)') /\ (Sanctioned(d) => Sanctioned(d)')
  BY <1>12, <1>13 DEF Answered, Sanctioned
<1>15. Answered(c)'
  BY <1>4, <1>9, <1>12 DEF Answered
<1>16. Settles(c)
  <2>1. ASSUME NEW d \in inFlight, d <= c PROVE Answered(d)'
    <3>1. d \in Calls
      BY <1>1 DEF AccsOK
    <3>2. d < c \/ d = c
      BY <1>5, <2>1, <3>1, WireAssumption DEF Calls
    <3>3. d < c => Answered(d)
      BY <1>0, <1>1, <1>2 DEF LoopsOK
    <3> QED BY <1>14, <1>15, <3>1, <3>2, <3>3
  <2>2. a.call = c
    BY <1>4
  <2>3. \A i \in 1 .. Len(answers') : answers'[i].call \in Calls /\ accs[answers'[i].call].live
    BY <1>1, <1>5, <1>7, <1>9, <1>11, <1>12, <2>2 DEF SettledOK
  <2> QED BY <1>9, <1>14, <2>1, <2>3 DEF Settles
<1>17. v.decision = "allow" => Sanctioned(c)'
  <2>1. v.decision = "allow" => tasks[t].seen = Whole /\ (v.outcome = "allow" \/ (v.outcome = "throw" /\ failMode = "allow"))
    BY DEF SafeEval
  <2>2. a.call = c /\ a.args = tasks[t].seen /\ a.outcome = v.outcome
    BY <1>4
  <2> QED BY <1>9, <1>12, <1>13, <2>1, <2>2 DEF Sanctioned
<1>18. FlushIs(FlushTool(c, v.decision), {d \in Calls : Sanctioned(d)'})
  <2> DEFINE S == {d \in Calls : Sanctioned(d)'}
             x == FlushTool(c, v.decision)
             f == accs[c].frames
  <2>1. CASE v.decision = "allow"
    <3>1. x = [i \in 1 .. Len(f) |-> [kind |-> "raw", id |-> f[i]]]
      BY <2>1 DEF FlushTool
    <3>2. c \in S
      BY <1>5, <1>17, <2>1
    <3>3. FramesOK(c, f)
      BY <1>1, <1>5 DEF AccsOK
    <3>4. Len(f) \in Nat
      BY <3>3, LenNat DEF FramesOK
    <3> HIDE DEF x, f, S
    <3>5. IsSeq(x) /\ Len(x) = Len(f) /\ \A i \in 1 .. Len(f) : x[i].id = f[i]
      BY <3>1, <3>4 DEF IsSeq
    <3>6. ASSUME NEW i \in 1 .. Len(f)
          PROVE  /\ x[i].id \in {n \in 1 .. Len(wire) : Touched(n)} /\ CarriesIn(wire, x[i].id)
                 /\ \E k \in DOMAIN wire[x[i].id].calls : wire[x[i].id].calls[k] \in S
      <4>1. x[i].id = f[i] /\ f[i] \in 1 .. Len(wire) /\ c \in CallsIn(f[i]) /\ Carries(f[i]) /\ Touched(f[i])
        BY <3>3, <3>5 DEF FramesOK
      <4>2. PICK k \in DOMAIN wire[f[i]].calls : wire[f[i]].calls[k] = c
        BY <4>1 DEF CallsIn
      <4> QED BY <3>2, <4>1, <4>2 DEF Carries, CarriesIn
    <3> QED BY <3>5, <3>6 DEF FlushIs, x, S
  <2>2. CASE v.decision # "allow"
    <3> DEFINE y == Mark("notice", c)
               z == IF provider \in {"anthropic", "bedrock-invoke"} THEN <<>> ELSE Mark("terminal", c)
    <3>1. x = y \o z
      BY <2>2 DEF FlushTool
    <3>2. IsSeq(y) /\ \A i \in 1 .. Len(y) : y[i].kind # "raw"
      BY MarkIs
    <3>3. IsSeq(z) /\ \A i \in 1 .. Len(z) : z[i].kind # "raw"
      <4>1. CASE provider \in {"anthropic", "bedrock-invoke"}
        <5>1. z = <<>> /\ ~\E i \in 1 .. Len(<<>>) : TRUE
          BY <4>1, NoSeq
        <5> QED BY <5>1, NoSeq
      <4>2. CASE provider \notin {"anthropic", "bedrock-invoke"}
        <5>1. z = Mark("terminal", c)
          BY <4>2
        <5> QED BY <5>1, MarkIs
      <4> QED BY <4>1, <4>2
    <3> HIDE DEF x, y, z, S
    <3>4. IsSeq(x)
      BY <3>1, <3>2, <3>3, ConcatSeq
    <3>5. ASSUME NEW i \in 1 .. Len(x) PROVE x[i].kind # "raw"
      <4>1. (i \in 1 .. Len(y) /\ x[i] = y[i]) \/ \E j \in 1 .. Len(z) : i = Len(y) + j /\ x[i] = z[j]
        BY <3>1, <3>2, <3>3, ConcatCases
      <4> QED BY <3>2, <3>3, <4>1
    <3> QED BY <3>4, <3>5 DEF FlushIs, x, S
  <2> QED BY <2>1, <2>2
<1>19. PICK x, d : x = FlushTool(c, v.decision) /\ d = (tasks[t].deny \/ v.decision # "allow")
  OBVIOUS
<1> QED BY <1>2, <1>3, <1>5, <1>6, <1>16, <1>18, <1>19, IterateOK

LEMMA CloseOK ==
    ASSUME StreamInv, NEW t \in 1 .. Len(tasks), OnClose(t) PROVE StreamInv'
<1>1. WireOK /\ TasksOK /\ AccsOK /\ OutOK /\ SettledOK /\ LoopsOK
  BY DEF StreamInv, GateOK
<1>2. /\ Runnable(t) /\ tasks[t].eof /\ tasks[t].at > tasks[t].hi /\ tasks[t].call = TextBlock /\ tasks[t].ev = 2
      /\ closed' = "done" /\ out' = out \o Mark("close", 0)
      /\ tasks' = [tasks EXCEPT ![t].over = TRUE]
      /\ UNCHANGED <<conf, wire, up>> /\ UNCHANGED <<accs, inFlight, answers>>
  BY DEF OnClose, AtEnd, state
<1>3. IsSeq(tasks) /\ TaskType(t) /\ DOMAIN tasks = 1 .. Len(tasks) /\ Len(tasks) \in Nat
  BY <1>1, SeqDomain, Lengths DEF TasksOK
<1>4. PICK k : k = [tasks[t] EXCEPT !.over = TRUE]
  OBVIOUS
<1>5. tasks' = [tasks EXCEPT ![t] = k]
  BY <1>2, <1>3, <1>4
<1>6. /\ k = [f \in TaskFields |-> k[f]] /\ k.hi = tasks[t].hi /\ k.eof = tasks[t].eof /\ k.at = tasks[t].at
      /\ k.ev = tasks[t].ev /\ k.call = TextBlock /\ k.over = TRUE
  <2>1. tasks[t] = [f \in TaskFields |-> tasks[t][f]]
    BY <1>3 DEF TaskType
  <2> QED BY <1>2, <1>4, <2>1 DEF TaskFields
<1>7. /\ TasksOK' /\ Len(tasks') = Len(tasks) /\ tasks'[t] = k
      /\ \A s \in 1 .. Len(tasks) : s # t => tasks'[s] = tasks[s]
      /\ \A n \in 1 .. Len(wire) : /\ Touched(n) <=> Touched(n)'
                                  /\ \A i \in Nat : Passed(n, i) <=> Passed(n, i)'
  <2>1. k.over \in BOOLEAN /\ (k.over => k.eof /\ k.at > k.hi /\ k.ev = 2) /\ k.call \in Calls \cup {TextBlock}
    BY <1>2, <1>6
  <2>2. k.call # TextBlock => /\ ~k.over /\ k.call \in inFlight'
                              /\ k.at <= k.hi => Events(provider, wire, t)[k.ev].kind = "finish"
    BY <1>6
  <2>3. closed' # "failed"
    BY <1>2
  <2> QED BY <1>1, <1>2, <1>5, <1>6, <2>1, <2>2, <2>3, Stays
<1>8. WireOK'
  BY <1>1, <1>2, WireKept
<1>9. AccsOK'
  <2>1. UNCHANGED <<conf, wire, accs>> /\ inFlight' \subseteq inFlight
    BY <1>2
  <2>2. \A n \in 1 .. Len(wire) : \A i \in 1 .. Len(Events(provider, wire, n)) : i \in Nat
    BY <1>1, EventsAre
  <2> QED BY <1>1, <1>7, <2>1, <2>2, AccsKept
<1>10. OutOK'
  <2> DEFINE T == {n \in 1 .. Len(wire) : Touched(n)}
             U == {n \in 1 .. Len(wire) : Touched(n)'}
             S == {c \in Calls : Sanctioned(c)}
  <2>1. T = U /\ {c \in Calls : Sanctioned(c)'} = S
    BY <1>2, <1>7, SanctionedKept
  <2>2. OutIs(wire, out, T, S)
    BY <1>1 DEF OutOK
  <2>3. IsSeq(Mark("close", 0)) /\ \A i \in 1 .. Len(Mark("close", 0)) : Mark("close", 0)[i].kind # "raw"
    BY MarkIs
  <2> HIDE DEF T, S
  <2>4. OutIs(wire, out \o Mark("close", 0), T, S)
    BY <2>2, <2>3, OutFlushed
  <2> QED BY <1>2, <2>1, <2>4 DEF OutOK
<1>11. SettledOK'
  BY <1>1, <1>2 DEF SettledOK, Answered
<1>12. LoopsOK'
  <2>1. inFlight = {} /\ t = Len(tasks) /\ up.phase = "ended"
    BY <1>1, <1>2, <1>3 DEF LoopsOK, TaskType
  <2>2. \A s \in 1 .. Len(tasks) : s # t => s < t /\ tasks[s].over /\ tasks[s].call = TextBlock
    BY <1>1, <1>2, <1>3, <2>1, Only
  <2> QED BY <1>2, <1>6, <1>7, <2>1, <2>2 DEF LoopsOK
<1> QED BY <1>7, <1>8, <1>9, <1>10, <1>11, <1>12 DEF StreamInv, GateOK
-----------------------------------------------------------------------------
(* The upstream's steps. *)
LEMMA ArrivesOK ==
    ASSUME StreamInv, WireOK', UNCHANGED <<conf, state, out, answers, closed>>,
           closed = "open", up.phase # "ended",
           Len(wire') \in {Len(wire), Len(wire) + 1}, \A m \in 1 .. Len(wire) : wire'[m] = wire[m],
           NEW eof \in BOOLEAN, tasks' = Append(tasks, NewTask(Len(wire) + 1, Len(wire'), eof)),
           eof <=> up'.phase = "ended", ~eof => Len(wire') = Len(wire) + 1
    PROVE  StreamInv'
<1>1. WireOK /\ TasksOK /\ AccsOK /\ OutOK /\ SettledOK /\ LoopsOK
  BY DEF StreamInv, GateOK
<1>2. /\ provider' = provider /\ failMode' = failMode /\ accs' = accs /\ inFlight' = inFlight
      /\ out' = out /\ answers' = answers /\ closed' = closed
  BY DEF conf, state
<1>0. PICK n : n = Len(wire) + 1
  OBVIOUS
<1>3. IsSeq(tasks) /\ Len(tasks) \in Nat /\ Len(wire) \in Nat /\ n = Len(wire) + 1 /\ n \in Nat \ {0}
  <2>1. IsSeq(tasks) /\ Len(tasks) \in Nat /\ Len(wire) \in Nat
    BY <1>1, Lengths
  <2> QED BY <1>0, <2>1
<1>4. Len(tasks) = Len(wire) /\ \A s \in 1 .. Len(tasks) : ~tasks[s].eof
  BY <1>1 DEF TasksOK
<1>5. PICK k : k = NewTask(n, Len(wire'), eof)
  OBVIOUS
<1>6. /\ k = [f \in TaskFields |-> k[f]] /\ k.hi = Len(wire') /\ k.eof = eof /\ k.at = n /\ k.ev = 1
      /\ k.call = TextBlock /\ k.over = FALSE
  BY <1>5 DEF NewTask, TaskFields
<1>7. IsSeq(tasks') /\ Len(tasks') = n /\ tasks'[n] = k
  BY <1>3, <1>4, <1>5, AppendSeq
<1>8. \A s \in 1 .. Len(wire) : tasks'[s] = tasks[s]
  BY <1>3, <1>4, <1>5, AppendSeq
<1>9. ASSUME NEW m \in 1 .. Len(wire) PROVE Events(provider, wire', m) = Events(provider, wire, m)
  <2>1. m \in Nat \ {0} /\ \A h \in 1 .. m : h \in 1 .. Len(wire)
    BY <1>3
  <2>2. \A h \in 1 .. m : wire'[h] = wire[h]
    BY <2>1
  <2> QED BY <2>1, <2>2, EventsLocal
<1>10. \A m \in 1 .. Len(wire) : m \in 1 .. Len(wire')
  BY <1>3
<1>11. \A m \in 1 .. Len(tasks') : m \in 1 .. Len(wire) \/ m = n
  BY <1>3, <1>7
<1>12. \A m \in 1 .. Len(wire') : m \in 1 .. Len(wire) \/ m = n
  BY <1>3
<1>13. ASSUME NEW m \in 1 .. Len(wire)
       PROVE  /\ Touched(m) <=> Touched(m)'
              /\ \A i : Passed(m, i) <=> Passed(m, i)'
              /\ CarriesIn(wire, m) <=> CarriesIn(wire', m)
              /\ Carries(m) <=> Carries(m)'
              /\ CallsIn(m) = CallsIn(m)'
  BY <1>8 DEF Touched, Passed, CarriesIn, Carries, CallsIn
<1>14. TasksOK'
  <2>1. ASSUME NEW s \in 1 .. Len(wire) PROVE TaskType(s)' /\ Turn(s)'
    <3>1. TaskType(s) /\ Turn(s) /\ ~tasks[s].eof /\ tasks'[s] = tasks[s]
      BY <1>1, <1>4, <1>8 DEF TasksOK
    <3>2. Events(provider', wire', s) = Events(provider, wire, s) /\ s <= Len(wire')
      BY <1>2, <1>3, <1>9
    <3>3. \A r \in 1 .. s - 1 : r \in 1 .. Len(wire) /\ tasks'[r] = tasks[r]
      <4>1. \A r \in 1 .. s - 1 : r \in 1 .. Len(wire)
        BY <1>3
      <4> QED BY <1>8, <4>1
    <3>4. TaskType(s)'
      BY <3>1, <3>2 DEF TaskType
    <3>5. Turn(s)'
      BY <1>2, <3>1, <3>2, <3>3 DEF Turn
    <3> QED BY <3>4, <3>5
  <2>2. TaskType(n)'
    <3>1. k.at \in {n, n + 1} /\ k.ev \in Nat \ {0} /\ k.call \in Calls \cup {TextBlock} /\ k.over \in BOOLEAN /\ k.eof \in BOOLEAN
      <4>1. k.over \in BOOLEAN /\ k.eof \in BOOLEAN
        BY <1>6, Zenon
      <4>2. k.at \in {n, n + 1} /\ k.call \in Calls \cup {TextBlock}
        BY <1>6, Zenon
      <4>3. k.ev \in Nat \ {0}
        BY <1>6
      <4> QED BY <4>1, <4>2, <4>3
    <3>2. ~k.eof => k.hi = n /\ n <= Len(wire') /\ (k.over <=> k.at = n + 1)
      BY <1>3, <1>6
    <3>3. k.eof => /\ n = Len(tasks') /\ k.hi = Len(wire') /\ k.hi \in {n - 1, n}
                   /\ up'.phase = "ended" /\ closed' # "failed" /\ ~k.over
      BY <1>2, <1>3, <1>6, <1>7
    <3>4. k.at <= k.hi => k.ev <= Len(Events(provider', wire', n))
      <4>1. CASE k.at <= k.hi
        <5>1. n \in 1 .. Len(wire')
          BY <1>3, <1>6, <4>1
        <5>2. Len(Events(provider, wire, n))' \in Nat \ {0}
          BY <5>1, WireEvents
        <5> QED BY <1>6, <5>2
      <4> QED BY <4>1
    <3> QED BY <1>6, <1>7, <3>1, <3>2, <3>3, <3>4 DEF TaskType
  <2>3. Turn(n)'
    <3> QED BY <1>6, <1>7 DEF Turn
  <2>4. \A s \in 1 .. Len(tasks') : TaskType(s)' /\ Turn(s)'
    BY <1>11, <2>1, <2>2, <2>3
  <2>5. Len(tasks') \in {Len(wire'), Len(wire') + 1}
    BY <1>3, <1>7
  <2>6. up'.phase # "ended" => Len(tasks') = Len(wire') /\ \A s \in 1 .. Len(tasks') : ~tasks'[s].eof
    <3>1. up'.phase # "ended" => ~eof
      OBVIOUS
    <3> QED BY <1>4, <1>6, <1>7, <1>8, <1>11, <3>1
  <2> QED BY <1>7, <2>4, <2>5, <2>6 DEF TasksOK
<1>15. ~Touched(n)' /\ \A i \in Nat \ {0} : ~Passed(n, i)'
  <2>1. ~(n > n) /\ ~(1 > 1)
    BY <1>3
  <2> QED BY <1>6, <1>7, <2>1 DEF Touched, Passed
<1>16. AccsOK'
  <2>1. ASSUME NEW c \in Calls PROVE FramesOK(c, accs[c].frames)'
    <3>1. FramesOK(c, accs[c].frames)
      BY <1>1 DEF AccsOK
    <3> QED BY <1>2, <1>10, <1>13, <3>1 DEF FramesOK
  <2>2. ASSUME NEW m \in 1 .. Len(wire'), NEW i \in 1 .. Len(Events(provider, wire, m)'), Passed(m, i)',
               Events(provider, wire, m)'[i].kind = "tool-call-start"
        PROVE  accs[Events(provider, wire, m)'[i].index].live
    <3>1. i \in Nat \ {0}
      BY <2>2, WireEvents
    <3>2. m \in 1 .. Len(wire)
      BY <1>12, <1>15, <2>2, <3>1
    <3>3. Events(provider, wire, m)' = Events(provider, wire, m) /\ Passed(m, i)
      <4>1. Events(provider', wire', m) = Events(provider, wire, m)
        BY <1>2, <1>9, <3>2
      <4>2. Passed(m, i)
        BY <1>13, <2>2, <3>2
      <4> QED BY <4>1, <4>2
    <3> QED BY <1>1, <2>2, <3>2, <3>3 DEF AccsOK
  <2>3. /\ accs = [c \in Calls |-> accs[c]] /\ \A c \in Calls : AccType(accs[c])
        /\ inFlight \subseteq Calls /\ \A c \in inFlight : accs[c].live
    BY <1>1 DEF AccsOK
  <2> QED BY <1>2, <2>1, <2>2, <2>3 DEF AccsOK
<1>17. OutOK'
  <2> DEFINE T == {m \in 1 .. Len(wire) : Touched(m)}
             U == {m \in 1 .. Len(wire') : Touched(m)'}
             S == {c \in Calls : Sanctioned(c)}
  <2>1. {c \in Calls : Sanctioned(c)'} = S
    BY <1>2 DEF Sanctioned
  <2>2. OutIs(wire, out, T, S)
    BY <1>1 DEF OutOK
  <2>3. \A m \in T : m \in U /\ (CarriesIn(wire, m) <=> CarriesIn(wire', m)) /\ wire'[m] = wire[m]
    BY <1>10, <1>13
  <2> HIDE DEF T, U, S
  <2>4. OutIs(wire', out, U, S)
    BY <2>2, <2>3 DEF OutIs
  <2> QED BY <1>2, <2>1, <2>4 DEF OutOK, U
<1>18. SettledOK'
  BY <1>1, <1>2 DEF SettledOK, Answered
<1>19. LoopsOK'
  <2>1. ASSUME NEW s \in 1 .. Len(tasks')
        PROVE  /\ tasks'[s].call # TextBlock => \A c \in inFlight : c < tasks'[s].call => Answered(c)'
               /\ ~(tasks'[s].eof /\ tasks'[s].at > tasks'[s].hi /\ tasks'[s].ev = 2)
    <3>1. \A c : Answered(c)' <=> Answered(c)
      BY <1>2 DEF Answered
    <3>2. CASE s \in 1 .. Len(wire)
      BY <1>1, <1>4, <1>8, <3>1, <3>2 DEF LoopsOK
    <3>3. CASE s = n
      BY <1>6, <1>7, <3>3
    <3> QED BY <1>11, <3>2, <3>3
  <2> QED BY <1>2, <2>1 DEF LoopsOK
<1> QED BY <1>14, <1>16, <1>17, <1>18, <1>19 DEF StreamInv, GateOK

LEMMA DataOK ==
    ASSUME StreamInv, NEW f \in Offers, OnData(f) PROVE StreamInv'
<1>1. WireOK /\ Serial
  BY DEF StreamInv, WireOK, Serial
<1>2. /\ MaySend(f) /\ wire' = Append(wire, f) /\ up' = Sent(f)
      /\ UNCHANGED <<conf, state, out, answers, closed>>
      /\ tasks' = Append(tasks, NewTask(Len(wire) + 1, Len(wire) + 1, FALSE))
  BY <1>1 DEF OnData
<1>3. Offered(f)
  BY <1>1, OffersAre
<1>4. WireOK'
  BY <1>1, <1>2, <1>3, WireSent
<1>5. Len(wire') = Len(wire) + 1 /\ \A m \in 1 .. Len(wire) : wire'[m] = wire[m]
  BY <1>1, <1>2, <1>3, FrameAdded DEF Longer
<1>6. closed = "open" /\ up.phase # "ended"
  BY <1>2 DEF MaySend
<1>7. up'.phase # "ended"
  <2>1. up'.phase = CASE f.type = "reason" -> "reason" [] f.type \in {"done", "last"} -> "done"
                      [] OTHER -> up.phase
    BY <1>2 DEF Sent
  <2>2. CASE f.type = "reason"
    BY <2>1, <2>2
  <2>3. CASE f.type \in {"done", "last"}
    BY <2>1, <2>3
  <2>4. CASE f.type # "reason" /\ f.type \notin {"done", "last"}
    BY <1>6, <2>1, <2>4
  <2> QED BY <2>2, <2>3, <2>4
<1>8. tasks' = Append(tasks, NewTask(Len(wire) + 1, Len(wire'), FALSE))
  BY <1>2, <1>5
<1>9. FALSE \in BOOLEAN /\ (FALSE <=> up'.phase = "ended")
  BY <1>7
<1> QED BY <1>2, <1>4, <1>5, <1>6, <1>8, <1>9, ArrivesOK

LEMMA UpstreamEndOK ==
    ASSUME StreamInv, NEW half \in {<<>>, <<Cut>>}, OnUpstreamEnd(half) PROVE StreamInv'
<1>1. WireOK
  BY DEF StreamInv
<1>2. /\ closed = "open" /\ up.phase # "ended" /\ up' = [up EXCEPT !.phase = "ended"] /\ wire' = wire \o half
      /\ tasks' = Append(tasks, NewTask(Len(wire) + 1, Len(wire) + Len(half), TRUE))
      /\ UNCHANGED <<conf, state, out, answers, closed>>
  BY DEF OnUpstreamEnd
<1>3. /\ WireOK' /\ Len(wire') = Len(wire) + Len(half) /\ Len(half) \in {0, 1}
      /\ \A m \in 1 .. Len(wire) : wire'[m] = wire[m]
  BY <1>1, <1>2, WireEnded
<1>4. Len(wire') \in {Len(wire), Len(wire) + 1}
  <2>1. Len(wire) \in Nat
    BY <1>1, LenNat DEF WireOK
  <2>2. CASE Len(half) = 0
    BY <1>3, <2>1, <2>2
  <2>3. CASE Len(half) = 1
    BY <1>3, <2>1, <2>3
  <2> QED BY <1>3, <2>2, <2>3
<1>5. up'.phase = "ended"
  BY <1>1, <1>2 DEF WireOK, UpOK
<1>6. tasks' = Append(tasks, NewTask(Len(wire) + 1, Len(wire'), TRUE))
  BY <1>2, <1>3
<1>7. TRUE \in BOOLEAN /\ (TRUE <=> up'.phase = "ended")
  BY <1>5
<1> QED BY <1>2, <1>3, <1>4, <1>6, <1>7, ArrivesOK

LEMMA ErrorOK ==
    ASSUME StreamInv, OnError PROVE StreamInv'
<1>1. WireOK /\ TasksOK /\ AccsOK /\ OutOK /\ SettledOK /\ LoopsOK
  BY DEF StreamInv, GateOK
<1>2. /\ closed = "open" /\ up.phase # "ended" /\ up' = [up EXCEPT !.phase = "ended"]
      /\ closed' = "failed" /\ out' = out \o Mark("error", 0)
      /\ UNCHANGED <<conf, wire, tasks>> /\ UNCHANGED <<accs, inFlight, answers>>
  BY DEF OnError, state
<1>3. provider' = provider /\ wire' = wire /\ tasks' = tasks
  BY <1>2 DEF conf
<1>4. WireOK'
  <2>1. wire' = wire \o <<>>
    <3>1. IsSeq(wire)
      BY <1>1 DEF WireOK
    <3>2. wire \in Seq({wire[i] : i \in 1 .. Len(wire)})
      BY <3>1, SeqTyped
    <3>3. wire \o <<>> = wire
      BY <3>2
    <3> QED BY <1>3, <3>3
  <2> QED BY <1>1, <1>2, <2>1, WireEnded
<1>5. up'.phase = "ended"
  BY <1>1, <1>2 DEF WireOK, UpOK
<1>6. \A s \in 1 .. Len(tasks) : ~tasks[s].eof
  BY <1>1, <1>2 DEF TasksOK
<1>7. TasksOK'
  <2>1. ASSUME NEW s \in 1 .. Len(tasks) PROVE TaskType(s)' /\ Turn(s)'
    <3>1. TaskType(s) /\ Turn(s) /\ ~tasks[s].eof
      BY <1>1, <1>6 DEF TasksOK
    <3>2. TaskType(s)'
      BY <1>3, <3>1 DEF TaskType
    <3>3. Turn(s)'
      BY <1>2, <1>3, <3>1 DEF Turn
    <3> QED BY <3>2, <3>3
  <2>2. IsSeq(tasks') /\ Len(tasks') \in {Len(wire'), Len(wire') + 1}
    BY <1>1, <1>3 DEF TasksOK
  <2> QED BY <1>3, <1>5, <2>1, <2>2 DEF TasksOK
<1>8. \A n \in 1 .. Len(wire) : (Touched(n)' <=> Touched(n)) /\ \A i : Passed(n, i)' <=> Passed(n, i)
  BY <1>3 DEF Touched, Passed
<1>9. AccsOK'
  <2>1. UNCHANGED <<conf, wire, accs>> /\ inFlight' \subseteq inFlight
    BY <1>2
  <2> QED BY <1>1, <1>8, <2>1, AccsKept
<1>10. OutOK'
  <2> DEFINE T == {n \in 1 .. Len(wire) : Touched(n)}
             U == {n \in 1 .. Len(wire) : Touched(n)'}
             S == {c \in Calls : Sanctioned(c)}
  <2>1. T = U /\ {c \in Calls : Sanctioned(c)'} = S
    BY <1>2, <1>8, SanctionedKept
  <2>2. OutIs(wire, out, T, S)
    BY <1>1 DEF OutOK
  <2>3. IsSeq(Mark("error", 0)) /\ \A i \in 1 .. Len(Mark("error", 0)) : Mark("error", 0)[i].kind # "raw"
    BY MarkIs
  <2> HIDE DEF T, S
  <2>4. OutIs(wire, out \o Mark("error", 0), T, S)
    BY <2>2, <2>3, OutFlushed
  <2> QED BY <1>2, <2>1, <2>4 DEF OutOK
<1>11. SettledOK'
  BY <1>1, <1>2 DEF SettledOK, Answered
<1>12. LoopsOK'
  <2>1. \A c : Answered(c)' <=> Answered(c)
    BY <1>2 DEF Answered
  <2> QED BY <1>1, <1>2, <1>3, <1>5, <2>1 DEF LoopsOK
<1> QED BY <1>4, <1>7, <1>9, <1>10, <1>11, <1>12 DEF StreamInv, GateOK
-----------------------------------------------------------------------------
(* The invariant. *)
LEMMA InitOK == ASSUME Init, Serial PROVE StreamInv
<1>1. /\ plane \in {"fetch", "undici"} /\ provider \in Providers /\ failMode \in {"allow", "deny"}
  BY StreamAssumption DEF Init, Serial
<1>2. wire = <<>> /\ tasks = <<>> /\ out = <<>> /\ answers = <<>>
  BY DEF Init
<1>3. IsSeq(wire) /\ IsSeq(tasks) /\ IsSeq(out) /\ IsSeq(answers)
  BY <1>2, NoSeq
<1>4. Len(wire) = 0 /\ Len(tasks) = 0 /\ Len(out) = 0 /\ Len(answers) = 0
  BY <1>2, NoSeq
<1>5. \A n : n \notin 1 .. Len(wire) /\ n \notin 1 .. Len(tasks) /\ n \notin 1 .. Len(out) /\ n \notin 1 .. Len(answers)
  BY <1>4
<1>6. UpOK
  <2>1. up = [phase |-> "body", started |-> 0, pieces |-> [c \in Calls |-> 0], shut |-> {}]
    BY DEF Init
  <2>2. \A c \in Calls : ~(c < up.started)
    BY <2>1, WireAssumption DEF Calls
  <2>3. up.started \in 0 .. MaxCalls /\ up.pieces \in [Calls -> Nat]
    BY <2>1, WireAssumption
  <2>4. up = [f \in {"phase", "started", "pieces", "shut"} |-> up[f]]
    BY <2>1
  <2> QED BY <2>2, <2>3, <2>4 DEF UpOK
<1>7. WireOK
  BY <1>1, <1>3, <1>5, <1>6 DEF WireOK
<1>8. TasksOK
  BY <1>3, <1>4, <1>5 DEF TasksOK
<1>9. AccsOK
  <2>1. accs = [c \in Calls |-> NoAcc] /\ inFlight = {}
    BY DEF Init
  <2>2. AccType(NoAcc) /\ NoAcc.frames = <<>>
    BY DEF NoAcc, AccType
  <2>3. \A c \in Calls : FramesOK(c, <<>>)
    <3>1. IsSeq(<<>>) /\ ~\E i \in 1 .. Len(<<>>) : TRUE
      BY NoSeq
    <3> QED BY <3>1 DEF FramesOK
  <2> HIDE DEF NoAcc
  <2> QED BY <1>5, <2>1, <2>2, <2>3 DEF AccsOK
<1>10. OutOK
  BY <1>3, <1>5 DEF OutOK, OutIs
<1>11. SettledOK
  BY <1>3, <1>5 DEF SettledOK, Init, NoAcc
<1>12. LoopsOK
  BY <1>5 DEF LoopsOK, Init
<1> QED BY <1>7, <1>8, <1>9, <1>10, <1>11, <1>12 DEF StreamInv, GateOK

LEMMA StepOK == ASSUME StreamInv, [Next]_vars PROVE StreamInv'
<1>1. CASE UNCHANGED vars
  <2>1. /\ UNCHANGED <<conf, wire, up>> /\ UNCHANGED <<conf, wire, accs>> /\ UNCHANGED <<conf, wire, out, answers>>
        /\ UNCHANGED <<tasks, inFlight, closed, up, answers, accs>>
    BY <1>1 DEF vars, state
  <2>2. provider' = provider /\ wire' = wire /\ tasks' = tasks
    BY <2>1 DEF conf
  <2>3. WireOK'
    BY <2>1, WireKept DEF StreamInv
  <2>4. TasksOK'
    <3>1. \A s \in 1 .. Len(tasks) : (TaskType(s) => TaskType(s)') /\ (Turn(s) => Turn(s)')
      BY <2>1, <2>2 DEF TaskType, Turn
    <3> QED BY <2>1, <2>2, <3>1 DEF StreamInv, TasksOK
  <2>5. \A n \in 1 .. Len(wire) : (Touched(n)' <=> Touched(n)) /\ \A i : Passed(n, i)' <=> Passed(n, i)
    BY <2>2 DEF Touched, Passed
  <2>6. AccsOK'
    <3>1. inFlight' \subseteq inFlight /\ AccsOK
      BY <2>1 DEF StreamInv
    <3> QED BY <2>1, <2>5, <3>1, AccsKept
  <2>7. OutOK'
    BY <2>1, <2>5, OutKept DEF StreamInv
  <2>8. SettledOK'
    BY <2>1 DEF StreamInv, GateOK, SettledOK, Answered
  <2>9. LoopsOK'
    <3>1. \A c : Answered(c)' <=> Answered(c)
      BY <2>1 DEF Answered
    <3> QED BY <2>1, <3>1 DEF StreamInv, GateOK, LoopsOK
  <2> QED BY <2>3, <2>4, <2>6, <2>7, <2>8, <2>9 DEF StreamInv, GateOK
<1>2. CASE Next
  <2>1. DOMAIN tasks = 1 .. Len(tasks)
    BY SeqDomain DEF StreamInv, TasksOK
  <2>2. CASE \E f \in Offers : OnData(f)
    BY <2>2, DataOK
  <2>3. CASE \E half \in {<<>>, <<WireFrame("cut", <<>>, <<>>)>>} : OnUpstreamEnd(half)
    BY <2>3, UpstreamEndOK DEF Cut
  <2>4. CASE OnError
    BY <2>4, ErrorOK
  <2>5. ASSUME NEW t \in 1 .. Len(tasks), Run(t) PROVE StreamInv'
    <3>1. CASE OnText(t)
      BY <3>1, TextOK
    <3>2. CASE OnStart(t)
      BY <3>2, StartOK
    <3>3. CASE OnBuffered(t)
      BY <3>3, BufferedOK
    <3>4. CASE OnFinish(t) \/ OnEnd(t)
      BY <3>4, FinishOK
    <3>5. CASE Answer(t)
      BY <3>5, AnswerOK
    <3>6. CASE OnClose(t)
      BY <3>6, CloseOK
    <3> QED BY <2>5, <3>1, <3>2, <3>3, <3>4, <3>5, <3>6 DEF Run
  <2> QED BY <1>2, <2>1, <2>2, <2>3, <2>4, <2>5 DEF Next
<1> QED BY <1>1, <1>2

LEMMA PlaneKept == ASSUME [Next]_vars PROVE plane' = plane
<1>1. CASE UNCHANGED vars
  BY <1>1 DEF vars, conf
<1>2. CASE Next
  <2>1. UNCHANGED conf
    BY <1>2 DEF Next, Run, OnData, OnUpstreamEnd, OnError, OnText, OnStart, OnBuffered, OnFinish,
                OnEnd, OnClose, Answer
  <2> QED BY <2>1 DEF conf
<1> QED BY <1>1, <1>2

(* On the planes that chain the chunks of an answer, whatever its length, the  *)
(* number of its calls and the pieces their arguments come in, each frame has *)
(* one task, one task at a time is at work, what is buffered belongs to a call *)
(* that was begun, and every call that was begun is in flight or settled.      *)
THEOREM StreamInvariant == Spec => [](Serial => StreamInv)
<1>1. Init => (Serial => StreamInv)
  BY InitOK
<1>2. (Serial => StreamInv) /\ [Next]_vars => (Serial => StreamInv)'
  <2> SUFFICES ASSUME Serial => StreamInv, [Next]_vars, Serial' PROVE StreamInv'
    OBVIOUS
  <2>1. Serial
    BY PlaneKept DEF Serial
  <2> QED BY <2>1, StepOK
<1> QED BY <1>1, <1>2, PTL DEF Spec

(* A frame of a tool call reaches the consumer only after the evaluator, shown *)
(* the complete arguments of one of its calls, has allowed it: flushTool is    *)
(* the only way out of the buffer, and no event about a call passes by it.     *)
THEOREM PassedIsAllowed == Spec => []PassNeedsAllow
<1>1. (Serial => StreamInv) => PassNeedsAllow
  <2> SUFFICES ASSUME Serial, StreamInv, NEW i \in DOMAIN out, RawAt(i), Carries(out[i].id)
               PROVE  \E c \in CallsIn(out[i].id) : Sanctioned(c)
    BY DEF PassNeedsAllow
  <2>1. OutIs(wire, out, {n \in 1 .. Len(wire) : Touched(n)}, {c \in Calls : Sanctioned(c)})
    BY DEF StreamInv, OutOK
  <2>2. i \in 1 .. Len(out) /\ out[i].kind = "raw" /\ CarriesIn(wire, out[i].id)
    <3>1. IsSeq(out)
      BY <2>1 DEF OutIs
    <3> QED BY <3>1, SeqDomain DEF RawAt, Carries, CarriesIn
  <2>3. PICK k \in DOMAIN wire[out[i].id].calls : wire[out[i].id].calls[k] \in {c \in Calls : Sanctioned(c)}
    BY <2>1, <2>2 DEF OutIs
  <2> QED BY <2>3 DEF CallsIn
<1> QED BY <1>1, StreamInvariant, PTL

(* A frame that is not held back comes after everything emitted from earlier   *)
(* frames and before everything from later ones: the TransformStream and       *)
(* streamChain serialise the chunks, and a frame passes at its first event.    *)
THEOREM ChunksInOrder == Spec => [](Serial => InOrder)
<1>1. (Serial => StreamInv) => (Serial => InOrder)
  <2> SUFFICES ASSUME Serial, StreamInv PROVE InOrder
    OBVIOUS
  <2>1. OutIs(wire, out, {n \in 1 .. Len(wire) : Touched(n)}, {c \in Calls : Sanctioned(c)})
    BY DEF StreamInv, OutOK
  <2>2. DOMAIN out = 1 .. Len(out)
    <3>1. IsSeq(out)
      BY <2>1 DEF OutIs
    <3> QED BY <3>1, SeqDomain
  <2> QED BY <2>1, <2>2 DEF InOrder, OutIs, RawAt, Carries, CarriesIn
<1> QED BY <1>1, StreamInvariant, PTL
-----------------------------------------------------------------------------
(* The gate: a call's fate is its first answer. *)
FateOf(a, live, c) ==
    IF \E i \in DOMAIN a : a[i].call = c
    THEN LET i == CHOOSE i \in DOMAIN a : a[i].call = c /\ \A j \in 1 .. i - 1 : a[j].call # c
         IN  IF a[i].decision = "allow" THEN "passed" ELSE "replaced"
    ELSE IF live THEN "held" ELSE "absent"

Verdict(d) == IF d = "allow" THEN "passed" ELSE "replaced"

First(a, c, i) == i \in 1 .. Len(a) /\ a[i].call = c /\ \A j \in 1 .. i - 1 : a[j].call # c

Has(a, c) == \E i \in DOMAIN a : a[i].call = c

LEMMA FirstOne ==
    ASSUME NEW a, IsSeq(a), NEW c, Has(a, c)
    PROVE  \E i : First(a, c, i)
<1> DEFINE R == OpToRel(<, Nat)
           S == {i \in 1 .. Len(a) : a[i].call = c}
<1>1. IsWellFoundedOn(R, Nat)
  BY NatLessThanWellFounded
<1>2. Len(a) \in Nat /\ DOMAIN a = 1 .. Len(a)
  BY LenNat, SeqDomain
<1>3. S \subseteq Nat /\ S # {}
  BY <1>2 DEF Has
<1>4. PICK x \in S : \A y \in S : ~(<<y, x>> \in R)
  <2> HIDE DEF R, S
  <2> QED BY <1>1, <1>3, WFMin
<1>5. \A y \in S : y < x => <<y, x>> \in R
  BY <1>3 DEF OpToRel
<1> HIDE DEF R
<1>6. \A y \in S : ~(y < x)
  BY <1>4, <1>5, Zenon
<1>7. \A j \in 1 .. x - 1 : j \in 1 .. Len(a) /\ j < x
  BY <1>2, <1>4
<1>8. \A j \in 1 .. x - 1 : a[j].call # c
  BY <1>6, <1>7
<1> QED BY <1>4, <1>8 DEF First

LEMMA FateFirst ==
    ASSUME NEW a, IsSeq(a), NEW live, NEW c, NEW i, First(a, c, i)
    PROVE  FateOf(a, live, c) = Verdict(a[i].decision)
<1> DEFINE P(k) == k \in DOMAIN a /\ a[k].call = c /\ \A j \in 1 .. k - 1 : a[j].call # c
<1>1. Len(a) \in Nat /\ DOMAIN a = 1 .. Len(a)
  BY LenNat, SeqDomain
<1>2. P(i)
  BY <1>1 DEF First
<1>3. PICK h : h = (CHOOSE k \in DOMAIN a : a[k].call = c /\ \A j \in 1 .. k - 1 : a[j].call # c)
  OBVIOUS
<1>4. P(h)
  BY <1>2, <1>3
<1>5. h = i
  <2>1. h \in 1 .. Len(a) /\ a[h].call = c
    BY <1>1, <1>4
  <2>2. ~(h < i)
    <3>1. h < i => h \in 1 .. i - 1
      BY <1>1, <1>2, <2>1
    <3> QED BY <1>2, <2>1, <3>1
  <2>3. ~(i < h)
    <3>1. i < h => i \in 1 .. h - 1
      BY <1>1, <1>2, <2>1
    <3> QED BY <1>2, <1>4, <3>1
  <2> QED BY <1>1, <1>2, <2>1, <2>2, <2>3
<1>6. FateOf(a, live, c) = Verdict(a[h].decision)
  BY <1>2, <1>3 DEF FateOf, Verdict
<1> QED BY <1>5, <1>6

Settled(a, b, call, live, c) ==
    /\ Has(a, c) \/ call # c => FateOf(b, live, c) = FateOf(a, live, c)
    /\ call = c => FateOf(b, live, c) \in {"passed", "replaced"}

LEMMA FateAppended ==
    ASSUME NEW a, IsSeq(a), NEW e, NEW live, NEW c
    PROVE  Settled(a, Append(a, e), e.call, live, c)
<1>0. PICK b : b = Append(a, e)
  OBVIOUS
<1>1. Len(a) \in Nat /\ DOMAIN a = 1 .. Len(a)
  BY LenNat, SeqDomain
<1>2. IsSeq(b) /\ Len(b) = Len(a) + 1 /\ b[Len(a) + 1] = e
  BY <1>0, AppendSeq
<1>3. \A i \in 1 .. Len(a) : b[i] = a[i]
  BY <1>0, AppendSeq
<1>4. DOMAIN b = 1 .. Len(b)
  BY <1>2, SeqDomain
<1>5. Has(a, c) => FateOf(b, live, c) = FateOf(a, live, c)
  <2> SUFFICES ASSUME Has(a, c) PROVE FateOf(b, live, c) = FateOf(a, live, c)
    OBVIOUS
  <2>1. PICK i : First(a, c, i)
    BY FirstOne
  <2>2. i \in 1 .. Len(b) /\ b[i] = a[i]
    BY <1>1, <1>2, <1>3, <2>1 DEF First
  <2>3. \A j \in 1 .. i - 1 : j \in 1 .. Len(a)
    BY <1>1, <2>1 DEF First
  <2>4. First(b, c, i)
    BY <1>3, <2>1, <2>2, <2>3 DEF First
  <2>5. FateOf(a, live, c) = Verdict(a[i].decision)
    BY <2>1, FateFirst
  <2>6. FateOf(b, live, c) = Verdict(b[i].decision)
    BY <1>2, <2>4, FateFirst
  <2> QED BY <2>2, <2>5, <2>6
<1>6. \A i \in DOMAIN b : i \in DOMAIN a \/ (i = Len(a) + 1 /\ b[i] = e)
  BY <1>1, <1>2, <1>4
<1>7. ASSUME e.call # c PROVE Settled(a, b, e.call, live, c)
  <2>1. CASE ~Has(a, c)
    <3>1. ~Has(b, c)
      BY <1>1, <1>3, <1>6, <1>7, <2>1 DEF Has
    <3>2. FateOf(b, live, c) = (IF live THEN "held" ELSE "absent")
      BY <3>1 DEF FateOf, Has
    <3>3. FateOf(a, live, c) = (IF live THEN "held" ELSE "absent")
      BY <2>1 DEF FateOf, Has
    <3> QED BY <1>7, <3>2, <3>3 DEF Settled
  <2> QED BY <1>5, <1>7, <2>1 DEF Settled
<1>8. ASSUME e.call = c PROVE Settled(a, b, e.call, live, c)
  <2>1. Len(a) + 1 \in DOMAIN b
    BY <1>1, <1>2, <1>4
  <2>2. Has(b, c)
    BY <1>2, <1>8, <2>1 DEF Has
  <2>3. PICK i : First(b, c, i)
    BY <1>2, <2>2, FirstOne
  <2>4. FateOf(b, live, c) = Verdict(b[i].decision)
    BY <1>2, <2>3, FateFirst
  <2> QED BY <1>5, <1>8, <2>4 DEF Verdict, Settled
<1> QED BY <1>0, <1>7, <1>8

fates == [c \in Calls |-> Fate(c)]

LEMMA FatesAre ==
    /\ \A c \in Calls : Fate(c) = FateOf(answers, accs[c].live, c)
    /\ \A c \in Calls : Fate(c)' = FateOf(answers', accs'[c].live, c)
BY DEF Fate, FateOf

LEMMA FatesKept ==
    ASSUME answers' = answers, \A c \in Calls : accs'[c].live = accs[c].live
    PROVE  fates' = fates
<1>1. \A c \in Calls : Fate(c)' = Fate(c)
  BY FatesAre
<1> QED BY <1>1 DEF fates

(* What a step may do to the gate. *)
GateStep ==
    \/ fates' = fates /\ closed' = closed
    \/ \E c \in Calls : /\ closed # "done" /\ fates[c] = "absent" /\ closed' = closed
                        /\ fates' = [fates EXCEPT ![c] = "held"]
    \/ \E c \in Calls : /\ closed # "done" /\ fates[c] = "held" /\ closed' = closed
                        /\ \E f \in {"passed", "replaced"} : fates' = [fates EXCEPT ![c] = f]
    \/ closed = "open" /\ (\A c \in Calls : fates[c] # "held") /\ closed' = "done" /\ fates' = fates
    \/ closed = "open" /\ closed' = "failed" /\ fates' = fates

LEMMA FatesFrom ==
    ASSUME NEW c \in Calls, NEW f, Fate(c)' = f, \A d \in Calls : d # c => Fate(d)' = Fate(d)
    PROVE  fates' = [fates EXCEPT ![c] = f]
BY DEF fates

LEMMA NotCompleted ==
    ASSUME StreamInv, NEW t \in 1 .. Len(tasks), Runnable(t)
    PROVE  closed # "done"
BY DEF StreamInv, GateOK, LoopsOK, Runnable

LEMMA StartGate ==
    ASSUME StreamInv, NEW t \in 1 .. Len(tasks), OnStart(t) PROVE GateStep
<1>1. WireOK /\ TasksOK /\ AccsOK
  BY DEF StreamInv
<1>2. PICK c : c = CurrentEvent(t).index
  OBVIOUS
<1>3. PICK a : a = [args |-> <<>>, live |-> TRUE,
                    frames |-> IF CurrentEvent(t).rawFrame = EMPTY_FRAME THEN <<>>
                               ELSE <<CurrentEvent(t).rawFrame>>]
  OBVIOUS
<1>4. /\ Runnable(t) /\ tasks[t].at <= tasks[t].hi /\ CurrentEvent(t).kind \in CallKinds
      /\ accs' = [accs EXCEPT ![c] = a] /\ answers' = answers /\ closed' = closed
  BY <1>2, <1>3 DEF OnStart, AtEvent, CallKinds
<1>5. c \in Calls
  BY <1>1, <1>2, <1>4, AtCall
<1>6. a.live = TRUE
  BY <1>3
<1>7. accs'[c].live = TRUE /\ \A d \in Calls : d # c => accs'[d].live = accs[d].live
  BY <1>1, <1>4, <1>5, <1>6 DEF AccsOK
<1>8. closed # "done"
  BY <1>4, NotCompleted
<1>9. CASE Answered(c) \/ accs[c].live
  <2>1. \A d \in Calls : Fate(d)' = Fate(d)
    <3>1. CASE accs[c].live
      <4>1. accs[c].live = TRUE
        BY <1>1, <1>5, <3>1 DEF AccsOK, AccType
      <4> QED BY <1>4, <1>7, <4>1, FatesAre
    <3>2. CASE Answered(c)
      <4>1. Fate(c)' = Fate(c)
        BY <1>4, <3>2 DEF Fate, Answered
      <4> QED BY <1>4, <1>7, <4>1, FatesAre
    <3> QED BY <1>9, <3>1, <3>2
  <2>2. fates' = fates
    BY <2>1 DEF fates
  <2> QED BY <1>4, <2>2 DEF GateStep
<1>10. CASE ~Answered(c) /\ ~accs[c].live
  <2>1. Fate(c) = "absent"
    BY <1>10 DEF Fate, Answered
  <2>2. Fate(c)' = "held"
    BY <1>4, <1>7, <1>10 DEF Fate, Answered
  <2>3. \A d \in Calls : d # c => Fate(d)' = Fate(d)
    BY <1>4, <1>7, FatesAre
  <2>4. fates' = [fates EXCEPT ![c] = "held"] /\ fates[c] = "absent"
    BY <1>5, <2>1, <2>2, <2>3, FatesFrom DEF fates
  <2> QED BY <1>4, <1>5, <1>8, <2>4 DEF GateStep
<1> QED BY <1>9, <1>10

LEMMA BufferedGate ==
    ASSUME StreamInv, NEW t \in 1 .. Len(tasks), OnBuffered(t) PROVE GateStep
<1>1. AccsOK /\ answers' = answers /\ closed' = closed
  BY DEF StreamInv, OnBuffered
<1>2. PICK e : e = CurrentEvent(t)
  OBVIOUS
<1>3. accs' = accs \/ accs' = [accs EXCEPT ![e.index] = Buffer(accs[e.index], e)]
  BY <1>2 DEF OnBuffered
<1>4. ASSUME NEW c \in Calls PROVE accs'[c].live = accs[c].live
  <2>1. Buffer(accs[c], e).live = accs[c].live
    BY <1>1 DEF Buffer, AccsOK, AccType
  <2> QED BY <1>1, <1>3, <2>1 DEF AccsOK
<1>5. fates' = fates
  BY <1>1, <1>4, FatesKept
<1> QED BY <1>1, <1>5 DEF GateStep

LEMMA AnswerGate ==
    ASSUME StreamInv, NEW t \in 1 .. Len(tasks), Answer(t) PROVE GateStep
<1>1. TasksOK /\ AccsOK /\ SettledOK
  BY DEF StreamInv, GateOK
<1>2. PICK c : c = tasks[t].call
  OBVIOUS
<1>3. Runnable(t) /\ c # TextBlock /\ accs' = accs /\ closed' = closed
  BY <1>2 DEF Answer
<1>4. PICK v \in SafeEval(tasks[t].seen) :
        answers' = Append(answers, [call |-> c, args |-> tasks[t].seen,
                                    outcome |-> v.outcome, decision |-> v.decision])
  BY <1>2 DEF Answer
<1>5. PICK a : a = [call |-> c, args |-> tasks[t].seen, outcome |-> v.outcome, decision |-> v.decision]
  OBVIOUS
<1>6. answers' = Append(answers, a) /\ a.call = c /\ IsSeq(answers)
  BY <1>1, <1>4, <1>5 DEF SettledOK
<1>7. c \in Calls /\ accs[c].live
  BY <1>1, <1>2, <1>3 DEF TasksOK, Turn, AccsOK
<1>8. closed # "done"
  BY <1>3, NotCompleted
<1>9. ASSUME NEW d \in Calls
      PROVE  /\ Has(answers, d) \/ d # c => Fate(d)' = Fate(d)
             /\ d = c => Fate(d)' \in {"passed", "replaced"}
  <2>0. PICK s, w, l : s = answers /\ w = answers' /\ l = accs[d].live
    OBVIOUS
  <2>1. Fate(d) = FateOf(s, l, d) /\ Fate(d)' = FateOf(w, l, d)
    BY <1>3, <2>0, FatesAre
  <2>2. IsSeq(s) /\ w = Append(s, a)
    BY <1>6, <2>0
  <2>3. Settled(s, w, a.call, l, d)
    BY <2>2, FateAppended
  <2> QED BY <1>6, <2>0, <2>1, <2>3 DEF Settled
<1>10. CASE Has(answers, c)
  <2>1. fates' = fates
    BY <1>9, <1>10 DEF fates
  <2> QED BY <1>3, <2>1 DEF GateStep
<1>11. CASE ~Has(answers, c)
  <2>1. Fate(c) = "held"
    BY <1>7, <1>11 DEF Fate, Has
  <2>2. PICK f \in {"passed", "replaced"} : Fate(c)' = f
    BY <1>7, <1>9
  <2>3. fates' = [fates EXCEPT ![c] = f] /\ fates[c] = "held"
    BY <1>7, <1>9, <2>1, <2>2, FatesFrom DEF fates
  <2> QED BY <1>3, <1>7, <1>8, <2>3 DEF GateStep
<1> QED BY <1>10, <1>11

LEMMA CloseGate ==
    ASSUME StreamInv, NEW t \in 1 .. Len(tasks), OnClose(t) PROVE GateStep
<1>1. TasksOK /\ SettledOK /\ LoopsOK
  BY DEF StreamInv, GateOK
<1>2. /\ Runnable(t) /\ tasks[t].eof /\ tasks[t].at > tasks[t].hi /\ tasks[t].ev = 2
      /\ closed' = "done" /\ accs' = accs /\ answers' = answers
  BY DEF OnClose, AtEnd, state
<1>3. closed # "done"
  BY <1>2, NotCompleted
<1>4. closed = "open" /\ inFlight = {}
  BY <1>1, <1>2, <1>3 DEF TasksOK, TaskType, LoopsOK
<1>5. fates' = fates
  BY <1>2, FatesKept
<1>6. ASSUME NEW c \in Calls PROVE fates[c] # "held"
  <2>1. CASE Has(answers, c)
    <3>1. IsSeq(answers)
      BY <1>1 DEF SettledOK
    <3>2. PICK i : First(answers, c, i)
      BY <2>1, <3>1, FirstOne
    <3>3. FateOf(answers, accs[c].live, c) = Verdict(answers[i].decision)
      BY <3>1, <3>2, FateFirst
    <3> QED BY <3>3, FatesAre DEF fates, Verdict
  <2>2. CASE ~Has(answers, c)
    <3>1. ~accs[c].live
      BY <1>1, <1>4, <2>2 DEF SettledOK, Answered, Has
    <3> QED BY <2>2, <3>1 DEF fates, Fate, Has
  <2> QED BY <2>1, <2>2
<1> QED BY <1>2, <1>4, <1>5, <1>6 DEF GateStep

LEMMA StepGate == ASSUME StreamInv, [Next]_vars PROVE GateStep
<1>1. CASE answers' = answers /\ accs' = accs /\ closed' = closed
  <2>1. fates' = fates
    BY <1>1, FatesKept
  <2> QED BY <1>1, <2>1 DEF GateStep
<1>2. CASE UNCHANGED vars
  BY <1>1, <1>2 DEF vars, state
<1>3. CASE \E f \in Offers : OnData(f)
  BY <1>1, <1>3 DEF OnData, state
<1>4. CASE \E half \in {<<>>, <<WireFrame("cut", <<>>, <<>>)>>} : OnUpstreamEnd(half)
  BY <1>1, <1>4 DEF OnUpstreamEnd, state
<1>5. CASE OnError
  <2>1. fates' = fates
    BY <1>5, FatesKept DEF OnError, state
  <2> QED BY <1>5, <2>1 DEF OnError, GateStep
<1>6. ASSUME NEW t \in 1 .. Len(tasks), Run(t) PROVE GateStep
  <2>1. CASE OnText(t) \/ OnFinish(t) \/ OnEnd(t)
    BY <1>1, <2>1 DEF OnText, OnFinish, OnEnd, state
  <2> QED BY <1>6, <2>1, StartGate, BufferedGate, AnswerGate, CloseGate DEF Run
<1>7. DOMAIN tasks = 1 .. Len(tasks)
  BY SeqDomain DEF StreamInv, TasksOK
<1> QED BY <1>2, <1>3, <1>4, <1>5, <1>6, <1>7 DEF Next

(* On the planes that chain the chunks, the enforcer implements the gate: a    *)
(* call is held when it begins, settled once and for good by its first answer, *)
(* and the consumer's stream is completed only when no call is held.           *)
THEOREM GateImplemented == Spec /\ Serial => GateKept
<1>1. Init => Gate!GateInit
  <2>1. ASSUME Init PROVE \A c \in Calls : Fate(c) = "absent"
    <3>1. DOMAIN answers = {}
      BY <2>1 DEF Init
    <3> QED BY <2>1, <3>1 DEF Fate, Init, NoAcc
  <2> QED BY <2>1 DEF Gate!GateInit, Init
<1>2. StreamInv /\ [Next]_vars => [Gate!GateNext]_(Gate!gateVars)
  <2> SUFFICES ASSUME StreamInv, [Next]_vars PROVE [Gate!GateNext]_(Gate!gateVars)
    OBVIOUS
  <2>1. GateStep
    BY StepGate
  <2> QED BY <2>1 DEF GateStep, fates, Gate!GateNext, Gate!gateVars, Gate!Hold, Gate!Settle,
                      Gate!Complete, Gate!Fail
<1>3. Serial /\ [Next]_vars => Serial'
  BY PlaneKept DEF Serial
<1> QED BY <1>1, <1>2, <1>3, StreamInvariant, PTL DEF Spec, GateKept, Gate!GateSpec

-----------------------------------------------------------------------------
(* What comes out, counted: every frame as often as the verdicts on its     *)
(* calls allow. An event of a frame stands for it, its count in the output  *)
(* is 0 until that event is passed, and AccountInv says what holds then.    *)

(* Which event of a frame stands for it. *)
Opens(f)   == f.type \in {"start", "cand", "last"}
Closing(f) == f.type \in {"reason", "done", "last"}

(* Event i of frame n carries the frame in the name of call c. *)
About(p, w, n, i, c) ==
    LET e == Events(p, w, n)[i] IN e.kind \in CallKinds /\ e.index = c /\ e.rawFrame = n

StandsFor(p, w, n) ==
    LET e == Events(p, w, n)
        f == w[n]
    IN  /\ ~CarriesIn(w, n) => e[1].kind \in PassKinds /\ e[1].rawFrame = n
        /\ CarriesIn(w, n) => \A k \in DOMAIN f.calls :
              \E i \in 1 .. Len(e) : About(p, w, n, i, f.calls[k])
        /\ \A i \in 1 .. Len(e) :
              /\ e[i].kind = "finish" => Closing(f) /\ i = Len(e)
              /\ e[i].kind \in CallKinds => f.calls # <<>>
              /\ e[i].kind \in CallKinds /\ e[i].rawFrame = n =>
                    IF p = "gemini" THEN e[i].kind = "tool-call-start" ELSE i = 1
              /\ e[i].kind = "tool-call-start" =>
                    Opens(f) /\ \E k \in DOMAIN f.calls : e[i].index = f.calls[k] /\ i = 3 * (k - 1) + 1

LEMMA PlainFinish ==
    ASSUME NEW p \in Providers \ {"gemini"}, NEW w, NEW n \in Nat \ {0}, FrameOK(p, w, n),
           Events(p, w, n)[1].kind = "finish"
    PROVE  w[n].type \in {"reason", "done"} /\ Len(Events(p, w, n)) = 1
<1> DEFINE f == w[n]
           e == Events(p, w, n)
<1>1. FirstEvent(p, w, n)
  BY OpenAIFirst, CohereFirst, ToolUseFirst DEF Providers
<1>2. f.type \in Plain /\ Len(e) = 1 /\ f.type \notin {"start", "args", "stop"}
  BY <1>1 DEF FirstEvent, FrameOK, Plain
<1>3. CASE p = "openai"
  <2> DEFINE table == [start |-> "tool-call-start", args |-> "tool-call-arguments",
                       text |-> "text-delta", reason |-> "finish", done |-> "finish"]
             kind == IF f.type \in DOMAIN table THEN table[f.type] ELSE "passthrough"
  <2>1. e = <<WireEvent(kind, Index(f), f.args, n)>>
    BY <1>2, <1>3 DEF Events, OpenAISSEParser, Mapped
  <2>2. kind = "finish" => f.type \in {"reason", "done"}
    BY <1>2
  <2> HIDE DEF kind
  <2>3. e[1].kind = kind
    BY <2>1 DEF WireEvent
  <2> QED BY <1>2, <2>2, <2>3
<1>4. CASE p # "openai"
  <2> DEFINE coh == [args |-> "tool-call-arguments", stop |-> "tool-call-end",
                     text |-> "text-delta", done |-> "finish"]
             oth == [start |-> "tool-call-start", args |-> "tool-call-arguments",
                     text |-> "text-delta", done |-> "finish"]
             table == IF p = "cohere" THEN coh ELSE oth
             kind == IF f.type \in DOMAIN table THEN table[f.type] ELSE "passthrough"
  <2>1. e = <<WireEvent(kind, Index(f), f.args, n)>>
    BY <1>2, <1>4 DEF Events, CohereV2SSEParser, MapAnthropicChunkObject, BedrockConverseStreamParser, Mapped, Providers
  <2>2. kind = "finish" => f.type = "done"
    BY <1>2
  <2> HIDE DEF kind
  <2>3. e[1].kind = kind
    BY <2>1 DEF WireEvent
  <2> QED BY <1>2, <2>2, <2>3
<1> QED BY <1>3, <1>4

LEMMA PlainStandsFor ==
    ASSUME NEW p \in Providers \ {"gemini"}, NEW w, NEW n \in Nat \ {0}, FrameOK(p, w, n),
           \A k \in DOMAIN w[n].calls : k = 1
    PROVE  StandsFor(p, w, n)
<1> DEFINE f == w[n]
           e == Events(p, w, n)
<1>1. FirstEvent(p, w, n)
  BY OpenAIFirst, CohereFirst, ToolUseFirst DEF Providers
<1>2. f.calls \in Seq(Calls) /\ (f.calls # <<>> => 1 \in DOMAIN f.calls /\ Index(f) = f.calls[1])
  <2>1. f.calls \in Seq(Calls)
    BY DEF FrameOK
  <2>2. f.calls # <<>> => Index(f) = f.calls[1]
    BY DEF Index
  <2> HIDE DEF f
  <2> QED BY <2>1, <2>2, EmptySeq
<1>3. IsSeq(e) /\ Len(e) \in {1, 2} /\ 1 \in 1 .. Len(e)
  BY <1>1 DEF FirstEvent
<1>4. \A i \in 1 .. Len(e) : i = 1 \/ (i = 2 /\ Len(e) = 2)
  <2>1. Len(e) = 1 \/ Len(e) = 2
    BY <1>3
  <2> QED BY <2>1, OneOrTwo
<1>5. ~CarriesIn(w, n) => e[1].kind \in PassKinds /\ e[1].rawFrame = n
  BY <1>1 DEF FirstEvent, FrameOK, CarriesIn, PassKinds, Plain
<1>6. CarriesIn(w, n) => e[1].kind \in CallKinds /\ e[1].rawFrame = n
  BY <1>1 DEF FirstEvent, FrameOK, CarriesIn, CallKinds, Plain
<1>7. CarriesIn(w, n) => \A k \in DOMAIN f.calls : About(p, w, n, 1, f.calls[k])
  BY <1>1, <1>2, <1>6 DEF CarriesIn, About, FirstEvent
<1>8. Len(e) = 2 => f.type = "start" /\ e[2].kind = "tool-call-arguments" /\ e[2].rawFrame = EMPTY_FRAME
  BY <1>1 DEF FirstEvent
<1>9. n # EMPTY_FRAME
  BY DEF EMPTY_FRAME
<1>10. e[1].kind = "finish" => Closing(f) /\ 1 = Len(e)
  BY PlainFinish DEF Closing
<1>11. e[1].kind \in CallKinds => f.calls # <<>>
  BY <1>1 DEF FirstEvent, FrameOK, CallKinds, PassKinds, Plain
<1>12. e[1].kind = "tool-call-start" => f.type = "start"
  BY <1>1 DEF FirstEvent, FrameOK, PassKinds, Plain
<1>13. f.type = "start" => f.calls # <<>> /\ Opens(f) /\ e[1].index = f.calls[1]
  BY <1>1, <1>2 DEF FirstEvent, FrameOK, Opens
<1>14. 1 = 3 * (1 - 1) + 1
  OBVIOUS
<1>15. ASSUME NEW i \in 1 .. Len(e)
       PROVE  /\ e[i].kind = "finish" => Closing(f) /\ i = Len(e)
              /\ e[i].kind \in CallKinds => f.calls # <<>>
              /\ e[i].kind \in CallKinds /\ e[i].rawFrame = n => i = 1
              /\ e[i].kind = "tool-call-start" =>
                    Opens(f) /\ \E k \in DOMAIN f.calls : e[i].index = f.calls[k] /\ i = 3 * (k - 1) + 1
  <2> HIDE DEF e, f
  <2>1. CASE i = 1
    BY <1>2, <1>10, <1>11, <1>12, <1>13, <1>14, <2>1
  <2>2. CASE i = 2 /\ Len(e) = 2
    BY <1>8, <1>9, <1>13, <2>2
  <2> QED BY <1>4, <2>1, <2>2
<1> QED BY <1>3, <1>5, <1>7, <1>15 DEF StandsFor

LEMMA ThirdStart ==
    ASSUME NEW k \in Nat, NEW m \in Nat, k \in 1 .. m
    PROVE  LET j == 3 * (k - 1) + 1
           IN  j \in Nat \ {0} /\ j \in 1 .. 3 * m /\ (j - 1) % 3 = 0 /\ (j - 1) \div 3 = k - 1
OBVIOUS

LEMMA ThirdFrom ==
    ASSUME NEW j \in Nat \ {0}, (j - 1) % 3 = 0
    PROVE  j = 3 * ((1 + ((j - 1) \div 3)) - 1) + 1
OBVIOUS

LEMMA GeminiStandsFor ==
    ASSUME NEW w, NEW n \in Nat \ {0}, FrameOK("gemini", w, n), w[n].type = "cut" => w[n].calls = <<>>
    PROVE  StandsFor("gemini", w, n)
<1> DEFINE f == w[n]
           e == Events("gemini", w, n)
           m == Len(f.calls)
           call(j) == f.calls[1 + ((j - 1) \div 3)]
<1>1. /\ IsSeq(e) /\ Len(e) \in Nat \ {0} /\ m \in Nat
      /\ Len(e) = (IF m = 0 THEN 1 ELSE 3 * m) + (IF f.type = "last" THEN 1 ELSE 0)
      /\ m = 0 => e[1] = WireEvent("passthrough", TextBlock, <<>>, n)
      /\ \A j \in 1 .. 3 * m : j \in 1 .. Len(e) /\ e[j] = Third(w, n, j)
      /\ \A j \in 1 .. Len(e) : (m = 0 /\ j = 1) \/ j <= 3 * m
                                \/ e[j] = WireEvent("finish", TextBlock, <<>>, EMPTY_FRAME)
  BY GeminiShape
<1>2. f.calls \in Seq(Calls) /\ (m = 0 <=> f.calls = <<>>) /\ DOMAIN f.calls = 1 .. m
  <2>1. f.calls \in Seq(Calls)
    BY DEF FrameOK
  <2> HIDE DEF f
  <2> QED BY <2>1, EmptySeq
<1>3. f.type \in {"cand", "last", "cut"} /\ f.type # "args" /\ n # EMPTY_FRAME
  BY DEF FrameOK, EMPTY_FRAME
<1>4. CarriesIn(w, n) <=> f.calls # <<>>
  BY <1>3 DEF CarriesIn
<1>5. ~CarriesIn(w, n) => e[1].kind \in PassKinds /\ e[1].rawFrame = n
  BY <1>1, <1>2, <1>4 DEF WireEvent, PassKinds
<1>6. ASSUME NEW k \in DOMAIN f.calls
      PROVE  \E i \in 1 .. Len(e) : About("gemini", w, n, i, f.calls[k])
  <2> DEFINE j == 3 * (k - 1) + 1
  <2>1. k \in Nat /\ k \in 1 .. m
    BY <1>1, <1>2
  <2>2. j \in Nat \ {0} /\ j \in 1 .. 3 * m /\ (j - 1) % 3 = 0 /\ (j - 1) \div 3 = k - 1
    BY <1>1, <2>1, ThirdStart
  <2>3. e[j] = WireEvent("tool-call-start", f.calls[k], <<>>, n) /\ j \in 1 .. Len(e)
    <3>1. 1 + ((j - 1) \div 3) = k
      BY <2>1, <2>2
    <3> HIDE DEF e, f, j
    <3>2. Third(w, n, j) = WireEvent("tool-call-start", w[n].calls[1 + ((j - 1) \div 3)], <<>>, n)
      BY <2>2, ThirdIs
    <3> QED BY <1>1, <2>2, <3>1, <3>2 DEF f
  <2> HIDE DEF j
  <2>4. About("gemini", w, n, j, f.calls[k])
    BY <2>3 DEF About, WireEvent, CallKinds
  <2> QED BY <2>3, <2>4
<1>7. ASSUME NEW i \in 1 .. Len(e), i <= 3 * m
      PROVE  /\ e[i].kind # "finish" /\ f.calls # <<>>
             /\ e[i].rawFrame = n => e[i].kind = "tool-call-start"
             /\ e[i].kind = "tool-call-start" =>
                   \E k \in DOMAIN f.calls : e[i].index = f.calls[k] /\ i = 3 * (k - 1) + 1
  <2> DEFINE r == (i - 1) % 3
             k == 1 + ((i - 1) \div 3)
  <2>1. i \in Nat \ {0} /\ i \in 1 .. 3 * m
    BY <1>1, <1>7
  <2>2. r \in {0, 1, 2} /\ k \in 1 .. m
    BY <1>1, <1>7, <2>1, Thirds
  <2>3. m # 0
    BY <1>1, <2>2
  <2>4. r = 0 => i = 3 * (k - 1) + 1
    BY <2>1, ThirdFrom
  <2>5. /\ r = 0 => e[i] = WireEvent("tool-call-start", f.calls[k], <<>>, n)
        /\ r = 1 => e[i] = WireEvent("tool-call-arguments", f.calls[k], Whole, EMPTY_FRAME)
        /\ r = 2 => e[i] = WireEvent("tool-call-end", f.calls[k], <<>>, EMPTY_FRAME)
    BY <1>1, <2>1, <2>2, ThirdIs
  <2> HIDE DEF r, k, e
  <2>6. CASE r = 0
    BY <1>2, <2>2, <2>3, <2>4, <2>5, <2>6 DEF WireEvent
  <2>7. CASE r # 0
    <3>1. /\ e[i].kind \in {"tool-call-arguments", "tool-call-end"} /\ e[i].rawFrame = EMPTY_FRAME
      BY <2>2, <2>5, <2>7 DEF WireEvent
    <3> QED BY <1>2, <1>3, <2>3, <3>1
  <2> QED BY <2>6, <2>7
<1>8. ASSUME NEW i \in 1 .. Len(e), ~(i <= 3 * m), e[i].kind # "passthrough"
      PROVE  e[i].kind = "finish" /\ f.type = "last" /\ i = Len(e)
  <2>1. e[i] = WireEvent("finish", TextBlock, <<>>, EMPTY_FRAME)
    BY <1>1, <1>8 DEF WireEvent
  <2>2. i # 1 \/ m # 0
    BY <1>1, <1>8 DEF WireEvent
  <2>3. f.type = "last" /\ i = Len(e)
    <3>1. i \in Nat \ {0} /\ i <= Len(e)
      BY <1>1
    <3> HIDE DEF e, m, f
    <3>2. CASE m = 0
      BY <1>1, <2>2, <3>1, <3>2
    <3>3. CASE m # 0
      BY <1>1, <1>8, <3>1, <3>3
    <3> QED BY <3>2, <3>3
  <2> QED BY <2>1, <2>3 DEF WireEvent
<1>9. ASSUME NEW i \in 1 .. Len(e)
      PROVE  /\ e[i].kind = "finish" => Closing(f) /\ i = Len(e)
             /\ e[i].kind \in CallKinds => f.calls # <<>>
             /\ e[i].kind \in CallKinds /\ e[i].rawFrame = n => e[i].kind = "tool-call-start"
             /\ e[i].kind = "tool-call-start" =>
                   Opens(f) /\ \E k \in DOMAIN f.calls : e[i].index = f.calls[k] /\ i = 3 * (k - 1) + 1
  <2>1. f.calls # <<>> => Opens(f)
    BY <1>3 DEF Opens
  <2>2. f.type = "last" => Closing(f)
    BY DEF Closing
  <2> HIDE DEF e, f
  <2>3. CASE i <= 3 * m
    BY <1>7, <2>1, <2>3
  <2>4. CASE ~(i <= 3 * m)
    <3>1. e[i].kind \in {"finish", "passthrough"} /\ (e[i].kind = "finish" => f.type = "last" /\ i = Len(e))
      BY <1>8, <2>4
    <3> QED BY <2>2, <3>1 DEF CallKinds
  <2> QED BY <2>3, <2>4
<1> QED BY <1>4, <1>5, <1>6, <1>9 DEF StandsFor

(* The order of the wire: each call is begun once, and no frame is about a *)
(* call once the message has been finished.                                *)
OrderOK ==
    /\ \A n \in 1 .. Len(wire) :
          /\ provider # "gemini" => \A k \in DOMAIN wire[n].calls : k = 1
          /\ wire[n].type = "cut" => wire[n].calls = <<>>
          /\ up.phase = "body" => ~Closing(wire[n])
          /\ Opens(wire[n]) => \A k \in DOMAIN wire[n].calls : wire[n].calls[k] < up.started
    /\ \A m, n \in 1 .. Len(wire) :
          /\ m < n /\ Closing(wire[m]) => wire[n].calls = <<>>
          /\ Opens(wire[m]) /\ Opens(wire[n]) =>
                \A j \in DOMAIN wire[m].calls, k \in DOMAIN wire[n].calls :
                    wire[m].calls[j] = wire[n].calls[k] => m = n /\ j = k

Evs(n) == Events(provider, wire, n)

LEMMA Stands ==
    ASSUME WireOK, OrderOK, NEW n \in 1 .. Len(wire)
    PROVE  /\ StandsFor(provider, wire, n) /\ n \in Nat \ {0} /\ n # EMPTY_FRAME
           /\ Len(Evs(n)) \in Nat \ {0} /\ 1 \in 1 .. Len(Evs(n))
           /\ \A i \in 1 .. Len(Evs(n)) : i \in Nat \ {0} /\ EventOK(provider, wire, n, i)
<1>1. Len(wire) \in Nat /\ n \in Nat \ {0}
  BY LenNat DEF WireOK
<1>2. FrameOK(provider, wire, n) /\ provider \in Providers
  BY DEF WireOK
<1>3. StandsFor(provider, wire, n)
  <2>1. CASE provider = "gemini"
    BY <1>1, <1>2, <2>1, GeminiStandsFor DEF OrderOK
  <2>2. CASE provider # "gemini"
    <3>1. \A k \in DOMAIN wire[n].calls : k = 1
      BY <2>2 DEF OrderOK
    <3> QED BY <1>1, <1>2, <2>2, <3>1, PlainStandsFor
  <2> QED BY <2>1, <2>2
<1>4. PICK l : l = Len(Evs(n))
  OBVIOUS
<1>5. l \in Nat \ {0} /\ \A i \in 1 .. l : EventOK(provider, wire, n, i)
  BY <1>4, EventsAre DEF Evs
<1>6. 1 \in 1 .. l /\ \A i \in 1 .. l : i \in Nat \ {0}
  BY <1>5
<1> QED BY <1>1, <1>3, <1>4, <1>5, <1>6 DEF EMPTY_FRAME

(* A call is begun by one event, and each of its frames stands in one. *)
LEMMA BegunOnce ==
    ASSUME WireOK, OrderOK, NEW m \in 1 .. Len(wire), NEW n \in 1 .. Len(wire),
           NEW i \in 1 .. Len(Evs(m)), NEW j \in 1 .. Len(Evs(n)),
           Evs(m)[i].kind = "tool-call-start", Evs(n)[j].kind = "tool-call-start",
           Evs(m)[i].index = Evs(n)[j].index
    PROVE  m = n /\ i = j
<1>1. StandsFor(provider, wire, m) /\ StandsFor(provider, wire, n)
  BY Stands
<1>2. PICK k \in DOMAIN wire[m].calls : Evs(m)[i].index = wire[m].calls[k] /\ i = 3 * (k - 1) + 1
  BY <1>1 DEF StandsFor, Evs
<1>3. PICK h \in DOMAIN wire[n].calls : Evs(n)[j].index = wire[n].calls[h] /\ j = 3 * (h - 1) + 1
  BY <1>1 DEF StandsFor, Evs
<1>4. Opens(wire[m]) /\ Opens(wire[n])
  BY <1>1 DEF StandsFor, Evs
<1>5. m = n /\ k = h
  BY <1>2, <1>3, <1>4 DEF OrderOK
<1> QED BY <1>2, <1>3, <1>5

LEMMA AboutOnce ==
    ASSUME WireOK, OrderOK, NEW n \in 1 .. Len(wire), NEW c,
           NEW i \in 1 .. Len(Evs(n)), NEW j \in 1 .. Len(Evs(n)),
           About(provider, wire, n, i, c), About(provider, wire, n, j, c)
    PROVE  i = j
<1>1. StandsFor(provider, wire, n)
  BY Stands
<1>2. CASE provider = "gemini"
  <2>1. /\ Evs(n)[i].kind = "tool-call-start" /\ Evs(n)[j].kind = "tool-call-start"
        /\ Evs(n)[i].index = c /\ Evs(n)[j].index = c
    BY <1>1, <1>2 DEF StandsFor, About, Evs
  <2> QED BY <2>1, BegunOnce
<1>3. CASE provider # "gemini"
  BY <1>1, <1>3 DEF StandsFor, About, Evs
<1> QED BY <1>2, <1>3

-----------------------------------------------------------------------------
(* How often a frame is in the consumer's stream. *)
Emitted(o, n) == {i \in 1 .. Len(o) : o[i].kind = "raw" /\ o[i].id = n}
Count(o, n)   == Cardinality(Emitted(o, n))

LEMMA EmittedFinite ==
    ASSUME NEW o, IsSeq(o), NEW n
    PROVE  IsFiniteSet(Emitted(o, n)) /\ Count(o, n) \in Nat
<1>1. Len(o) \in Nat
  BY LenNat
<1>2. IsFiniteSet(1 .. Len(o)) /\ Emitted(o, n) \in SUBSET (1 .. Len(o))
  BY <1>1, FS_Interval DEF Emitted
<1> QED BY <1>2, FS_Subset, FS_CardinalityType DEF Count

LEMMA CountConcat ==
    ASSUME NEW o, IsSeq(o), NEW x, IsSeq(x), NEW n
    PROVE  Count(o \o x, n) = Count(o, n) + Count(x, n)
<1> DEFINE A == Emitted(o, n)
           X == Emitted(x, n)
           l == Len(o)
           B == {l + i : i \in X}
           y == o \o x
<1>1. Len(o) \in Nat /\ Len(x) \in Nat /\ IsFiniteSet(A) /\ IsFiniteSet(X)
  BY LenNat, EmittedFinite
<1>2. A \subseteq 1 .. l /\ X \subseteq 1 .. Len(x)
  BY DEF Emitted
<1>3. IsFiniteSet(B) /\ Cardinality(B) = Cardinality(X)
  <2> DEFINE f == [i \in X |-> l + i]
  <2>1. \A i \in X : i \in Nat
    BY <1>1, <1>2
  <2>2. f \in [X -> B] /\ (\A b \in B : \E i \in X : f[i] = b) /\ \A i, j \in X : f[i] = f[j] => i = j
    <3> HIDE DEF X, l
    <3> QED BY <1>1, <2>1 DEF l
  <2>3. f \in Bijection(X, B)
    <3> HIDE DEF X, B, f
    <3> QED BY <2>2 DEF Bijection, Injection, Surjection, IsInjective
  <2>4. ExistsBijection(X, B)
    BY <2>3 DEF ExistsBijection
  <2> QED BY <1>1, <2>4, FS_Bijection
<1>4. Emitted(y, n) = A \cup B
  <2>1. Len(y) = l + Len(x)
    BY ConcatSeq
  <2>2. \A i \in 1 .. l : i \in 1 .. Len(y) /\ y[i] = o[i]
    <3>1. \A i \in 1 .. l : y[i] = o[i]
      BY ConcatSeq
    <3> QED BY <1>1, <2>1, <3>1
  <2>3. \A i \in 1 .. Len(x) : l + i \in 1 .. Len(y) /\ y[l + i] = x[i]
    <3>1. \A i \in 1 .. Len(x) : y[l + i] = x[i]
      BY ConcatSeq
    <3> QED BY <1>1, <2>1, <3>1
  <2>4. \A k \in 1 .. Len(y) : \/ k \in 1 .. l /\ y[k] = o[k]
                               \/ \E i \in 1 .. Len(x) : k = l + i /\ y[k] = x[i]
    BY ConcatCases
  <2> HIDE DEF l, y
  <2>5. \A k \in A \cup B : k \in Emitted(y, n)
    BY <2>2, <2>3 DEF Emitted, l
  <2>6. \A k \in Emitted(y, n) : k \in A \cup B
    BY <2>4 DEF Emitted, l
  <2> QED BY <2>5, <2>6
<1>5. A \cap B = {}
  <2>1. \A i \in X : ~(l + i \in 1 .. l)
    BY <1>1, <1>2
  <2> QED BY <1>2, <2>1
<1> HIDE DEF A, B, X
<1>6. Cardinality(A \cup B) = Cardinality(A) + Cardinality(B) - Cardinality(A \cap B)
  BY <1>1, <1>3, FS_Union
<1>7. Cardinality(A) \in Nat /\ Cardinality(B) \in Nat /\ Cardinality({}) = 0
  BY <1>1, <1>3, FS_CardinalityType, FS_EmptySet
<1>8. Cardinality(A \cup B) = Cardinality(A) + Cardinality(B)
  <2>1. Cardinality(A \cap B) = 0
    BY <1>5, <1>7
  <2> HIDE DEF y
  <2> QED BY <1>6, <1>7, <2>1
<1> QED BY <1>3, <1>4, <1>8 DEF Count, A, X

LEMMA CountNone ==
    ASSUME NEW x, NEW n, \A i \in 1 .. Len(x) : x[i].kind = "raw" => x[i].id # n
    PROVE  Count(x, n) = 0
<1>1. Emitted(x, n) = {}
  BY DEF Emitted
<1> QED BY <1>1, FS_EmptySet DEF Count

LEMMA CountOnce ==
    ASSUME NEW x, NEW n, NEW i \in 1 .. Len(x), x[i].kind = "raw", x[i].id = n,
           \A j \in 1 .. Len(x) : x[j].kind = "raw" /\ x[j].id = n => j = i
    PROVE  Count(x, n) = 1
<1>1. Emitted(x, n) = {i}
  BY DEF Emitted
<1> QED BY <1>1, FS_Singleton DEF Count

LEMMA CountEmpty == ASSUME NEW n PROVE Count(<<>>, n) = 0
<1>1. ~\E i \in 1 .. Len(<<>>) : TRUE
  BY NoSeq
<1> QED BY <1>1, CountNone

LEMMA CountRaw ==
    ASSUME NEW r, NEW n
    PROVE  Count(Raw(r), n) = IF r = n /\ n # EMPTY_FRAME THEN 1 ELSE 0
<1>1. CASE r = EMPTY_FRAME
  BY <1>1, CountEmpty DEF Raw
<1>2. CASE r # EMPTY_FRAME
  <2>1. PICK e : e = [kind |-> "raw", id |-> r]
    OBVIOUS
  <2>2. PICK x : x = <<e>>
    OBVIOUS
  <2>3. Raw(r) = x /\ IsSeq(x) /\ Len(x) = 1 /\ x[1] = e
    BY <1>2, <2>1, <2>2, OneSeq DEF Raw
  <2>4. \A j \in 1 .. Len(x) : j = 1
    BY <2>3
  <2>5. 1 \in 1 .. Len(x) /\ x[1].kind = "raw" /\ x[1].id = r
    BY <2>1, <2>3
  <2>6. CASE r = n
    BY <1>2, <2>3, <2>4, <2>5, <2>6, CountOnce
  <2>7. CASE r # n
    <3>1. Count(x, n) = 0
      BY <2>4, <2>5, <2>7, CountNone
    <3> QED BY <2>3, <2>7, <3>1
  <2> QED BY <2>6, <2>7
<1> QED BY <1>1, <1>2

-----------------------------------------------------------------------------
(* The upstream keeps the order of its answer. *)
LEMMA OfferedCalls ==
    ASSUME WireOK, NEW f, Offered(f)
    PROVE  LET s == IF Opens(f) THEN up.started + Len(f.calls) ELSE up.started
           IN  /\ f.type # "cut" /\ (f.calls # <<>> => up.phase = "body")
               /\ s \in Nat /\ up.started \in Nat /\ up.started <= s
               /\ \A k \in DOMAIN f.calls :
                     /\ k \in Nat /\ (provider # "gemini" => k = 1)
                     /\ Opens(f) => f.calls[k] = up.started + k - 1 /\ f.calls[k] < s
<1>1. up.started \in Nat /\ f.calls \in Seq(Calls)
  BY WireAssumption DEF WireOK, UpOK, Offered
<1>2. Len(f.calls) \in Nat /\ DOMAIN f.calls = 1 .. Len(f.calls)
  BY <1>1, TypedSeq, LenNat
<1>3. f.type # "cut" /\ (f.calls # <<>> => up.phase = "body")
  BY DEF Offered
<1>4. CASE provider = "gemini"
  <2>1. \A k \in 1 .. Len(f.calls) : f.calls[k] = up.started + k - 1
    BY <1>4 DEF Offered
  <2> QED BY <1>1, <1>2, <1>3, <1>4, <2>1
<1>5. CASE provider # "gemini"
  <2>1. f.calls = <<>> \/ \E c : f.calls = <<c>> /\ (Opens(f) => c = up.started)
    BY <1>5 DEF Offered, Opens
  <2>2. CASE f.calls = <<>>
    <3>1. Len(f.calls) = 0
      BY <2>2, NoSeq
    <3> QED BY <1>1, <1>2, <1>3, <3>1
  <2>3. CASE \E c : f.calls = <<c>> /\ (Opens(f) => c = up.started)
    <3>1. PICK c : f.calls = <<c>> /\ (Opens(f) => c = up.started)
      BY <2>3
    <3>2. Len(f.calls) = 1 /\ f.calls[1] = c
      BY <3>1, OneSeq
    <3>3. \A k \in 1 .. Len(f.calls) : k = 1
      BY <3>2
    <3> QED BY <1>1, <1>2, <1>3, <3>1, <3>2, <3>3
  <2> QED BY <2>1, <2>2, <2>3
<1> QED BY <1>4, <1>5

LEMMA OrderSent ==
    ASSUME WireOK, OrderOK, NEW f, Offered(f), wire' = Append(wire, f), up' = Sent(f), UNCHANGED conf
    PROVE  OrderOK' /\ (up.phase # "body" => up'.phase # "body")
<1>0. PICK n : n = Len(wire) + 1
  OBVIOUS
<1>1. /\ Len(wire') = n /\ wire'[n] = f /\ (\A m \in 1 .. Len(wire) : wire'[m] = wire[m])
      /\ provider' = provider /\ Len(wire) \in Nat
  BY <1>0, FrameAdded DEF Longer, conf, WireOK, IsSeq
<1>2. \A m \in 1 .. Len(wire') : m = n \/ (m \in 1 .. Len(wire) /\ m < n)
  BY <1>0, <1>1
<1>3. up'.phase = CASE f.type = "reason" -> "reason" [] f.type \in {"done", "last"} -> "done"
                      [] OTHER -> up.phase
  BY DEF Sent
<1>4. up'.phase = "body" => up.phase = "body" /\ ~Closing(f)
  BY <1>3 DEF Closing
<1>5. up'.started = IF Opens(f) THEN up.started + Len(f.calls) ELSE up.started
  BY DEF Sent, Opens
<1>6. /\ f.type # "cut" /\ (f.calls # <<>> => up.phase = "body")
      /\ up'.started \in Nat /\ up.started \in Nat /\ up.started <= up'.started
      /\ \A k \in DOMAIN f.calls :
            /\ k \in Nat /\ (provider # "gemini" => k = 1)
            /\ Opens(f) => f.calls[k] = up.started + k - 1 /\ f.calls[k] < up'.started
  BY <1>5, OfferedCalls
<1>7. ASSUME NEW m \in 1 .. Len(wire), NEW k \in DOMAIN wire[m].calls, Opens(wire[m])
      PROVE  wire[m].calls[k] \in Nat /\ wire[m].calls[k] < up.started
  <2>1. FrameOK(provider, wire, m)
    BY DEF WireOK
  <2>2. wire[m].calls \in Seq(Calls)
    BY <2>1 DEF FrameOK
  <2>3. wire[m].calls[k] \in Calls
    BY <2>2
  <2> QED BY <1>7, <2>3, WireAssumption DEF OrderOK, Calls
<1>8. ASSUME NEW m \in 1 .. Len(wire')
      PROVE  /\ provider # "gemini" => \A k \in DOMAIN wire'[m].calls : k = 1
             /\ wire'[m].type = "cut" => wire'[m].calls = <<>>
             /\ up'.phase = "body" => ~Closing(wire'[m])
             /\ Opens(wire'[m]) => \A k \in DOMAIN wire'[m].calls : wire'[m].calls[k] < up'.started
  <2>1. CASE m = n
    BY <1>1, <1>4, <1>6, <2>1
  <2>2. CASE m \in 1 .. Len(wire)
    <3>1. ASSUME NEW k \in DOMAIN wire[m].calls, Opens(wire[m]) PROVE wire[m].calls[k] < up'.started
      BY <1>6, <1>7, <2>2, <3>1
    <3> QED BY <1>1, <1>4, <2>2, <3>1 DEF OrderOK
  <2> QED BY <1>2, <2>1, <2>2
<1>9. ASSUME NEW m \in 1 .. Len(wire'), NEW h \in 1 .. Len(wire'), m < h, Closing(wire'[m])
      PROVE  wire'[h].calls = <<>>
  <2>1. m \in 1 .. Len(wire) /\ m # n
    BY <1>1, <1>2, <1>9, <1>0
  <2>2. CASE h = n
    <3>1. up.phase # "body"
      BY <1>1, <1>9, <2>1 DEF OrderOK
    <3> QED BY <1>1, <1>6, <2>2, <3>1
  <2>3. CASE h \in 1 .. Len(wire)
    BY <1>1, <1>9, <2>1, <2>3 DEF OrderOK
  <2> QED BY <1>2, <2>2, <2>3
<1>10. ASSUME NEW m \in 1 .. Len(wire'), NEW h \in 1 .. Len(wire'), Opens(wire'[m]), Opens(wire'[h]),
              NEW j \in DOMAIN wire'[m].calls, NEW k \in DOMAIN wire'[h].calls,
              wire'[m].calls[j] = wire'[h].calls[k]
       PROVE  m = h /\ j = k
  <2>1. CASE m = n /\ h = n
    BY <1>1, <1>6, <1>10, <2>1
  <2>2. CASE m \in 1 .. Len(wire) /\ h \in 1 .. Len(wire)
    BY <1>1, <1>10, <2>2 DEF OrderOK
  <2>3. CASE m = n /\ h \in 1 .. Len(wire)
    <3>1. wire'[h].calls[k] \in Nat /\ wire'[h].calls[k] < up.started
      BY <1>1, <1>7, <1>10, <2>3
    <3>2. wire'[m].calls[j] = up.started + j - 1 /\ j \in Nat /\ j >= 1
      <4>1. f.calls \in Seq(Calls)
        BY DEF Offered
      <4>2. j \in 1 .. Len(f.calls) /\ Len(f.calls) \in Nat
        BY <1>1, <1>10, <2>3, <4>1
      <4> QED BY <1>1, <1>6, <1>10, <2>3, <4>2
    <3> QED BY <1>6, <1>10, <3>1, <3>2
  <2>4. CASE h = n /\ m \in 1 .. Len(wire)
    <3>1. wire'[m].calls[j] \in Nat /\ wire'[m].calls[j] < up.started
      BY <1>1, <1>7, <1>10, <2>4
    <3>2. wire'[h].calls[k] = up.started + k - 1 /\ k \in Nat /\ k >= 1
      <4>1. f.calls \in Seq(Calls)
        BY DEF Offered
      <4>2. k \in 1 .. Len(f.calls) /\ Len(f.calls) \in Nat
        BY <1>1, <1>10, <2>4, <4>1
      <4> QED BY <1>1, <1>6, <1>10, <2>4, <4>2
    <3> QED BY <1>6, <1>10, <3>1, <3>2
  <2> QED BY <1>2, <2>1, <2>2, <2>3, <2>4
<1>11. OrderOK'
  BY <1>1, <1>8, <1>9, <1>10 DEF OrderOK
<1> QED BY <1>4, <1>11

LEMMA OrderEnded ==
    ASSUME WireOK, OrderOK, NEW half \in {<<>>, <<Cut>>}, wire' = wire \o half,
           up' = [up EXCEPT !.phase = "ended"], UNCHANGED conf
    PROVE  OrderOK' /\ \A m \in 1 .. Len(wire') : m \in 1 .. Len(wire) \/ wire'[m] = Cut
<1>1. /\ Len(wire') = Len(wire) + Len(half) /\ Len(half) \in {0, 1} /\ Len(wire) \in Nat
      /\ \A m \in 1 .. Len(wire) : wire'[m] = wire[m]
  BY WireEnded DEF WireOK, IsSeq
<1>2. up'.phase = "ended" /\ up'.started = up.started /\ provider' = provider
  BY DEF WireOK, UpOK, conf
<1>3. ASSUME NEW m \in 1 .. Len(wire'), m \notin 1 .. Len(wire) PROVE wire'[m] = Cut
  <2>1. m = Len(wire) + 1 /\ Len(half) = 1
    BY <1>1, <1>3
  <2>2. half = <<Cut>>
    BY <2>1, NoSeq
  <2>3. wire'[Len(wire) + 1] = Cut
    BY <2>2, OneSeq, ConcatSeq DEF WireOK
  <2> QED BY <2>1, <2>3
<1>4. Cut.calls = <<>> /\ ~Opens(Cut) /\ ~Closing(Cut)
  BY DEF Cut, WireFrame, Opens, Closing
<1>5. \A k : k \notin DOMAIN <<>>
  OBVIOUS
<1>6. \A m \in 1 .. Len(wire') : (m \in 1 .. Len(wire) /\ wire'[m] = wire[m]) \/ wire'[m] = Cut
  BY <1>1, <1>3
<1> HIDE DEF Cut
<1>7. OrderOK'
  <2>1. \A m \in 1 .. Len(wire') :
          /\ provider # "gemini" => \A k \in DOMAIN wire'[m].calls : k = 1
          /\ wire'[m].type = "cut" => wire'[m].calls = <<>>
          /\ Opens(wire'[m]) => \A k \in DOMAIN wire'[m].calls : wire'[m].calls[k] < up.started
    BY <1>4, <1>5, <1>6 DEF OrderOK
  <2>2. \A m, n \in 1 .. Len(wire') : m < n /\ Closing(wire'[m]) => wire'[n].calls = <<>>
    BY <1>4, <1>6 DEF OrderOK
  <2>3. \A m, n \in 1 .. Len(wire') : Opens(wire'[m]) /\ Opens(wire'[n]) =>
                \A j \in DOMAIN wire'[m].calls, k \in DOMAIN wire'[n].calls :
                    wire'[m].calls[j] = wire'[n].calls[k] => m = n /\ j = k
    BY <1>4, <1>6 DEF OrderOK
  <2> QED BY <1>2, <2>1, <2>2, <2>3 DEF OrderOK, Opens, Closing
<1> QED BY <1>3, <1>7

-----------------------------------------------------------------------------
(* What has been passed is accounted for. *)

(* Frame n was handled in the name of call c. *)
Given(n, c) == \E i \in 1 .. Len(Evs(n)) : Passed(n, i) /\ About(provider, wire, n, i, c)

(* A call holds the frames it was given, each of them once. *)
HeldOK == \A c \in Calls :
    LET s == accs[c].frames
    IN  /\ \A i, j \in 1 .. Len(s) : s[i] = s[j] => i = j
        /\ \A n \in 1 .. Len(wire) : (\E i \in 1 .. Len(s) : s[i] = n) <=> Given(n, c)

(* A call is allowed exactly by an evaluation of its complete arguments.   *)
Permits(a) == a.args = Whole /\ (a.outcome = "allow" \/ (a.outcome = "throw" /\ failMode = "allow"))

VerdictsOK == \A i \in 1 .. Len(answers) :
    answers[i].decision \in {"allow", "deny"} /\ (answers[i].decision = "allow" <=> Permits(answers[i]))

(* No call is settled before everything about any call has been passed.    *)
InLoop(t) == tasks[t].call # TextBlock
Looping   == \E t \in 1 .. Len(tasks) : InLoop(t)
AllPast   == \A n \in 1 .. Len(wire) : \A i \in 1 .. Len(Evs(n)) :
                 Evs(n)[i].kind \in CallKinds => Passed(n, i)

SettlingOK == Looping \/ (\E c : Answered(c)) => up.phase # "body" /\ AllPast

(* What is in flight is unsettled, but for what a loop has visited.        *)
VisitedOK ==
    /\ \A t \in 1 .. Len(tasks) : InLoop(t) => \A c \in inFlight : Answered(c) => c < tasks[t].call
    /\ ~Looping => \A c \in inFlight : ~Answered(c)

(* A finish leaves nothing in flight. *)
Finished == \E n \in 1 .. Len(wire) : \E i \in 1 .. Len(Evs(n)) :
                Passed(n, i) /\ Evs(n)[i].kind = "finish"

DrainedOK == Finished => inFlight = {}

(* Until the end handler takes over, the enforcer knows of every denial.   *)
EndReached == \E t \in 1 .. Len(tasks) :
    tasks[t].eof /\ tasks[t].at > tasks[t].hi /\ (InLoop(t) \/ tasks[t].ev = 2)

DenialOK ==
    ~EndReached => (Denied <=> syntheticTerminalEmitted = TRUE \/
                               \E t \in 1 .. Len(tasks) : InLoop(t) /\ tasks[t].deny = TRUE)

CountOK == \A n \in 1 .. Len(wire) :
    Count(out, n) =
        IF Carries(n) THEN Cardinality({c \in CallsIn(n) : Sanctioned(c)})
        ELSE IF ~Passed(n, 1) \/ (Finishes(n) /\ Denied) THEN 0 ELSE 1

AccountInv ==
    /\ OrderOK /\ HeldOK /\ VerdictsOK /\ SettlingOK /\ VisitedOK /\ DrainedOK
    /\ DenialOK /\ CountOK

LEMMA OrderKept ==
    ASSUME OrderOK, UNCHANGED <<conf, wire, up>> PROVE OrderOK'
<1>1. provider' = provider /\ wire' = wire /\ up' = up
  BY DEF conf
<1> QED BY <1>1 DEF OrderOK, Opens, Closing

LEMMA EvsKept ==
    ASSUME UNCHANGED <<conf, wire>>, NEW n
    PROVE  /\ Evs(n)' = Evs(n) /\ (Carries(n)' <=> Carries(n)) /\ CallsIn(n)' = CallsIn(n)
           /\ (Finishes(n)' <=> Finishes(n))
           /\ \A i, c : About(provider, wire, n, i, c)' <=> About(provider, wire, n, i, c)
<1>1. provider' = provider /\ wire' = wire
  BY DEF conf
<1> QED BY <1>1 DEF Evs, Carries, CallsIn, Finishes, About

(* A frame is about the calls it carries. *)
LEMMA AboutCarries ==
    ASSUME WireOK, OrderOK, NEW n \in 1 .. Len(wire), NEW c
    PROVE  (\E i \in 1 .. Len(Evs(n)) : About(provider, wire, n, i, c)) <=> Carries(n) /\ c \in CallsIn(n)
<1>1. StandsFor(provider, wire, n) /\ n # EMPTY_FRAME /\ \A i \in 1 .. Len(Evs(n)) : EventOK(provider, wire, n, i)
  BY Stands
<1>2. ASSUME Carries(n), c \in CallsIn(n)
      PROVE  \E i \in 1 .. Len(Evs(n)) : About(provider, wire, n, i, c)
  <2>1. PICK k \in DOMAIN wire[n].calls : c = wire[n].calls[k]
    BY <1>2 DEF CallsIn
  <2>2. CarriesIn(wire, n)
    BY <1>2 DEF Carries, CarriesIn
  <2> QED BY <1>1, <2>1, <2>2 DEF StandsFor, Evs
<1>3. ASSUME NEW i \in 1 .. Len(Evs(n)), About(provider, wire, n, i, c)
      PROVE  Carries(n) /\ c \in CallsIn(n)
  BY <1>1, <1>3 DEF About, EventOK, Carries, CarriesIn, CallsIn
<1> QED BY <1>2, <1>3

LEMMA PassedAt ==
    ASSUME WireOK, TasksOK, NEW t \in 1 .. Len(tasks), Runnable(t), tasks[t].at <= tasks[t].hi
    PROVE  /\ t \in 1 .. Len(wire) /\ tasks[t].ev \in 1 .. Len(Evs(t)) /\ CurrentEvent(t) = Evs(t)[tasks[t].ev]
           /\ ~EndReached
           /\ \A m \in 1 .. Len(wire) : \A j \in 1 .. Len(Evs(m)) :
                 Passed(m, j) <=> m < t \/ (m = t /\ j < tasks[t].ev)
<1>1. /\ t \in 1 .. Len(wire) /\ tasks[t].at = t /\ tasks[t].hi = t /\ tasks[t].ev \in 1 .. Len(Evs(t))
      /\ CurrentEvent(t) = Evs(t)[tasks[t].ev] /\ t \in Nat
  BY AtFrame, Only DEF Evs
<1>2. Len(wire) \in Nat /\ \A n \in 1 .. Len(wire) : n \in 1 .. Len(tasks)
  BY Lengths
<1>3. ASSUME NEW m \in 1 .. Len(wire), NEW j \in 1 .. Len(Evs(m))
      PROVE  Passed(m, j) <=> m < t \/ (m = t /\ j < tasks[t].ev)
  <2>1. m \in 1 .. Len(tasks) /\ m \in Nat
    BY <1>2
  <2>2. j \in Nat \ {0}
    <3>1. Len(Evs(m)) \in Nat
      BY EventsAre DEF Evs
    <3> QED BY <3>1
  <2>3. CASE m < t
    BY <2>1, <2>3, Only DEF Passed
  <2>4. CASE m = t
    BY <1>1, <2>4 DEF Passed
  <2>5. CASE m > t
    <3>1. tasks[m].at = m /\ tasks[m].ev = 1
      BY <2>1, <2>5, Only
    <3> QED BY <1>1, <2>1, <2>2, <2>5, <3>1 DEF Passed
  <2> QED BY <1>1, <2>1, <2>3, <2>4, <2>5
<1>4. ~EndReached
  <2>1. ASSUME NEW s \in 1 .. Len(tasks), tasks[s].eof, tasks[s].at > tasks[s].hi, InLoop(s) \/ tasks[s].ev = 2
        PROVE  FALSE
    <3>1. CASE s = t
      BY <1>1, <2>1, <3>1
    <3>2. CASE s < t
      BY <2>1, <3>2, Only
    <3>3. CASE s > t
      <4>1. tasks[s].call = TextBlock /\ tasks[s].ev = 1
        BY <3>3, <1>1, Lengths, Only
      <4> QED BY <2>1, <4>1 DEF InLoop
    <3>4. s \in Nat
      BY Lengths
    <3> QED BY <1>1, <3>1, <3>2, <3>3, <3>4
  <2> QED BY <2>1 DEF EndReached
<1> QED BY <1>1, <1>3, <1>4

LEMMA PassedNow ==
    ASSUME WireOK, TasksOK, NEW t \in 1 .. Len(tasks), Runnable(t), tasks[t].at <= tasks[t].hi,
           tasks' = [tasks EXCEPT ![t] = Advanced(t)], UNCHANGED <<conf, wire, up, closed>>
    PROVE  /\ ~Passed(t, tasks[t].ev)
           /\ \A n \in 1 .. Len(wire) : \A i \in 1 .. Len(Evs(n)) :
                 Passed(n, i)' <=> Passed(n, i) \/ (n = t /\ i = tasks[t].ev)
<1> DEFINE k == tasks[t]
           e == Len(Evs(t))
           a == Advanced(t)
<1>1. /\ t \in 1 .. Len(wire) /\ k.at = t /\ k.hi = t /\ k.ev \in 1 .. e /\ k.ev \in Nat \ {0} /\ e \in Nat
      /\ t \in Nat \ {0}
  BY AtFrame, Only DEF Evs
<1>2. TaskType(t)
  BY DEF TasksOK
<1>3. k = [f \in TaskFields |-> k[f]]
  BY <1>2 DEF TaskType
<1>4. a = [k EXCEPT !.new = FALSE, !.at = IF k.ev < e THEN k.at ELSE k.at + 1,
                    !.ev = IF k.ev < e THEN k.ev + 1 ELSE 1, !.call = TextBlock, !.deny = FALSE,
                    !.over = ~k.eof /\ (IF k.ev < e THEN k.at ELSE k.at + 1) > k.hi]
  BY <1>1 DEF Advanced, Evs
<1> HIDE DEF e, k, a
<1>5. /\ a.at = IF k.ev < e THEN t ELSE t + 1
      /\ a.ev = IF k.ev < e THEN k.ev + 1 ELSE 1
  BY <1>1, <1>3, <1>4 DEF TaskFields
<1>6. tasks'[t] = a
  <2>1. IsSeq(tasks)
    BY DEF TasksOK
  <2> QED BY <2>1, SetAtSeq DEF a
<1>7. ~Passed(t, k.ev)
  BY <1>1 DEF Passed, k
<1>8. ASSUME NEW n \in 1 .. Len(wire), NEW i \in 1 .. Len(Evs(n)), Passed(n, i)
      PROVE  Passed(n, i)'
  <2>1. CASE n # t
    <3>1. n \in 1 .. Len(tasks)
      BY Lengths
    <3>2. tasks'[n] = tasks[n]
      BY <2>1, <3>1, Advances
    <3> QED BY <1>8, <3>2 DEF Passed
  <2>2. CASE n = t
    <3>1. i < k.ev /\ i \in Nat
      BY <1>1, <1>8, <2>2 DEF Passed, k, e
    <3>2. a.at > t \/ i < a.ev
      BY <1>1, <1>5, <3>1
    <3> QED BY <1>6, <2>2, <3>2 DEF Passed
  <2> QED BY <2>1, <2>2
<1>9. ASSUME NEW v, v = k.ev PROVE Passed(t, v)'
  <2>1. a.at > t \/ v < a.ev
    BY <1>1, <1>5, <1>9
  <2> QED BY <1>6, <2>1 DEF Passed
<1>10. \A n \in 1 .. Len(wire) : \A i \in 1 .. Len(Evs(n)) :
           Passed(n, i)' => Passed(n, i) \/ (n = t /\ i = tasks[t].ev)
  BY Advances DEF Evs
<1> QED BY <1>7, <1>8, <1>9, <1>10 DEF k

-----------------------------------------------------------------------------
(* The steps past an event that finishes nothing. *)
LEMMA HistoryKept ==
    ASSUME UNCHANGED <<conf, answers>>
    PROVE  /\ \A c : (Answered(c)' <=> Answered(c)) /\ (Sanctioned(c)' <=> Sanctioned(c))
           /\ Denied' <=> Denied
           /\ VerdictsOK => VerdictsOK'
<1>1. failMode' = failMode /\ answers' = answers
  BY DEF conf
<1>2. \A a : Permits(a)' <=> Permits(a)
  BY <1>1 DEF Permits
<1> QED BY <1>1, <1>2 DEF Answered, Sanctioned, Denied, VerdictsOK, Permits

LEMMA LoopLeft ==
    ASSUME WireOK, TasksOK, NEW t \in 1 .. Len(tasks), Runnable(t), tasks[t].at <= tasks[t].hi,
           tasks' = [tasks EXCEPT ![t] = Advanced(t)], UNCHANGED <<conf, wire, up, closed>>
    PROVE  ~Looping'
<1>1. /\ tasks'[t].call = TextBlock /\ Len(tasks') = Len(tasks)
      /\ \A s \in 1 .. Len(tasks) : s # t => tasks'[s] = tasks[s]
  BY Advances
<1>2. \A s \in 1 .. Len(tasks) : tasks'[s].call = TextBlock
  BY <1>1, Only
<1> QED BY <1>1, <1>2 DEF Looping, InLoop

LEMMA PastEvent ==
    ASSUME StreamInv, AccountInv, NEW t \in 1 .. Len(tasks), Runnable(t), tasks[t].at <= tasks[t].hi,
           tasks[t].call = TextBlock, CurrentEvent(t).kind # "finish",
           tasks' = [tasks EXCEPT ![t] = Advanced(t)],
           UNCHANGED <<conf, wire, up, closed>>, UNCHANGED <<answers, syntheticTerminalEmitted>>
    PROVE  /\ OrderOK' /\ VerdictsOK' /\ SettlingOK' /\ DenialOK'
           /\ ~Looping /\ ~Looping' /\ (Finished' <=> Finished)
<1>1. WireOK /\ TasksOK /\ OrderOK /\ VerdictsOK /\ SettlingOK /\ DenialOK
  BY DEF StreamInv, AccountInv
<1>2. /\ t \in 1 .. Len(wire) /\ CurrentEvent(t) = Evs(t)[tasks[t].ev] /\ ~EndReached
      /\ tasks[t].ev \in 1 .. Len(Evs(t))
  BY <1>1, PassedAt
<1>3. \A n \in 1 .. Len(wire) : \A i \in 1 .. Len(Evs(n)) :
          Passed(n, i)' <=> Passed(n, i) \/ (n = t /\ i = tasks[t].ev)
  BY <1>1, PassedNow
<1>4. \A n : Evs(n)' = Evs(n)
  BY EvsKept
<1>5. ~Looping /\ ~\E s \in 1 .. Len(tasks) : InLoop(s)
  <2>1. \A s \in 1 .. Len(tasks) : tasks[s].call = TextBlock
    BY <1>1, Only
  <2> QED BY <2>1 DEF Looping, InLoop
<1>6. ~Looping' /\ ~(\E s \in 1 .. Len(tasks) : InLoop(s))'
  <2>1. ~Looping'
    BY <1>1, LoopLeft
  <2> QED BY <2>1 DEF Looping
<1>7. wire' = wire /\ up' = up /\ syntheticTerminalEmitted' = syntheticTerminalEmitted
  OBVIOUS
<1>8. Finished' <=> Finished
  <2>1. Finished' <=> \E n \in 1 .. Len(wire) : \E i \in 1 .. Len(Evs(n)) : Passed(n, i)' /\ Evs(n)[i].kind = "finish"
    BY <1>4, <1>7 DEF Finished
  <2>2. ~(Evs(t)[tasks[t].ev].kind = "finish")
    BY <1>2
  <2> QED BY <1>3, <2>1, <2>2 DEF Finished
<1>9. \A c : Answered(c)' <=> Answered(c)
  BY HistoryKept
<1>10. SettlingOK'
  <2>1. ASSUME AllPast PROVE AllPast'
    <3>1. \A n \in 1 .. Len(wire) : \A i \in 1 .. Len(Evs(n)) : Evs(n)[i].kind \in CallKinds => Passed(n, i)'
      BY <1>3, <2>1 DEF AllPast
    <3> QED BY <1>4, <1>7, <3>1 DEF AllPast
  <2> QED BY <1>1, <1>6, <1>7, <1>9, <2>1 DEF SettlingOK
<1>11. DenialOK'
  <2>1. Denied <=> syntheticTerminalEmitted = TRUE
    BY <1>1, <1>2, <1>5 DEF DenialOK
  <2>2. Denied' <=> Denied
    BY HistoryKept
  <2>3. ~(\E s \in 1 .. Len(tasks) : InLoop(s) /\ tasks[s].deny = TRUE)'
    BY <1>6
  <2> QED BY <1>7, <2>1, <2>2, <2>3 DEF DenialOK
<1>12. OrderOK' /\ VerdictsOK'
  BY <1>1, OrderKept, HistoryKept
<1> QED BY <1>5, <1>6, <1>8, <1>10, <1>11, <1>12

(* The event that finishes with the bytes of a frame is its first one. *)
LEMMA FinishesFirst ==
    ASSUME WireOK, OrderOK, NEW n \in 1 .. Len(wire)
    PROVE  Finishes(n) <=> Evs(n)[1].kind = "finish" /\ Evs(n)[1].rawFrame = n
<1>1. /\ n # EMPTY_FRAME /\ 1 \in 1 .. Len(Evs(n)) /\ n \in Nat \ {0}
      /\ \A i \in 1 .. Len(Evs(n)) : EventOK(provider, wire, n, i)
  BY Stands
<1>2. DOMAIN Evs(n) = 1 .. Len(Evs(n))
  <2>1. Len(wire) \in Nat
    BY LenNat DEF WireOK
  <2>2. \A m \in 1 .. n : FrameOK(provider, wire, m)
    BY <1>1, <2>1 DEF WireOK
  <2>3. IsSeq(Evs(n))
    BY <1>1, <2>2, EventsOK DEF WireOK, Evs
  <2> QED BY <2>3, SeqDomain
<1>3. \A i \in 1 .. Len(Evs(n)) : Evs(n)[i].kind = "finish" /\ Evs(n)[i].rawFrame = n => i = 1
  BY <1>1 DEF EventOK, PassKinds, Evs
<1> QED BY <1>1, <1>2, <1>3 DEF Finishes, Evs

(* A call-carrying frame is counted by the calls it carries, another by    *)
(* whether it has been passed.                                             *)
LEMMA CountNow ==
    ASSUME UNCHANGED <<conf, wire>>, UNCHANGED <<conf, answers>>, NEW o, o = out',
           \A n \in 1 .. Len(wire) :
               Count(o, n) = IF Carries(n) THEN Cardinality({c \in CallsIn(n) : Sanctioned(c)})
                             ELSE IF ~Passed(n, 1)' \/ (Finishes(n) /\ Denied) THEN 0 ELSE 1
    PROVE  CountOK'
<1>1. wire' = wire
  OBVIOUS
<1>2. ASSUME NEW n \in 1 .. Len(wire')
      PROVE  Count(out', n) = IF Carries(n)' THEN Cardinality({c \in CallsIn(n)' : Sanctioned(c)'})
                              ELSE IF ~Passed(n, 1)' \/ (Finishes(n)' /\ Denied') THEN 0 ELSE 1
  <2>1. (Carries(n)' <=> Carries(n)) /\ CallsIn(n)' = CallsIn(n) /\ (Finishes(n)' <=> Finishes(n))
    BY EvsKept
  <2>2. (\A c : Sanctioned(c)' <=> Sanctioned(c)) /\ (Denied' <=> Denied)
    BY HistoryKept
  <2>3. {c \in CallsIn(n)' : Sanctioned(c)'} = {c \in CallsIn(n) : Sanctioned(c)}
    BY <2>1, <2>2
  <2> QED BY <1>1, <2>1, <2>2, <2>3
<1> QED BY <1>2 DEF CountOK, Count, Emitted

LEMMA CountKept ==
    ASSUME CountOK, UNCHANGED <<conf, wire>>, UNCHANGED <<conf, answers>>, out' = out,
           \A n \in 1 .. Len(wire) : ~Carries(n) => (Passed(n, 1)' <=> Passed(n, 1))
    PROVE  CountOK'
<1>1. \A n \in 1 .. Len(wire) :
          Count(out, n) = IF Carries(n) THEN Cardinality({c \in CallsIn(n) : Sanctioned(c)})
                          ELSE IF ~Passed(n, 1)' \/ (Finishes(n) /\ Denied) THEN 0 ELSE 1
  BY DEF CountOK
<1> QED BY <1>1, CountNow

LEMMA TextAccounted ==
    ASSUME StreamInv, AccountInv, NEW t \in 1 .. Len(tasks), OnText(t) PROVE AccountInv'
<1>1. WireOK /\ TasksOK /\ OrderOK /\ HeldOK /\ CountOK /\ VisitedOK /\ DrainedOK /\ OutOK
  BY DEF StreamInv, AccountInv
<1>2. /\ Runnable(t) /\ tasks[t].at <= tasks[t].hi /\ CurrentEvent(t).kind \in {"text-delta", "passthrough"}
      /\ tasks[t].call = TextBlock
      /\ out' = out \o Raw(CurrentEvent(t).rawFrame) /\ tasks' = [tasks EXCEPT ![t] = Advanced(t)]
      /\ UNCHANGED <<conf, wire, up, closed>> /\ UNCHANGED <<answers, syntheticTerminalEmitted>>
      /\ UNCHANGED <<accs, inFlight>> /\ UNCHANGED <<conf, wire>> /\ UNCHANGED <<conf, answers>>
  BY DEF OnText, AtEvent, state
<1>3. /\ OrderOK' /\ VerdictsOK' /\ SettlingOK' /\ DenialOK' /\ ~Looping /\ ~Looping'
      /\ Finished' <=> Finished
  <2>1. CurrentEvent(t).kind # "finish"
    BY <1>2
  <2> QED BY <1>1, <1>2, <2>1, PastEvent
<1>4. /\ t \in 1 .. Len(wire) /\ CurrentEvent(t) = Evs(t)[tasks[t].ev] /\ tasks[t].ev \in 1 .. Len(Evs(t))
  BY <1>1, <1>2, PassedAt
<1>5. /\ \A n \in 1 .. Len(wire) : \A i \in 1 .. Len(Evs(n)) :
            Passed(n, i)' <=> Passed(n, i) \/ (n = t /\ i = tasks[t].ev)
      /\ ~Passed(t, tasks[t].ev)
  BY <1>1, <1>2, PassedNow
<1>6. \A n : /\ Evs(n)' = Evs(n) /\ (Carries(n)' <=> Carries(n)) /\ CallsIn(n)' = CallsIn(n)
             /\ (Finishes(n)' <=> Finishes(n))
             /\ \A i, c : About(provider, wire, n, i, c)' <=> About(provider, wire, n, i, c)
  BY <1>2, EvsKept
<1>7. (\A c : (Answered(c)' <=> Answered(c)) /\ (Sanctioned(c)' <=> Sanctioned(c))) /\ (Denied' <=> Denied)
  BY <1>2, HistoryKept
<1>8. HeldOK'
  <2>1. ASSUME NEW n \in 1 .. Len(wire), NEW c PROVE Given(n, c)' <=> Given(n, c)
    <3>1. ~About(provider, wire, t, tasks[t].ev, c)
      BY <1>2, <1>4 DEF About, Evs, CallKinds
    <3> QED BY <1>5, <1>6, <3>1 DEF Given
  <2> QED BY <1>1, <1>2, <2>1 DEF HeldOK
<1>9. VisitedOK' /\ DrainedOK'
  BY <1>1, <1>2, <1>3, <1>7 DEF VisitedOK, DrainedOK, Looping
<1>10. CountOK'
  <2>0. PICK r : r = CurrentEvent(t).rawFrame
    OBVIOUS
  <2>1. /\ StandsFor(provider, wire, t) /\ EventOK(provider, wire, t, tasks[t].ev) /\ t # EMPTY_FRAME
        /\ CurrentEvent(t).kind \in PassKinds
    BY <1>1, <1>2, <1>4, Stands DEF PassKinds
  <2>2. r = EMPTY_FRAME \/ (r = t /\ tasks[t].ev = 1 /\ ~Carries(t) /\ Evs(t)[1].kind # "finish")
    BY <1>2, <1>4, <2>0, <2>1 DEF EventOK, Carries, CarriesIn, Evs
  <2>3. r = EMPTY_FRAME /\ ~Carries(t) => tasks[t].ev # 1
    BY <1>4, <2>0, <2>1 DEF StandsFor, Carries, CarriesIn, Evs
  <2>4. ASSUME NEW n \in 1 .. Len(wire)
        PROVE  Count(out', n) = Count(out, n) + (IF r = n /\ n # EMPTY_FRAME THEN 1 ELSE 0) /\ Count(out, n) \in Nat
    <3>1. IsSeq(out) /\ IsSeq(Raw(r))
      <4>1. IsSeq(out)
        BY <1>1 DEF OutOK, OutIs
      <4> QED BY <4>1, NoSeq, OneSeq DEF Raw
    <3>2. Count(out', n) = Count(out, n) + Count(Raw(r), n)
      BY <1>2, <2>0, <3>1, CountConcat
    <3> QED BY <3>1, <3>2, CountRaw, EmittedFinite
  <2>5. ASSUME NEW n \in 1 .. Len(wire)
        PROVE  Count(out', n) = IF Carries(n) THEN Cardinality({c \in CallsIn(n) : Sanctioned(c)})
                                ELSE IF ~Passed(n, 1)' \/ (Finishes(n) /\ Denied) THEN 0 ELSE 1
    <3>1. Count(out, n) = IF Carries(n) THEN Cardinality({c \in CallsIn(n) : Sanctioned(c)})
                          ELSE IF ~Passed(n, 1) \/ (Finishes(n) /\ Denied) THEN 0 ELSE 1
      BY <1>1 DEF CountOK
    <3>2. 1 \in 1 .. Len(Evs(n)) /\ n # EMPTY_FRAME
      BY <1>1, Stands
    <3>3. CASE r = n
      <4>1. /\ n = t /\ tasks[t].ev = 1 /\ ~Carries(n) /\ n # EMPTY_FRAME
            /\ ~Passed(n, 1) /\ Passed(n, 1)'
        BY <1>5, <2>1, <2>2, <3>2, <3>3
      <4>2. ~Finishes(n)
        BY <1>1, <2>2, <3>3, <4>1, FinishesFirst
      <4> QED BY <2>4, <3>1, <3>3, <4>1, <4>2
    <3>4. CASE r # n
      <4>1. ~Carries(n) => (Passed(n, 1)' <=> Passed(n, 1))
        BY <1>5, <2>2, <2>3, <3>2, <3>4
      <4> QED BY <2>4, <3>1, <3>4, <4>1
    <3> QED BY <3>3, <3>4
  <2>6. PICK o : o = out'
    OBVIOUS
  <2>7. \A n \in 1 .. Len(wire) :
            Count(o, n) = IF Carries(n) THEN Cardinality({c \in CallsIn(n) : Sanctioned(c)})
                          ELSE IF ~Passed(n, 1)' \/ (Finishes(n) /\ Denied) THEN 0 ELSE 1
    BY <2>5, <2>6
  <2>8. UNCHANGED <<conf, wire>> /\ UNCHANGED <<conf, answers>>
    BY <1>2
  <2> QED BY <2>6, <2>7, <2>8, CountNow
<1> QED BY <1>3, <1>8, <1>9, <1>10 DEF AccountInv

-----------------------------------------------------------------------------
(* The steps past an event about a call. *)
LEMMA CallEvent ==
    ASSUME StreamInv, AccountInv, NEW t \in 1 .. Len(tasks), Runnable(t), tasks[t].at <= tasks[t].hi,
           CurrentEvent(t).kind \in CallKinds
    PROVE  /\ ~Finished /\ ~(\E c : Answered(c))
           /\ tasks[t].ev = 1 => Carries(t)
<1>1. WireOK /\ TasksOK /\ OrderOK /\ SettlingOK
  BY DEF StreamInv, AccountInv
<1>2. /\ t \in 1 .. Len(wire) /\ tasks[t].ev \in 1 .. Len(Evs(t)) /\ CurrentEvent(t) = Evs(t)[tasks[t].ev]
      /\ \A m \in 1 .. Len(wire) : \A j \in 1 .. Len(Evs(m)) :
            Passed(m, j) <=> m < t \/ (m = t /\ j < tasks[t].ev)
  BY <1>1, PassedAt
<1>3. StandsFor(provider, wire, t) /\ t \in Nat \ {0} /\ Len(Evs(t)) \in Nat \ {0}
  BY <1>1, <1>2, Stands
<1>4. ~Passed(t, tasks[t].ev)
  BY <1>2, <1>3
<1>5. ~(\E c : Answered(c))
  BY <1>1, <1>2, <1>4 DEF SettlingOK, AllPast
<1>6. wire[t].calls # <<>>
  BY <1>2, <1>3 DEF StandsFor, Evs
<1>7. ASSUME NEW n \in 1 .. Len(wire), NEW i \in 1 .. Len(Evs(n)), Passed(n, i), Evs(n)[i].kind = "finish"
      PROVE  FALSE
  <2>1. StandsFor(provider, wire, n)
    BY <1>1, Stands
  <2>2. Closing(wire[n]) /\ i = Len(Evs(n))
    BY <1>7, <2>1 DEF StandsFor, Evs
  <2>3. CASE n < t
    BY <1>1, <1>2, <1>6, <2>2, <2>3 DEF OrderOK
  <2>4. CASE n = t /\ i < tasks[t].ev
    BY <1>2, <1>3, <2>2, <2>4
  <2> QED BY <1>2, <1>7, <2>3, <2>4
<1>8. tasks[t].ev = 1 => Carries(t)
  <2>1. PassKinds \cap CallKinds = {}
    BY DEF PassKinds, CallKinds
  <2> QED BY <1>2, <1>3, <2>1 DEF StandsFor, Carries, CarriesIn, Evs
<1> QED BY <1>5, <1>7, <1>8 DEF Finished

(* The call c, which held the frames s, holds f: one more frame, if the    *)
(* event e has one.                                                        *)
Holds(t, e, c, s, f) ==
    /\ e = CurrentEvent(t) /\ e.kind \in CallKinds /\ c = e.index /\ c \in Calls
    /\ IsSeq(s) /\ \A i, j \in 1 .. Len(s) : s[i] = s[j] => i = j
    /\ \A n \in 1 .. Len(wire) : (\E i \in 1 .. Len(s) : s[i] = n) <=> Given(n, c)
    /\ accs'[c].frames = f /\ \A d \in Calls : d # c => accs'[d] = accs[d]
    /\ e.rawFrame = EMPTY_FRAME => f = s
    /\ e.rawFrame # EMPTY_FRAME => f = Append(s, e.rawFrame)

LEMMA HeldSet ==
    ASSUME WireOK, TasksOK, OrderOK, HeldOK,
           NEW t \in 1 .. Len(tasks), Runnable(t), tasks[t].at <= tasks[t].hi,
           NEW e, NEW c, NEW s, NEW f, Holds(t, e, c, s, f),
           tasks' = [tasks EXCEPT ![t] = Advanced(t)], UNCHANGED <<conf, wire, up, closed>>
    PROVE  HeldOK'
<1>0. /\ e = CurrentEvent(t) /\ e.kind \in CallKinds /\ c = e.index /\ c \in Calls
      /\ IsSeq(s) /\ \A i, j \in 1 .. Len(s) : s[i] = s[j] => i = j
      /\ \A n \in 1 .. Len(wire) : (\E i \in 1 .. Len(s) : s[i] = n) <=> Given(n, c)
      /\ e.rawFrame = EMPTY_FRAME => f = s
      /\ e.rawFrame # EMPTY_FRAME => f = Append(s, e.rawFrame)
  BY DEF Holds
<1>1. /\ t \in 1 .. Len(wire) /\ tasks[t].ev \in 1 .. Len(Evs(t)) /\ e = Evs(t)[tasks[t].ev]
  BY <1>0, PassedAt
<1>2. /\ \A n \in 1 .. Len(wire) : \A i \in 1 .. Len(Evs(n)) :
            Passed(n, i)' <=> Passed(n, i) \/ (n = t /\ i = tasks[t].ev)
      /\ ~Passed(t, tasks[t].ev)
  BY PassedNow
<1>3. EventOK(provider, wire, t, tasks[t].ev) /\ t # EMPTY_FRAME
  BY <1>1, Stands
<1>4. e.rawFrame = EMPTY_FRAME \/ e.rawFrame = t
  BY <1>0, <1>1, <1>3 DEF EventOK, Evs
<1>5. ASSUME NEW d PROVE About(provider, wire, t, tasks[t].ev, d) <=> d = c /\ e.rawFrame # EMPTY_FRAME
  BY <1>0, <1>1, <1>3, <1>4 DEF About, Evs
<1>6. ASSUME NEW n \in 1 .. Len(wire), NEW d
      PROVE  Given(n, d)' <=> Given(n, d) \/ (n = t /\ d = c /\ e.rawFrame # EMPTY_FRAME)
  <2>1. Evs(n)' = Evs(n) /\ \A i : About(provider, wire, n, i, d)' <=> About(provider, wire, n, i, d)
    BY EvsKept
  <2>2. Given(n, d)' <=> \E i \in 1 .. Len(Evs(n)) : Passed(n, i)' /\ About(provider, wire, n, i, d)
    BY <2>1 DEF Given
  <2> QED BY <1>1, <1>2, <1>5, <2>2 DEF Given
<1>7. e.rawFrame # EMPTY_FRAME => ~Given(t, c)
  <2>1. ASSUME e.rawFrame # EMPTY_FRAME, NEW i \in 1 .. Len(Evs(t)), Passed(t, i), About(provider, wire, t, i, c)
        PROVE  FALSE
    <3>1. About(provider, wire, t, tasks[t].ev, c)
      BY <1>5, <2>1
    <3>2. i = tasks[t].ev
      BY <1>1, <2>1, <3>1, AboutOnce
    <3> QED BY <1>2, <2>1, <3>2
  <2> QED BY <2>1 DEF Given
<1>8. /\ \A i, j \in 1 .. Len(f) : f[i] = f[j] => i = j
      /\ \A n \in 1 .. Len(wire) :
            (\E i \in 1 .. Len(f) : f[i] = n) <=> Given(n, c) \/ (n = t /\ e.rawFrame # EMPTY_FRAME)
  <2>1. CASE e.rawFrame = EMPTY_FRAME
    BY <1>0, <2>1
  <2>2. CASE e.rawFrame # EMPTY_FRAME
    <3>1. f = Append(s, t) /\ Len(s) \in Nat
      BY <1>0, <1>4, <2>2, LenNat
    <3>2. Len(f) = Len(s) + 1 /\ f[Len(s) + 1] = t /\ \A i \in 1 .. Len(s) : f[i] = s[i]
      BY <1>0, <3>1, AppendSeq
    <3>3. \A i \in 1 .. Len(f) : i \in 1 .. Len(s) \/ i = Len(s) + 1
      BY <3>1, <3>2
    <3>4. \A i \in 1 .. Len(s) : i \in 1 .. Len(f)
      BY <3>1, <3>2
    <3>5. Len(s) + 1 \in 1 .. Len(f)
      BY <3>1, <3>2
    <3>6. ~\E i \in 1 .. Len(s) : s[i] = t
      BY <1>0, <1>1, <1>7, <2>2
    <3>7. \A i, j \in 1 .. Len(f) : f[i] = f[j] => i = j
      BY <1>0, <3>2, <3>3, <3>6
    <3>8. \A n \in 1 .. Len(wire) : (\E i \in 1 .. Len(f) : f[i] = n) <=> (n = t \/ \E i \in 1 .. Len(s) : s[i] = n)
      BY <3>2, <3>3, <3>4, <3>5
    <3> QED BY <1>0, <2>2, <3>7, <3>8
  <2> QED BY <2>1, <2>2
<1>9. accs'[c].frames = f /\ \A d \in Calls : d # c => accs'[d] = accs[d]
  BY DEF Holds
<1>10. wire' = wire
  OBVIOUS
<1>11. ASSUME NEW d \in Calls
       PROVE  LET r == accs'[d].frames
              IN  /\ \A i, j \in 1 .. Len(r) : r[i] = r[j] => i = j
                  /\ \A n \in 1 .. Len(wire) : (\E i \in 1 .. Len(r) : r[i] = n) <=> Given(n, d)'
  <2>1. CASE d = c
    <3>1. accs'[d].frames = f
      BY <1>9, <2>1
    <3>2. ASSUME NEW n \in 1 .. Len(wire)
          PROVE  Given(n, d)' <=> Given(n, c) \/ (n = t /\ e.rawFrame # EMPTY_FRAME)
      BY <1>6, <2>1
    <3>3. \A i, j \in 1 .. Len(accs'[d].frames) : accs'[d].frames[i] = accs'[d].frames[j] => i = j
      BY <1>8, <3>1
    <3>4. ASSUME NEW n \in 1 .. Len(wire)
          PROVE  (\E i \in 1 .. Len(accs'[d].frames) : accs'[d].frames[i] = n) <=> Given(n, d)'
      BY <1>8, <3>1, <3>2
    <3> QED BY <3>3, <3>4
  <2>2. CASE d # c
    <3>1. accs'[d] = accs[d]
      BY <1>9, <2>2
    <3>2. ASSUME NEW n \in 1 .. Len(wire) PROVE Given(n, d)' <=> Given(n, d)
      BY <1>6, <2>2
    <3>3. /\ \A i, j \in 1 .. Len(accs[d].frames) : accs[d].frames[i] = accs[d].frames[j] => i = j
          /\ \A n \in 1 .. Len(wire) : (\E i \in 1 .. Len(accs[d].frames) : accs[d].frames[i] = n) <=> Given(n, d)
      BY DEF HeldOK
    <3> QED BY <3>1, <3>2, <3>3
  <2> QED BY <2>1, <2>2
<1>12. \A d \in Calls : \A n \in 1 .. Len(wire') :
           (\E i \in 1 .. Len(accs'[d].frames) : accs'[d].frames[i] = n) <=> Given(n, d)'
  BY <1>10, <1>11
<1>13. \A d \in Calls : \A i, j \in 1 .. Len(accs'[d].frames) :
           accs'[d].frames[i] = accs'[d].frames[j] => i = j
  BY <1>11
<1> QED BY <1>12, <1>13 DEF HeldOK

LEMMA CallPast ==
    ASSUME StreamInv, AccountInv, NEW t \in 1 .. Len(tasks), Runnable(t), tasks[t].at <= tasks[t].hi,
           tasks[t].call = TextBlock, CurrentEvent(t).kind \in CallKinds,
           tasks' = [tasks EXCEPT ![t] = Advanced(t)],
           UNCHANGED <<conf, wire, up, closed>>, UNCHANGED <<answers, syntheticTerminalEmitted>>,
           out' = out, HeldOK'
    PROVE  AccountInv'
<1>1. WireOK /\ TasksOK /\ OrderOK /\ CountOK
  BY DEF StreamInv, AccountInv
<1>2. /\ OrderOK' /\ VerdictsOK' /\ SettlingOK' /\ DenialOK' /\ ~Looping /\ ~Looping'
      /\ Finished' <=> Finished
  <2>1. CurrentEvent(t).kind # "finish"
    BY DEF CallKinds
  <2> QED BY <2>1, PastEvent
<1>3. /\ ~Finished /\ ~(\E c : Answered(c))
      /\ tasks[t].ev = 1 => Carries(t)
  BY CallEvent
<1>4. \A c : Answered(c)' <=> Answered(c)
  BY HistoryKept
<1>5. VisitedOK' /\ DrainedOK'
  BY <1>2, <1>3, <1>4 DEF VisitedOK, DrainedOK, Looping
<1>6. CountOK'
  <2>1. \A n \in 1 .. Len(wire) : 1 \in 1 .. Len(Evs(n))
    BY <1>1, Stands
  <2>2. \A n \in 1 .. Len(wire) : ~Carries(n) => (Passed(n, 1)' <=> Passed(n, 1))
    BY <1>1, <1>3, <2>1, PassedNow
  <2>3. UNCHANGED <<conf, wire>> /\ UNCHANGED <<conf, answers>>
    OBVIOUS
  <2> QED BY <1>1, <2>2, <2>3, CountKept
<1> QED BY <1>2, <1>5, <1>6 DEF AccountInv

LEMMA StartAccounted ==
    ASSUME StreamInv, AccountInv, NEW t \in 1 .. Len(tasks), OnStart(t) PROVE AccountInv'
<1>0. PICK e : e = CurrentEvent(t)
  OBVIOUS
<1>1. PICK c : c = e.index
  OBVIOUS
<1>2. PICK a : a = [args |-> <<>>, live |-> TRUE,
                    frames |-> IF e.rawFrame = EMPTY_FRAME THEN <<>> ELSE <<e.rawFrame>>]
  OBVIOUS
<1>3. WireOK /\ TasksOK /\ AccsOK /\ OrderOK /\ HeldOK
  BY DEF StreamInv, AccountInv
<1>4. /\ Runnable(t) /\ tasks[t].at <= tasks[t].hi /\ tasks[t].call = TextBlock /\ e.kind = "tool-call-start"
      /\ accs' = [accs EXCEPT ![c] = a] /\ tasks' = [tasks EXCEPT ![t] = Advanced(t)] /\ out' = out
      /\ UNCHANGED <<conf, wire, up, closed>> /\ UNCHANGED <<answers, syntheticTerminalEmitted>>
  BY <1>0, <1>1, <1>2 DEF OnStart, AtEvent
<1>5. e.kind \in CallKinds /\ c \in Calls
  <2>1. e.kind \in CallKinds
    BY <1>4 DEF CallKinds
  <2> QED BY <1>0, <1>1, <1>3, <1>4, <2>1, AtCall
<1>6. /\ t \in 1 .. Len(wire) /\ tasks[t].ev \in 1 .. Len(Evs(t)) /\ e = Evs(t)[tasks[t].ev]
      /\ \A m \in 1 .. Len(wire) : \A j \in 1 .. Len(Evs(m)) :
            Passed(m, j) <=> m < t \/ (m = t /\ j < tasks[t].ev)
  BY <1>0, <1>3, <1>4, PassedAt
<1>7. ASSUME NEW n \in 1 .. Len(wire), NEW i \in 1 .. Len(Evs(n)), Passed(n, i),
             About(provider, wire, n, i, c)
      PROVE  FALSE
  <2>1. /\ Evs(n)[i].kind \in CallKinds /\ Evs(n)[i].index = c /\ EventOK(provider, wire, n, i)
        /\ i \in Nat \ {0} /\ n \in Nat \ {0}
    BY <1>3, <1>7, Stands DEF About, Evs
  <2>2. t \in Nat \ {0} /\ tasks[t].ev \in Nat \ {0}
    BY <1>3, <1>6, Stands
  <2>3. CASE Evs(n)[i].kind = "tool-call-start"
    <3>1. n = t /\ i = tasks[t].ev
      BY <1>1, <1>3, <1>4, <1>6, <2>1, <2>3, BegunOnce
    <3> QED BY <1>6, <1>7, <2>2, <3>1
  <2>4. CASE Evs(n)[i].kind \in {"tool-call-arguments", "tool-call-end"}
    <3>1. PICK m \in 1 .. n : \E j \in 1 .. Len(Evs(m)) :
              Before(m, j, n, i) /\ Evs(m)[j].kind = "tool-call-start" /\ Evs(m)[j].index = c
      BY <2>1, <2>4 DEF EventOK, Evs
    <3>2. PICK j \in 1 .. Len(Evs(m)) :
              Before(m, j, n, i) /\ Evs(m)[j].kind = "tool-call-start" /\ Evs(m)[j].index = c
      BY <3>1
    <3>3. m \in 1 .. Len(wire)
      BY <1>3, <2>1, Lengths
    <3>4. m = t /\ j = tasks[t].ev
      BY <1>1, <1>3, <1>4, <1>6, <3>2, <3>3, BegunOnce
    <3> QED BY <1>6, <1>7, <2>1, <2>2, <3>2, <3>4 DEF Before
  <2> QED BY <2>1, <2>3, <2>4 DEF CallKinds
<1>8. HeldOK'
  <2>1. PICK s : s = <<>>
    OBVIOUS
  <2>2. IsSeq(s) /\ Len(s) = 0
    BY <2>1, NoSeq
  <2>3. \A i : i \notin 1 .. Len(s)
    BY <2>2
  <2>4. /\ e.rawFrame = EMPTY_FRAME => a.frames = s
        /\ e.rawFrame # EMPTY_FRAME => a.frames = Append(s, e.rawFrame)
    BY <1>2, <2>1
  <2>5. \A n \in 1 .. Len(wire) : (\E i \in 1 .. Len(s) : s[i] = n) <=> Given(n, c)
    BY <1>7, <2>3 DEF Given
  <2>6. \A i, j \in 1 .. Len(s) : s[i] = s[j] => i = j
    BY <2>3
  <2>7. PICK f : f = a.frames
    OBVIOUS
  <2>8. accs'[c].frames = f /\ \A d \in Calls : d # c => accs'[d] = accs[d]
    BY <1>3, <1>4, <1>5, <2>7 DEF AccsOK
  <2>9. Holds(t, e, c, s, f)
    BY <1>0, <1>1, <1>5, <2>2, <2>4, <2>5, <2>6, <2>7, <2>8 DEF Holds
  <2> QED BY <1>3, <1>4, <2>9, HeldSet
<1> QED BY <1>0, <1>4, <1>5, <1>8, CallPast

LEMMA BufferedAccounted ==
    ASSUME StreamInv, AccountInv, NEW t \in 1 .. Len(tasks), OnBuffered(t) PROVE AccountInv'
<1>0. PICK e, a : e = CurrentEvent(t) /\ a = Buffer(accs[e.index], e)
  OBVIOUS
<1>1. PICK c : c = e.index
  OBVIOUS
<1>3. WireOK /\ TasksOK /\ AccsOK /\ OrderOK /\ HeldOK
  BY DEF StreamInv, AccountInv
<1>4. /\ Runnable(t) /\ tasks[t].at <= tasks[t].hi /\ tasks[t].call = TextBlock
      /\ e.kind \in {"tool-call-arguments", "tool-call-end"} /\ tasks' = [tasks EXCEPT ![t] = Advanced(t)]
      /\ UNCHANGED <<conf, wire, up, closed>> /\ UNCHANGED <<answers, syntheticTerminalEmitted>>
  BY <1>0 DEF OnBuffered, AtEvent
<1>5. e.kind \in CallKinds /\ c \in Calls
  <2>1. e.kind \in CallKinds
    BY <1>4 DEF CallKinds
  <2> QED BY <1>0, <1>1, <1>3, <1>4, <2>1, AtCall
<1>6. accs[c].live
  BY <1>0, <1>1, <1>3, <1>4, KnownCall
<1>7. accs' = [accs EXCEPT ![c] = a] /\ out' = out
  <2>1. accs' = [accs EXCEPT ![c] = Buffer(@, e)] /\ out' = out
    BY <1>0, <1>1, <1>6 DEF OnBuffered
  <2> QED BY <1>0, <1>1, <2>1
<1>8. HeldOK'
  <2>1. PICK s : s = accs[c].frames
    OBVIOUS
  <2>2. AccType(accs[c]) /\ FramesOK(c, s)
    BY <1>3, <1>5, <2>1 DEF AccsOK
  <2>3. IsSeq(s)
    BY <2>2 DEF FramesOK
  <2>4. /\ e.rawFrame = EMPTY_FRAME => a.frames = s
        /\ e.rawFrame # EMPTY_FRAME => a.frames = Append(s, e.rawFrame)
    BY <1>0, <1>1, <2>1, <2>2 DEF Buffer, AccType
  <2>5. /\ \A i, j \in 1 .. Len(s) : s[i] = s[j] => i = j
        /\ \A n \in 1 .. Len(wire) : (\E i \in 1 .. Len(s) : s[i] = n) <=> Given(n, c)
    BY <1>3, <1>5, <2>1 DEF HeldOK
  <2>7. PICK f : f = a.frames
    OBVIOUS
  <2>8. accs'[c].frames = f /\ \A d \in Calls : d # c => accs'[d] = accs[d]
    BY <1>3, <1>5, <1>7, <2>7 DEF AccsOK
  <2>9. Holds(t, e, c, s, f)
    BY <1>0, <1>1, <1>5, <2>3, <2>4, <2>5, <2>7, <2>8 DEF Holds
  <2> QED BY <1>3, <1>4, <2>9, HeldSet
<1> QED BY <1>0, <1>4, <1>5, <1>7, <1>8, CallPast

-----------------------------------------------------------------------------
(* A loop goes on to the evaluation of the next call.                      *)
LEMMA AwaitMoved ==
    ASSUME WireOK, TasksOK, AccsOK, NEW t \in 1 .. Len(tasks), Runnable(t),
           NEW last \in Calls \cup {TextBlock}, NEW deny, NEW x,
           tasks[t].at <= tasks[t].hi => CurrentEvent(t).kind = "finish",
           {c \in inFlight : c > last} # {}, Iterate(t, last, deny, x),
           UNCHANGED <<conf, wire, up, accs, closed>>
    PROVE  /\ tasks'[t].call \in inFlight /\ tasks'[t].call \in Calls
           /\ \A c \in inFlight : c <= last => c < tasks'[t].call
           /\ \A c \in inFlight : c < tasks'[t].call => c <= last
           /\ out' = out \o x /\ UNCHANGED <<inFlight, syntheticTerminalEmitted>>
           /\ tasks'[t].deny = deny /\ tasks'[t].at = tasks[t].at /\ tasks'[t].hi = tasks[t].hi
           /\ tasks'[t].eof = tasks[t].eof /\ tasks'[t].ev = tasks[t].ev
           /\ TasksOK' /\ Len(tasks') = Len(tasks)
           /\ \A s \in 1 .. Len(tasks) : s # t => tasks'[s] = tasks[s]
           /\ \A n \in 1 .. Len(wire) : /\ Touched(n) <=> Touched(n)'
                                       /\ \A i \in Nat : Passed(n, i) <=> Passed(n, i)'
<1> DEFINE rest == {c \in inFlight : c > last}
<1>0. PICK d : d = Min(rest)
  OBVIOUS
<1>1. WireOK /\ TasksOK /\ AccsOK
  OBVIOUS
<1>2. rest \subseteq Calls /\ inFlight \subseteq Calls
  BY <1>1 DEF AccsOK
<1>3. d \in inFlight /\ d > last /\ d \in Calls /\ \A c \in rest : d <= c
  BY <1>0, <1>2, Least
<1>4. PICK k : k = [tasks[t] EXCEPT !.new = FALSE, !.call = d, !.deny = deny, !.seen = accs[d].args]
  OBVIOUS
<1>5. /\ tasks' = [tasks EXCEPT ![t].new = FALSE, ![t].call = d, ![t].deny = deny, ![t].seen = accs[d].args]
      /\ out' = out \o x /\ UNCHANGED <<inFlight, syntheticTerminalEmitted>>
  BY <1>0 DEF Iterate
<1>6. IsSeq(tasks) /\ TaskType(t) /\ ~tasks[t].over /\ DOMAIN tasks = 1 .. Len(tasks)
  BY <1>1, Only, SeqDomain DEF TasksOK
<1>7. tasks' = [tasks EXCEPT ![t] = k]
  BY <1>4, <1>5, <1>6
<1>8. /\ k = [f \in TaskFields |-> k[f]] /\ k.hi = tasks[t].hi /\ k.eof = tasks[t].eof /\ k.at = tasks[t].at
      /\ k.ev = tasks[t].ev /\ k.call = d /\ k.over = tasks[t].over /\ k.deny = deny
  <2>1. tasks[t] = [f \in TaskFields |-> tasks[t][f]]
    BY <1>6 DEF TaskType
  <2> QED BY <1>4, <2>1 DEF TaskFields
<1>9. k.at <= k.hi => Events(provider, wire, t)[k.ev].kind = "finish"
  <2>1. tasks[t].at <= tasks[t].hi => CurrentEvent(t) = Events(provider, wire, t)[tasks[t].ev]
    BY <1>1, AtFrame
  <2> QED BY <1>8, <2>1
<1>10. k.over = FALSE /\ k.call \in Calls \cup {TextBlock}
  <2>1. tasks[t].over = FALSE
    BY <1>6 DEF TaskType
  <2> QED BY <1>3, <1>8, <2>1
<1>11. /\ TasksOK' /\ Len(tasks') = Len(tasks) /\ tasks'[t] = k
       /\ \A s \in 1 .. Len(tasks) : s # t => tasks'[s] = tasks[s]
       /\ \A n \in 1 .. Len(wire) : /\ Touched(n) <=> Touched(n)'
                                   /\ \A i \in Nat : Passed(n, i) <=> Passed(n, i)'
  <2>1. k.over \in BOOLEAN /\ (k.over => k.eof /\ k.at > k.hi /\ k.ev = 2)
    BY <1>10
  <2>2. k.call # TextBlock => /\ ~k.over /\ k.call \in inFlight'
                              /\ k.at <= k.hi => Events(provider, wire, t)[k.ev].kind = "finish"
    BY <1>3, <1>5, <1>8, <1>9, <1>10
  <2>3. closed' = closed /\ UNCHANGED <<conf, wire, up>>
    OBVIOUS
  <2> QED BY <1>1, <1>7, <1>8, <1>10, <2>1, <2>2, <2>3, Stays
<1>12. /\ \A c \in inFlight : c <= last => c < d
       /\ \A c \in inFlight : c < d => c <= last
  <2>1. ASSUME NEW c \in inFlight PROVE c \in Calls /\ (c > last => d <= c)
    BY <1>2, <1>3
  <2>2. last \in Int /\ Calls \subseteq Int
    BY WireAssumption DEF Calls, TextBlock
  <2> QED BY <1>3, <2>1, <2>2
<1> QED BY <1>3, <1>5, <1>8, <1>11, <1>12

(* The loop of the end handler is over.                                    *)
LEMMA EndMoved ==
    ASSUME WireOK, TasksOK, NEW t \in 1 .. Len(tasks), Runnable(t),
           NEW last \in Calls \cup {TextBlock}, NEW deny, NEW x,
           ~(tasks[t].at <= tasks[t].hi),
           {c \in inFlight : c > last} = {}, Iterate(t, last, deny, x),
           UNCHANGED <<conf, wire, up, accs, closed>>
    PROVE  /\ inFlight' = {} /\ out' = out \o x
           /\ tasks'[t].call = TextBlock /\ tasks'[t].ev = 2 /\ tasks'[t].eof
           /\ tasks'[t].at > tasks'[t].hi /\ tasks'[t].at = tasks[t].at /\ tasks'[t].hi = tasks[t].hi
           /\ tasks'[t].eof = tasks[t].eof
           /\ TasksOK' /\ Len(tasks') = Len(tasks)
           /\ \A s \in 1 .. Len(tasks) : s # t => tasks'[s] = tasks[s]
           /\ \A n \in 1 .. Len(wire) : /\ Touched(n) <=> Touched(n)'
                                       /\ \A i \in Nat : Passed(n, i) <=> Passed(n, i)'
<1>1. WireOK /\ TasksOK
  OBVIOUS
<1>2. AfterEnd(t, x)
  BY DEF Iterate
<1>3. /\ inFlight' = {} /\ out' = out \o x
      /\ tasks' = [tasks EXCEPT ![t].new = FALSE, ![t].call = TextBlock, ![t].ev = 2]
  BY <1>1, <1>2 DEF AfterEnd, WireOK
<1>4. IsSeq(tasks) /\ TaskType(t) /\ ~tasks[t].over /\ DOMAIN tasks = 1 .. Len(tasks) /\ t \in Nat \ {0} /\ Len(wire) \in Nat
  BY <1>1, Only, SeqDomain, Lengths DEF TasksOK
<1>5. PICK k : k = [tasks[t] EXCEPT !.new = FALSE, !.call = TextBlock, !.ev = 2]
  OBVIOUS
<1>6. tasks' = [tasks EXCEPT ![t] = k]
  BY <1>3, <1>4, <1>5
<1>7. /\ k = [f \in TaskFields |-> k[f]] /\ k.hi = tasks[t].hi /\ k.eof = tasks[t].eof /\ k.at = tasks[t].at
      /\ k.ev = 2 /\ k.call = TextBlock /\ k.over = tasks[t].over
  <2>1. tasks[t] = [f \in TaskFields |-> tasks[t][f]]
    BY <1>4 DEF TaskType
  <2> QED BY <1>5, <2>1 DEF TaskFields
<1>8. k.over = FALSE /\ k.eof /\ k.at > k.hi
  <2>1. tasks[t].over = FALSE /\ tasks[t].eof
    BY <1>4 DEF TaskType
  <2>2. tasks[t].at > tasks[t].hi
    <3>1. tasks[t].at \in {t, t + 1} /\ tasks[t].hi \in {t - 1, t}
      BY <1>4, <2>1 DEF TaskType
    <3>2. tasks[t].at \in Int /\ tasks[t].hi \in Int
      BY <1>4, <3>1
    <3> QED BY <3>2
  <2> QED BY <1>7, <2>1, <2>2
<1>9. /\ TasksOK' /\ Len(tasks') = Len(tasks) /\ tasks'[t] = k
      /\ \A s \in 1 .. Len(tasks) : s # t => tasks'[s] = tasks[s]
      /\ \A n \in 1 .. Len(wire) : /\ Touched(n) <=> Touched(n)'
                                  /\ \A i \in Nat : Passed(n, i) <=> Passed(n, i)'
  <2>1. k.over \in BOOLEAN /\ (k.over => k.eof /\ k.at > k.hi /\ k.ev = 2) /\ k.call \in Calls \cup {TextBlock}
    BY <1>7, <1>8
  <2>2. k.call # TextBlock => /\ ~k.over /\ k.call \in inFlight'
                              /\ k.at <= k.hi => Events(provider, wire, t)[k.ev].kind = "finish"
    BY <1>7
  <2>3. closed' = closed /\ UNCHANGED <<conf, wire, up>>
    OBVIOUS
  <2> QED BY <1>1, <1>6, <1>7, <1>8, <2>1, <2>2, <2>3, Stays
<1> QED BY <1>3, <1>7, <1>8, <1>9

-----------------------------------------------------------------------------
(* What a loop knows when it goes on from the call last: everything about   *)
(* calls has been passed, the calls up to last are answered, and with x the *)
(* stream is given what these answers let through.                          *)
Settling(t, last, deny, x) ==
    /\ up.phase # "body" /\ AllPast /\ VerdictsOK' /\ IsSeq(out) /\ IsSeq(x)
    /\ \A c \in inFlight : Answered(c)' <=> c <= last
    /\ tasks[t].at <= tasks[t].hi => (Denied' <=> syntheticTerminalEmitted = TRUE \/ deny = TRUE)
    /\ \A n \in 1 .. Len(wire) :
          Count(out \o x, n) = IF Carries(n) THEN Cardinality({c \in CallsIn(n) : Sanctioned(c)'})
                               ELSE IF ~Passed(n, 1) \/ (Finishes(n) /\ Denied') THEN 0 ELSE 1

(* Nothing but the events already passed is passed. *)
LEMMA PastKept ==
    ASSUME WireOK, UNCHANGED <<conf, wire, up>>,
           \A n \in 1 .. Len(wire) : \A i \in Nat : Passed(n, i) <=> Passed(n, i)'
    PROVE  /\ \A n \in 1 .. Len(wire) : \A d : Given(n, d)' <=> Given(n, d)
           /\ AllPast' <=> AllPast
           /\ Finished' <=> Finished
<1>1. wire' = wire
  OBVIOUS
<1>2. \A n : Evs(n)' = Evs(n) /\ \A i, c : About(provider, wire, n, i, c)' <=> About(provider, wire, n, i, c)
  BY EvsKept
<1>3. \A n \in 1 .. Len(wire) : \A i \in 1 .. Len(Evs(n)) : Passed(n, i) <=> Passed(n, i)'
  <2>1. \A n \in 1 .. Len(wire) : \A i \in 1 .. Len(Evs(n)) : i \in Nat
    BY EventsAre DEF Evs
  <2> QED BY <2>1
<1>4. ASSUME NEW n \in 1 .. Len(wire), NEW d PROVE Given(n, d)' <=> Given(n, d)
  <2>1. Given(n, d)' <=> \E i \in 1 .. Len(Evs(n)) : Passed(n, i)' /\ About(provider, wire, n, i, d)
    BY <1>2 DEF Given
  <2> QED BY <1>3, <2>1 DEF Given
<1>5. AllPast' <=> AllPast
  <2>1. AllPast' <=> \A n \in 1 .. Len(wire) : \A i \in 1 .. Len(Evs(n)) :
                         Evs(n)[i].kind \in CallKinds => Passed(n, i)'
    BY <1>1, <1>2 DEF AllPast
  <2> QED BY <1>3, <2>1 DEF AllPast
<1>6. Finished' <=> Finished
  <2>1. Finished' <=> \E n \in 1 .. Len(wire) : \E i \in 1 .. Len(Evs(n)) :
                          Passed(n, i)' /\ Evs(n)[i].kind = "finish"
    BY <1>1, <1>2 DEF Finished
  <2> QED BY <1>3, <2>1 DEF Finished
<1> QED BY <1>4, <1>5, <1>6

LEMMA HeldKept ==
    ASSUME HeldOK, UNCHANGED <<wire, accs>>,
           \A n \in 1 .. Len(wire) : \A d : Given(n, d)' <=> Given(n, d)
    PROVE  HeldOK'
<1>1. wire' = wire /\ accs' = accs
  OBVIOUS
<1>2. \A d \in Calls : \A n \in 1 .. Len(wire') :
          (\E i \in 1 .. Len(accs'[d].frames) : accs'[d].frames[i] = n) <=> Given(n, d)'
  BY <1>1 DEF HeldOK
<1>3. \A d \in Calls : \A i, j \in 1 .. Len(accs'[d].frames) :
          accs'[d].frames[i] = accs'[d].frames[j] => i = j
  BY <1>1 DEF HeldOK
<1> QED BY <1>2, <1>3 DEF HeldOK

(* The count of the frames, from what it is in terms of the new answers. *)
LEMMA CountThen ==
    ASSUME UNCHANGED <<conf, wire>>, NEW o, o = out',
           \A n \in 1 .. Len(wire) :
               Count(o, n) = IF Carries(n) THEN Cardinality({c \in CallsIn(n) : Sanctioned(c)'})
                             ELSE IF ~Passed(n, 1)' \/ (Finishes(n) /\ Denied') THEN 0 ELSE 1
    PROVE  CountOK'
<1>1. wire' = wire
  OBVIOUS
<1>2. ASSUME NEW n \in 1 .. Len(wire')
      PROVE  Count(out', n) = IF Carries(n)' THEN Cardinality({c \in CallsIn(n)' : Sanctioned(c)'})
                              ELSE IF ~Passed(n, 1)' \/ (Finishes(n)' /\ Denied') THEN 0 ELSE 1
  <2>1. (Carries(n)' <=> Carries(n)) /\ CallsIn(n)' = CallsIn(n) /\ (Finishes(n)' <=> Finishes(n))
    BY EvsKept
  <2> QED BY <1>1, <2>1
<1> QED BY <1>2 DEF CountOK, Count, Emitted

LEMMA AwaitAccounted ==
    ASSUME StreamInv, AccountInv, NEW t \in 1 .. Len(tasks), Runnable(t),
           NEW last \in Calls \cup {TextBlock}, NEW deny, NEW x,
           tasks[t].at <= tasks[t].hi => CurrentEvent(t).kind = "finish",
           {c \in inFlight : c > last} # {}, Iterate(t, last, deny, x), Settling(t, last, deny, x),
           UNCHANGED <<conf, wire, up, accs, closed>>
    PROVE  AccountInv'
<1>1. WireOK /\ TasksOK /\ AccsOK /\ OrderOK /\ HeldOK /\ DrainedOK
  BY DEF StreamInv, AccountInv
<1>2. PICK d : d = tasks'[t].call
  OBVIOUS
<1>3. /\ d \in inFlight /\ d \in Calls /\ \A c \in inFlight : c <= last => c < d
      /\ out' = out \o x /\ UNCHANGED <<inFlight, syntheticTerminalEmitted>>
      /\ tasks'[t].deny = deny /\ tasks'[t].at = tasks[t].at /\ tasks'[t].hi = tasks[t].hi
      /\ tasks'[t].eof = tasks[t].eof
      /\ Len(tasks') = Len(tasks) /\ \A s \in 1 .. Len(tasks) : s # t => tasks'[s] = tasks[s]
      /\ \A n \in 1 .. Len(wire) : \A i \in Nat : Passed(n, i) <=> Passed(n, i)'
  BY <1>1, <1>2, AwaitMoved
<1>4. d # TextBlock
  BY <1>3, WireAssumption DEF Calls, TextBlock
<1>5. \A s \in 1 .. Len(tasks) : s # t => tasks'[s].call = TextBlock
  BY <1>1, <1>3, Only
<1>6. /\ \A n \in 1 .. Len(wire) : \A c : Given(n, c)' <=> Given(n, c)
      /\ AllPast' <=> AllPast
      /\ Finished' <=> Finished
  <2>1. UNCHANGED <<conf, wire, up>>
    OBVIOUS
  <2> QED BY <1>1, <1>3, <2>1, PastKept
<1>7. OrderOK' /\ HeldOK' /\ DrainedOK'
  BY <1>1, <1>3, <1>6, OrderKept, HeldKept DEF DrainedOK
<1>8. SettlingOK' /\ VerdictsOK'
  BY <1>6 DEF Settling, SettlingOK
<1>9. VisitedOK'
  <2>1. Looping'
    BY <1>2, <1>3, <1>4 DEF Looping, InLoop
  <2>2. \A c \in inFlight : Answered(c)' => c < d
    BY <1>3 DEF Settling
  <2>3. \A s \in 1 .. Len(tasks) : tasks'[s].call # TextBlock => \A c \in inFlight : Answered(c)' => c < tasks'[s].call
    BY <1>2, <1>5, <2>2
  <2> QED BY <1>3, <2>1, <2>3 DEF VisitedOK, InLoop
<1>10. DenialOK'
  <2>1. CASE tasks[t].at <= tasks[t].hi
    <3>1. Denied' <=> syntheticTerminalEmitted = TRUE \/ deny = TRUE
      BY <2>1 DEF Settling
    <3>2. (\E s \in 1 .. Len(tasks') : tasks'[s].call # TextBlock /\ tasks'[s].deny = TRUE) <=> deny = TRUE
      BY <1>2, <1>3, <1>4, <1>5
    <3> QED BY <1>3, <3>1, <3>2 DEF DenialOK, InLoop
  <2>2. CASE ~(tasks[t].at <= tasks[t].hi)
    <3>1. /\ tasks[t].eof /\ tasks[t].at > tasks[t].hi
      <4>1. TaskType(t) /\ t \in Nat \ {0} /\ ~tasks[t].over /\ Len(wire) \in Nat
        BY <1>1, Only, Lengths DEF TasksOK
      <4>2. tasks[t].eof
        BY <2>2, <4>1 DEF TaskType
      <4>3. tasks[t].at \in {t, t + 1} /\ tasks[t].hi \in {t - 1, t}
        BY <4>1, <4>2 DEF TaskType
      <4>4. tasks[t].at \in Int /\ tasks[t].hi \in Int
        BY <4>1, <4>3
      <4> QED BY <2>2, <4>2, <4>4
    <3>2. EndReached'
      BY <1>2, <1>3, <1>4, <3>1 DEF EndReached, InLoop
    <3> QED BY <3>2 DEF DenialOK
  <2> QED BY <2>1, <2>2
<1>11. CountOK'
  <2>1. PICK o : o = out'
    OBVIOUS
  <2>2. \A n \in 1 .. Len(wire) : Passed(n, 1)' <=> Passed(n, 1)
    BY <1>3
  <2>3. \A n \in 1 .. Len(wire) :
            Count(o, n) = IF Carries(n) THEN Cardinality({c \in CallsIn(n) : Sanctioned(c)'})
                          ELSE IF ~Passed(n, 1)' \/ (Finishes(n) /\ Denied') THEN 0 ELSE 1
    BY <1>3, <2>1, <2>2 DEF Settling
  <2>4. UNCHANGED <<conf, wire>>
    OBVIOUS
  <2> QED BY <2>1, <2>3, <2>4, CountThen
<1> QED BY <1>7, <1>8, <1>9, <1>10, <1>11 DEF AccountInv

LEMMA EndAccounted ==
    ASSUME StreamInv, AccountInv, NEW t \in 1 .. Len(tasks), Runnable(t),
           NEW last \in Calls \cup {TextBlock}, NEW deny, NEW x,
           ~(tasks[t].at <= tasks[t].hi),
           {c \in inFlight : c > last} = {}, Iterate(t, last, deny, x), Settling(t, last, deny, x),
           UNCHANGED <<conf, wire, up, accs, closed>>
    PROVE  AccountInv'
<1>1. WireOK /\ TasksOK /\ AccsOK /\ OrderOK /\ HeldOK /\ DrainedOK
  BY DEF StreamInv, AccountInv
<1>2. /\ inFlight' = {} /\ out' = out \o x
      /\ tasks'[t].call = TextBlock /\ tasks'[t].ev = 2 /\ tasks'[t].eof /\ tasks'[t].at > tasks'[t].hi
      /\ Len(tasks') = Len(tasks) /\ \A s \in 1 .. Len(tasks) : s # t => tasks'[s] = tasks[s]
      /\ \A n \in 1 .. Len(wire) : \A i \in Nat : Passed(n, i) <=> Passed(n, i)'
  BY <1>1, EndMoved
<1>3. \A s \in 1 .. Len(tasks) : tasks'[s].call = TextBlock
  BY <1>1, <1>2, Only
<1>4. /\ \A n \in 1 .. Len(wire) : \A c : Given(n, c)' <=> Given(n, c)
      /\ AllPast' <=> AllPast
  <2>1. UNCHANGED <<conf, wire, up>>
    OBVIOUS
  <2> QED BY <1>1, <1>2, <2>1, PastKept
<1>5. OrderOK' /\ HeldOK' /\ DrainedOK' /\ VisitedOK'
  <2>1. ~Looping'
    BY <1>2, <1>3 DEF Looping, InLoop
  <2> QED BY <1>1, <1>2, <1>4, <2>1, OrderKept, HeldKept DEF DrainedOK, VisitedOK
<1>6. SettlingOK' /\ VerdictsOK'
  BY <1>4 DEF Settling, SettlingOK
<1>7. DenialOK'
  <2>1. EndReached'
    BY <1>2 DEF EndReached
  <2> QED BY <2>1 DEF DenialOK
<1>8. CountOK'
  <2>1. PICK o : o = out'
    OBVIOUS
  <2>2. \A n \in 1 .. Len(wire) : Passed(n, 1)' <=> Passed(n, 1)
    BY <1>2
  <2>3. \A n \in 1 .. Len(wire) :
            Count(o, n) = IF Carries(n) THEN Cardinality({c \in CallsIn(n) : Sanctioned(c)'})
                          ELSE IF ~Passed(n, 1)' \/ (Finishes(n) /\ Denied') THEN 0 ELSE 1
    BY <1>2, <2>1, <2>2 DEF Settling
  <2>4. UNCHANGED <<conf, wire>>
    OBVIOUS
  <2> QED BY <2>1, <2>3, <2>4, CountThen
<1> QED BY <1>5, <1>6, <1>7, <1>8 DEF AccountInv

-----------------------------------------------------------------------------
(* A loop over the calls in flight ends, or goes on to the next one.       *)
LEMMA LoopAccounted ==
    ASSUME StreamInv, AccountInv, NEW t \in 1 .. Len(tasks), Runnable(t),
           NEW last \in Calls \cup {TextBlock}, NEW deny, NEW x,
           tasks[t].at <= tasks[t].hi, CurrentEvent(t).kind = "finish",
           {c \in inFlight : c > last} = {}, Iterate(t, last, deny, x), Settling(t, last, deny, x),
           UNCHANGED <<conf, wire, up, accs, closed>>
    PROVE  AccountInv'
<1>0. PICK r : r = CurrentEvent(t).rawFrame
  OBVIOUS
<1>1. WireOK /\ TasksOK /\ AccsOK /\ OrderOK /\ HeldOK
  BY DEF StreamInv, AccountInv
<1>2. /\ inFlight' = {} /\ tasks' = [tasks EXCEPT ![t] = Advanced(t)]
      /\ syntheticTerminalEmitted' = (syntheticTerminalEmitted \/ deny)
      /\ out' = out \o x \o (IF deny \/ syntheticTerminalEmitted THEN <<>> ELSE Raw(r))
  BY <1>0 DEF Iterate, AfterLoop
<1>3. /\ t \in 1 .. Len(wire) /\ tasks[t].ev \in 1 .. Len(Evs(t)) /\ CurrentEvent(t) = Evs(t)[tasks[t].ev]
  BY <1>1, PassedAt
<1>4. /\ ~Passed(t, tasks[t].ev)
      /\ \A n \in 1 .. Len(wire) : \A i \in 1 .. Len(Evs(n)) :
            Passed(n, i)' <=> Passed(n, i) \/ (n = t /\ i = tasks[t].ev)
  BY <1>1, <1>2, PassedNow
<1>5. ~Looping'
  BY <1>1, <1>2, LoopLeft
<1>6. wire' = wire /\ \A n : Evs(n)' = Evs(n)
  BY EvsKept
<1>7. ASSUME NEW n \in 1 .. Len(wire), NEW d PROVE Given(n, d)' <=> Given(n, d)
  <2>1. \A i : About(provider, wire, n, i, d)' <=> About(provider, wire, n, i, d)
    BY EvsKept
  <2>2. Given(n, d)' <=> \E i \in 1 .. Len(Evs(n)) : Passed(n, i)' /\ About(provider, wire, n, i, d)
    BY <1>6, <2>1 DEF Given
  <2>3. ~About(provider, wire, t, tasks[t].ev, d)
    BY <1>3 DEF About, Evs, CallKinds
  <2> QED BY <1>3, <1>4, <2>2, <2>3 DEF Given
<1>8. AllPast'
  <2>1. \A n \in 1 .. Len(wire) : \A i \in 1 .. Len(Evs(n)) : Evs(n)[i].kind \in CallKinds => Passed(n, i)'
    BY <1>4 DEF Settling, AllPast
  <2> QED BY <1>6, <2>1 DEF AllPast
<1>9. OrderOK' /\ HeldOK' /\ DrainedOK' /\ VisitedOK' /\ VerdictsOK' /\ SettlingOK'
  BY <1>1, <1>2, <1>5, <1>7, <1>8, OrderKept, HeldKept DEF DrainedOK, VisitedOK, Looping, Settling, SettlingOK
<1>10. DenialOK'
  <2>1. ~(\E s \in 1 .. Len(tasks) : InLoop(s) /\ tasks[s].deny = TRUE)'
    BY <1>5 DEF Looping
  <2>2. Denied' <=> syntheticTerminalEmitted = TRUE \/ deny = TRUE
    BY DEF Settling
  <2> QED BY <1>2, <2>1, <2>2 DEF DenialOK
<1>11. CountOK'
  <2>1. PICK z : z = IF deny \/ syntheticTerminalEmitted THEN <<>> ELSE Raw(r)
    OBVIOUS
  <2>2. PICK y : y = out \o x
    OBVIOUS
  <2>3. PICK o : o = out'
    OBVIOUS
  <2>4. o = y \o z /\ IsSeq(y) /\ IsSeq(z)
    <3>1. IsSeq(y)
      BY <2>2, ConcatSeq DEF Settling
    <3> QED BY <1>2, <2>1, <2>2, <2>3, <3>1, NoSeq, OneSeq DEF Raw
  <2>5. /\ StandsFor(provider, wire, t) /\ EventOK(provider, wire, t, tasks[t].ev) /\ t # EMPTY_FRAME
    BY <1>1, <1>3, Stands
  <2>6. r = EMPTY_FRAME \/ (r = t /\ tasks[t].ev = 1 /\ ~Carries(t))
    BY <1>0, <1>3, <2>5 DEF EventOK, PassKinds, Carries, CarriesIn, Evs
  <2>7. r = EMPTY_FRAME /\ ~Carries(t) => tasks[t].ev # 1
    BY <1>0, <1>3, <2>5 DEF StandsFor, Carries, CarriesIn, Evs
  <2>8. ASSUME NEW n \in 1 .. Len(wire)
        PROVE  /\ Count(o, n) = Count(y, n) + Count(z, n) /\ Count(y, n) \in Nat
               /\ Count(z, n) = IF ~(deny \/ syntheticTerminalEmitted) /\ r = n /\ n # EMPTY_FRAME THEN 1 ELSE 0
    <3>1. Count(o, n) = Count(y, n) + Count(z, n) /\ Count(y, n) \in Nat
      BY <2>4, CountConcat, EmittedFinite
    <3>2. CASE deny \/ syntheticTerminalEmitted
      BY <2>1, <3>1, <3>2, CountEmpty
    <3>3. CASE ~(deny \/ syntheticTerminalEmitted)
      BY <2>1, <3>1, <3>3, CountRaw
    <3> QED BY <3>2, <3>3
  <2>9. ASSUME NEW n \in 1 .. Len(wire)
        PROVE  Count(o, n) = IF Carries(n) THEN Cardinality({c \in CallsIn(n) : Sanctioned(c)'})
                             ELSE IF ~Passed(n, 1)' \/ (Finishes(n) /\ Denied') THEN 0 ELSE 1
    <3>1. Count(y, n) = IF Carries(n) THEN Cardinality({c \in CallsIn(n) : Sanctioned(c)'})
                        ELSE IF ~Passed(n, 1) \/ (Finishes(n) /\ Denied') THEN 0 ELSE 1
      BY <2>2 DEF Settling
    <3>2. 1 \in 1 .. Len(Evs(n)) /\ n # EMPTY_FRAME
      BY <1>1, Stands
    <3>3. Denied' <=> deny \/ syntheticTerminalEmitted
      BY DEF Settling
    <3>4. CASE r = n
      <4>1. n = t /\ ~Carries(n) /\ ~Passed(n, 1) /\ Passed(n, 1)' /\ tasks[t].ev = 1
        BY <1>4, <2>5, <2>6, <3>2, <3>4
      <4>2. Finishes(n)
        BY <1>0, <1>1, <1>3, <3>4, <4>1, FinishesFirst
      <4> QED BY <2>8, <3>1, <3>2, <3>3, <3>4, <4>1, <4>2
    <3>5. CASE r # n
      <4>1. ~Carries(n) => (Passed(n, 1)' <=> Passed(n, 1))
        BY <1>4, <2>6, <2>7, <3>2, <3>5
      <4> QED BY <2>8, <3>1, <3>5, <4>1
    <3> QED BY <3>4, <3>5
  <2>10. UNCHANGED <<conf, wire>>
    OBVIOUS
  <2> QED BY <2>3, <2>9, <2>10, CountThen
<1> QED BY <1>9, <1>10, <1>11 DEF AccountInv

LEMMA IterateAccounted ==
    ASSUME StreamInv, AccountInv, NEW t \in 1 .. Len(tasks), Runnable(t),
           NEW last \in Calls \cup {TextBlock}, NEW deny, NEW x,
           tasks[t].at <= tasks[t].hi => CurrentEvent(t).kind = "finish",
           Iterate(t, last, deny, x), Settling(t, last, deny, x),
           UNCHANGED <<conf, wire, up, accs, closed>>
    PROVE  AccountInv'
<1>1. CASE {c \in inFlight : c > last} # {}
  BY <1>1, AwaitAccounted
<1>2. CASE {c \in inFlight : c > last} = {} /\ tasks[t].at <= tasks[t].hi
  BY <1>2, LoopAccounted
<1>3. CASE {c \in inFlight : c > last} = {} /\ ~(tasks[t].at <= tasks[t].hi)
  BY <1>3, EndAccounted
<1> QED BY <1>1, <1>2, <1>3

(* A loop begins: at a finish event, and at the end of the stream,         *)
(* everything about calls has been passed.                                 *)
LEMMA AllPastAtFinish ==
    ASSUME WireOK, TasksOK, OrderOK, NEW t \in 1 .. Len(tasks), Runnable(t), tasks[t].at <= tasks[t].hi,
           CurrentEvent(t).kind = "finish"
    PROVE  up.phase # "body" /\ AllPast
<1>1. /\ t \in 1 .. Len(wire) /\ tasks[t].ev \in 1 .. Len(Evs(t)) /\ CurrentEvent(t) = Evs(t)[tasks[t].ev]
      /\ \A m \in 1 .. Len(wire) : \A j \in 1 .. Len(Evs(m)) :
            Passed(m, j) <=> m < t \/ (m = t /\ j < tasks[t].ev)
  BY PassedAt
<1>2. Closing(wire[t]) /\ tasks[t].ev = Len(Evs(t)) /\ t \in Nat \ {0}
  <2>1. StandsFor(provider, wire, t) /\ t \in Nat \ {0}
    BY <1>1, Stands
  <2> QED BY <1>1, <2>1 DEF StandsFor, Evs
<1>3. ASSUME NEW n \in 1 .. Len(wire), NEW i \in 1 .. Len(Evs(n)), Evs(n)[i].kind \in CallKinds
      PROVE  Passed(n, i)
  <2>1. StandsFor(provider, wire, n) /\ n \in Nat \ {0} /\ i \in Nat \ {0} /\ Len(Evs(n)) \in Nat \ {0}
    BY <1>1, Stands
  <2>2. wire[n].calls # <<>>
    BY <1>3, <2>1 DEF StandsFor, Evs
  <2>3. ~(t < n)
    BY <1>1, <1>2, <2>2 DEF OrderOK
  <2>4. CASE n = t
    <3>1. i # tasks[t].ev
      BY <1>1, <1>3, <2>4 DEF CallKinds
    <3> QED BY <1>1, <1>2, <2>1, <2>4, <3>1
  <2> QED BY <1>1, <1>2, <2>1, <2>3, <2>4
<1> QED BY <1>1, <1>2, <1>3 DEF OrderOK, AllPast

LEMMA AllPastAtEnd ==
    ASSUME WireOK, TasksOK, NEW t \in 1 .. Len(tasks), Runnable(t), tasks[t].eof, tasks[t].at > tasks[t].hi
    PROVE  up.phase # "body" /\ \A n \in 1 .. Len(wire) : \A i : Passed(n, i)
<1>1. TaskType(t) /\ t \in Nat \ {0} /\ Len(wire) \in Nat
  BY Only, Lengths DEF TasksOK
<1>2. /\ tasks[t].at \in {t, t + 1} /\ tasks[t].hi = Len(wire) /\ tasks[t].hi \in {t - 1, t}
      /\ up.phase = "ended" /\ tasks[t].at > tasks[t].hi
  BY <1>1 DEF TaskType
<1>3. ASSUME NEW n \in 1 .. Len(wire) PROVE tasks[n].at > n
  <2>1. n \in 1 .. Len(tasks) /\ n \in Nat \ {0}
    BY Lengths
  <2>2. CASE n < t
    BY <2>1, <2>2, Only
  <2>3. CASE ~(n < t)
    <3>1. n = t /\ tasks[t].hi = t
      BY <1>1, <1>2, <2>1, <2>3
    <3> QED BY <1>1, <1>2, <3>1
  <2> QED BY <2>2, <2>3
<1> QED BY <1>2, <1>3 DEF Passed

LEMMA NoLoop ==
    ASSUME WireOK, TasksOK, NEW t \in 1 .. Len(tasks), Runnable(t), tasks[t].call = TextBlock
    PROVE  ~Looping
BY Only DEF Looping, InLoop

LEMMA FinishAccounted ==
    ASSUME StreamInv, AccountInv, NEW t \in 1 .. Len(tasks), OnFinish(t) \/ OnEnd(t) PROVE AccountInv'
<1>0. PICK x, d : x = <<>> /\ d = FALSE
  OBVIOUS
<1>1. WireOK /\ TasksOK /\ AccsOK /\ OutOK /\ OrderOK /\ VerdictsOK /\ VisitedOK /\ DenialOK /\ CountOK
  BY DEF StreamInv, AccountInv
<1>2. /\ Runnable(t) /\ tasks[t].call = TextBlock /\ Iterate(t, TextBlock, d, x)
      /\ UNCHANGED <<conf, wire, up, accs, closed>> /\ UNCHANGED <<conf, answers>>
  BY <1>0 DEF OnFinish, OnEnd, AtEvent, AtEnd
<1>3. up.phase # "body" /\ AllPast /\ (tasks[t].at <= tasks[t].hi => CurrentEvent(t).kind = "finish")
  <2>1. CASE OnFinish(t)
    <3>1. tasks[t].at <= tasks[t].hi /\ CurrentEvent(t).kind = "finish"
      BY <2>1 DEF OnFinish, AtEvent
    <3> QED BY <1>1, <1>2, <3>1, AllPastAtFinish
  <2>2. CASE OnEnd(t)
    <3>1. tasks[t].eof /\ tasks[t].at > tasks[t].hi
      BY <2>2 DEF OnEnd, AtEnd
    <3>2. up.phase # "body" /\ AllPast
      BY <1>1, <1>2, <3>1, AllPastAtEnd DEF AllPast
    <3>3. ~(tasks[t].at <= tasks[t].hi)
      <4>1. TaskType(t) /\ t \in Nat \ {0}
        BY <1>1, <1>2, Only DEF TasksOK
      <4>2. tasks[t].at \in {t, t + 1} /\ tasks[t].hi \in {t - 1, t}
        BY <3>1, <4>1 DEF TaskType
      <4>3. tasks[t].at \in Int /\ tasks[t].hi \in Int
        BY <4>1, <4>2
      <4> QED BY <3>1, <4>3
    <3> QED BY <3>2, <3>3
  <2> QED BY <2>1, <2>2
<1>4. ~Looping
  BY <1>1, <1>2, NoLoop
<1>5. (\A c : (Answered(c)' <=> Answered(c)) /\ (Sanctioned(c)' <=> Sanctioned(c))) /\ (Denied' <=> Denied) /\ VerdictsOK'
  BY <1>1, <1>2, HistoryKept
<1>6. IsSeq(out) /\ IsSeq(x)
  BY <1>0, <1>1, NoSeq DEF OutOK, OutIs
<1>7. \A c \in inFlight : Answered(c)' <=> c <= TextBlock
  <2>1. \A c \in inFlight : ~Answered(c)
    BY <1>1, <1>4 DEF VisitedOK
  <2>2. \A c \in inFlight : ~(c <= TextBlock)
    <3>1. inFlight \subseteq Calls
      BY <1>1 DEF AccsOK
    <3> QED BY <3>1, WireAssumption DEF Calls, TextBlock
  <2> QED BY <1>5, <2>1, <2>2
<1>8. tasks[t].at <= tasks[t].hi => (Denied' <=> syntheticTerminalEmitted = TRUE \/ d = TRUE)
  <2>1. ASSUME tasks[t].at <= tasks[t].hi PROVE ~EndReached
    BY <1>1, <1>2, <2>1, PassedAt
  <2>2. ~\E s \in 1 .. Len(tasks) : InLoop(s)
    BY <1>4 DEF Looping
  <2> QED BY <1>0, <1>1, <1>5, <2>1, <2>2 DEF DenialOK
<1>9. ASSUME NEW n \in 1 .. Len(wire)
      PROVE  Count(out \o x, n) = IF Carries(n) THEN Cardinality({c \in CallsIn(n) : Sanctioned(c)'})
                                  ELSE IF ~Passed(n, 1) \/ (Finishes(n) /\ Denied') THEN 0 ELSE 1
  <2>1. Count(out \o x, n) = Count(out, n) + Count(x, n) /\ Count(out, n) \in Nat
    BY <1>6, CountConcat, EmittedFinite
  <2>2. Count(x, n) = 0
    BY <1>0, CountEmpty
  <2>3. {c \in CallsIn(n) : Sanctioned(c)'} = {c \in CallsIn(n) : Sanctioned(c)}
    BY <1>5
  <2>4. Count(out, n) = IF Carries(n) THEN Cardinality({c \in CallsIn(n) : Sanctioned(c)})
                        ELSE IF ~Passed(n, 1) \/ (Finishes(n) /\ Denied) THEN 0 ELSE 1
    BY <1>1 DEF CountOK
  <2>5. Count(out \o x, n) = Count(out, n)
    BY <2>1, <2>2
  <2> QED BY <1>5, <2>3, <2>4, <2>5
<1>10. Settling(t, TextBlock, d, x)
  BY <1>3, <1>5, <1>6, <1>7, <1>8, <1>9 DEF Settling
<1> QED BY <1>2, <1>3, <1>10, IterateAccounted

-----------------------------------------------------------------------------
(* A frame carries finitely many calls. *)
LEMMA CallsFinite ==
    ASSUME WireOK, NEW n \in 1 .. Len(wire)
    PROVE  IsFiniteSet(CallsIn(n)) /\ CallsIn(n) \subseteq Calls
<1>1. FrameOK(provider, wire, n)
  BY DEF WireOK
<1>2. wire[n].calls \in Seq(Calls)
  BY <1>1 DEF FrameOK
<1>3. CallsIn(n) \subseteq Calls
  BY <1>2 DEF CallsIn
<1>4. IsFiniteSet(Calls)
  <2>1. 0 \in Int /\ MaxCalls - 1 \in Int
    BY WireAssumption
  <2> QED BY <2>1, FS_Interval DEF Calls
<1> QED BY <1>3, <1>4, FS_Subset

(* What replaces a denied call has no frame of the upstream. *)
LEMMA NoticeIs ==
    ASSUME NEW c, NEW d, d # "allow"
    PROVE  IsSeq(FlushTool(c, d)) /\ \A i \in 1 .. Len(FlushTool(c, d)) : FlushTool(c, d)[i].kind # "raw"
<1> DEFINE x == FlushTool(c, d)
           y == Mark("notice", c)
           z == IF provider \in {"anthropic", "bedrock-invoke"} THEN <<>> ELSE Mark("terminal", c)
<1>1. x = y \o z
  BY DEF FlushTool
<1>2. IsSeq(y) /\ \A i \in 1 .. Len(y) : y[i].kind # "raw"
  BY MarkIs
<1>3. IsSeq(z) /\ \A i \in 1 .. Len(z) : z[i].kind # "raw"
  <2>1. CASE provider \in {"anthropic", "bedrock-invoke"}
    <3>1. z = <<>> /\ ~\E i \in 1 .. Len(<<>>) : TRUE
      BY <2>1, NoSeq
    <3> QED BY <3>1, NoSeq
  <2>2. CASE provider \notin {"anthropic", "bedrock-invoke"}
    <3>1. z = Mark("terminal", c)
      BY <2>2
    <3> QED BY <3>1, MarkIs
  <2> QED BY <2>1, <2>2
<1> HIDE DEF x, y, z
<1>4. IsSeq(x)
  BY <1>1, <1>2, <1>3, ConcatSeq
<1>5. ASSUME NEW i \in 1 .. Len(x) PROVE x[i].kind # "raw"
  <2>1. (i \in 1 .. Len(y) /\ x[i] = y[i]) \/ \E j \in 1 .. Len(z) : i = Len(y) + j /\ x[i] = z[j]
    BY <1>1, <1>2, <1>3, ConcatCases
  <2> QED BY <1>2, <1>3, <2>1
<1> QED BY <1>4, <1>5 DEF x

(* Once everything about calls has been passed, an allowed call comes with *)
(* every frame that carries it, once.                                      *)
LEMMA FlushCount ==
    ASSUME WireOK, AccsOK, OrderOK, HeldOK, AllPast, NEW c \in Calls, NEW x, x = FlushTool(c, "allow")
    PROVE  /\ IsSeq(x)
           /\ \A n \in 1 .. Len(wire) : Count(x, n) = IF Carries(n) /\ c \in CallsIn(n) THEN 1 ELSE 0
<1>1. PICK s : s = accs[c].frames
  OBVIOUS
<1>2. FramesOK(c, s)
  BY <1>1 DEF AccsOK
<1>3. IsSeq(s) /\ Len(s) \in Nat
  BY <1>2, LenNat DEF FramesOK
<1>4. x = [i \in 1 .. Len(s) |-> [kind |-> "raw", id |-> s[i]]]
  BY <1>1 DEF FlushTool
<1>5. IsSeq(x) /\ Len(x) = Len(s) /\ \A i \in 1 .. Len(s) : x[i].kind = "raw" /\ x[i].id = s[i]
  BY <1>3, <1>4 DEF IsSeq
<1>6. ASSUME NEW n \in 1 .. Len(wire)
      PROVE  Count(x, n) = IF Carries(n) /\ c \in CallsIn(n) THEN 1 ELSE 0
  <2>1. (\E i \in 1 .. Len(s) : s[i] = n) <=> Given(n, c)
    BY <1>1 DEF HeldOK
  <2>2. Given(n, c) <=> \E i \in 1 .. Len(Evs(n)) : About(provider, wire, n, i, c)
    BY DEF Given, AllPast, About, Evs
  <2>3. (\E i \in 1 .. Len(s) : s[i] = n) <=> Carries(n) /\ c \in CallsIn(n)
    BY <2>1, <2>2, AboutCarries
  <2>4. CASE Carries(n) /\ c \in CallsIn(n)
    <3>1. PICK i \in 1 .. Len(s) : s[i] = n
      BY <2>3, <2>4
    <3>2. \A j \in 1 .. Len(s) : s[j] = n => j = i
      BY <1>1, <3>1 DEF HeldOK
    <3>3. Count(x, n) = 1
      BY <1>5, <3>1, <3>2, CountOnce
    <3> QED BY <2>4, <3>3
  <2>5. CASE ~(Carries(n) /\ c \in CallsIn(n))
    <3>1. \A i \in 1 .. Len(x) : x[i].kind = "raw" => x[i].id # n
      BY <1>5, <2>3, <2>5
    <3>2. Count(x, n) = 0
      BY <3>1, CountNone
    <3> QED BY <2>5, <3>2
  <2> QED BY <2>4, <2>5
<1> QED BY <1>5, <1>6

LEMMA AnswerAccounted ==
    ASSUME StreamInv, AccountInv, NEW t \in 1 .. Len(tasks), Answer(t) PROVE AccountInv'
<1>0. PICK c : c = tasks[t].call
  OBVIOUS
<1>1. /\ WireOK /\ TasksOK /\ AccsOK /\ OutOK /\ SettledOK /\ LoopsOK
      /\ OrderOK /\ HeldOK /\ VerdictsOK /\ SettlingOK /\ VisitedOK /\ DrainedOK /\ DenialOK /\ CountOK
  BY DEF StreamInv, GateOK, AccountInv
<1>2. Runnable(t) /\ c # TextBlock /\ UNCHANGED <<conf, wire, up, accs, closed>>
  BY <1>0 DEF Answer
<1>3. PICK v \in SafeEval(tasks[t].seen) :
        /\ answers' = Append(answers, [call |-> c, args |-> tasks[t].seen,
                                       outcome |-> v.outcome, decision |-> v.decision])
        /\ Iterate(t, c, tasks[t].deny \/ v.decision # "allow", FlushTool(c, v.decision))
  BY <1>0 DEF Answer
<1>4. PICK a : a = [call |-> c, args |-> tasks[t].seen, outcome |-> v.outcome, decision |-> v.decision]
  OBVIOUS
<1>5. PICK x, d : x = FlushTool(c, v.decision) /\ d = (tasks[t].deny \/ v.decision # "allow")
  OBVIOUS
<1>6. /\ c \in inFlight /\ c \in Calls
      /\ tasks[t].at <= tasks[t].hi => CurrentEvent(t).kind = "finish"
  <2>1. Turn(t)
    BY <1>1 DEF TasksOK
  <2>2. tasks[t].at <= tasks[t].hi => CurrentEvent(t) = Events(provider, wire, t)[tasks[t].ev]
    BY <1>1, <1>2, AtFrame
  <2> QED BY <1>0, <1>1, <1>2, <2>1, <2>2 DEF Turn, AccsOK
<1>7. InLoop(t) /\ Looping
  BY <1>0, <1>2 DEF InLoop, Looping
<1>8. up.phase # "body" /\ AllPast
  BY <1>1, <1>7 DEF SettlingOK
<1>9. a.call = c /\ a.decision = v.decision /\ a.decision \in {"allow", "deny"} /\ (a.decision = "allow" <=> Permits(a))
  <2>1. failMode \in {"allow", "deny"}
    BY <1>1 DEF WireOK
  <2>2. /\ a.call = c /\ a.decision = v.decision /\ a.args = tasks[t].seen /\ a.outcome = v.outcome
    BY <1>4
  <2>3. CASE tasks[t].seen # Whole
    BY <2>2, <2>3 DEF SafeEval, Permits
  <2>4. CASE tasks[t].seen = Whole
    BY <2>1, <2>2, <2>4 DEF SafeEval, Permits
  <2> QED BY <2>2, <2>3, <2>4
<1>10. IsSeq(answers) /\ DOMAIN answers = 1 .. Len(answers) /\ Len(answers) \in Nat
  <2>1. IsSeq(answers)
    BY <1>1 DEF SettledOK
  <2> QED BY <2>1, SeqDomain, LenNat
<1>11. /\ IsSeq(answers') /\ Len(answers') = Len(answers) + 1
       /\ answers'[Len(answers) + 1] = a
       /\ \A i \in 1 .. Len(answers) : answers'[i] = answers[i]
  <2>1. answers' = Append(answers, a)
    BY <1>3, <1>4
  <2> QED BY <1>10, <2>1, AppendSeq
<1>12. DOMAIN answers' = 1 .. Len(answers')
  BY <1>11, SeqDomain
<1>13. /\ \A i \in DOMAIN answers : i \in DOMAIN answers' /\ answers'[i] = answers[i]
       /\ \A i \in DOMAIN answers' : i \in DOMAIN answers \/ i = Len(answers) + 1
       /\ Len(answers) + 1 \in DOMAIN answers'
  BY <1>10, <1>11, <1>12
<1>14. failMode' = failMode /\ provider' = provider
  BY <1>2 DEF conf
<1>15. /\ \A e : Answered(e)' <=> Answered(e) \/ e = c
       /\ \A e : Sanctioned(e)' <=> Sanctioned(e) \/ (e = c /\ a.decision = "allow")
       /\ Denied' <=> Denied \/ a.decision = "deny"
  <2>1. \A e : Answered(e)' <=> Answered(e) \/ e = c
    BY <1>9, <1>11, <1>13 DEF Answered
  <2>2. \A e : Sanctioned(e)' <=> Sanctioned(e) \/ (e = c /\ Permits(a))
    BY <1>9, <1>11, <1>13, <1>14 DEF Sanctioned, Permits
  <2>3. Denied' <=> Denied \/ a.decision = "deny"
    BY <1>11, <1>13 DEF Denied
  <2> QED BY <1>9, <2>1, <2>2, <2>3
<1>16. VerdictsOK'
  BY <1>1, <1>9, <1>10, <1>11, <1>12, <1>13, <1>14 DEF VerdictsOK, Permits
<1>17. \A e \in inFlight : /\ Answered(e)' <=> e <= c
                           /\ Answered(e) => e < c
  <2>1. ASSUME NEW e \in inFlight
        PROVE  (Answered(e) <=> e < c) /\ (e \in Int /\ c \in Int)
    <3>1. e \in Int /\ c \in Int
      <4>1. inFlight \subseteq Calls
        BY <1>1 DEF AccsOK
      <4> QED BY <1>6, <4>1, WireAssumption DEF Calls
    <3> QED BY <1>0, <1>1, <1>2, <1>7, <3>1 DEF LoopsOK, VisitedOK
  <2> QED BY <1>15, <2>1
<1>18. ~Answered(c) /\ ~Sanctioned(c)
  <2>1. c \in Int
    BY <1>6, WireAssumption DEF Calls
  <2>2. ~Answered(c)
    BY <1>6, <1>17, <2>1
  <2> QED BY <2>2 DEF Answered, Sanctioned
<1>19. tasks[t].at <= tasks[t].hi => (Denied' <=> syntheticTerminalEmitted = TRUE \/ d = TRUE)
  <2>1. ASSUME tasks[t].at <= tasks[t].hi PROVE ~EndReached
    BY <1>1, <1>2, <2>1, PassedAt
  <2>2. \A s \in 1 .. Len(tasks) : InLoop(s) => s = t
    BY <1>1, <1>2, Only DEF InLoop
  <2>3. ~EndReached => (Denied <=> syntheticTerminalEmitted = TRUE \/ tasks[t].deny = TRUE)
    BY <1>1, <1>7, <2>2 DEF DenialOK
  <2>4. d = TRUE <=> tasks[t].deny = TRUE \/ a.decision = "deny"
    BY <1>5, <1>9
  <2> QED BY <1>15, <2>1, <2>3, <2>4
<1>20. IsSeq(out) /\ IsSeq(x) /\ \A n \in 1 .. Len(wire) :
           Count(x, n) = IF a.decision = "allow" /\ Carries(n) /\ c \in CallsIn(n) THEN 1 ELSE 0
  <2>1. IsSeq(out)
    BY <1>1 DEF OutOK, OutIs
  <2>2. CASE a.decision = "allow"
    BY <1>1, <1>5, <1>6, <1>8, <1>9, <2>1, <2>2, FlushCount
  <2>3. CASE a.decision # "allow"
    <3>1. IsSeq(x) /\ \A i \in 1 .. Len(x) : x[i].kind # "raw"
      BY <1>5, <1>9, <2>3, NoticeIs
    <3> QED BY <2>1, <2>3, <3>1, CountNone
  <2> QED BY <2>2, <2>3
<1>21. ASSUME NEW n \in 1 .. Len(wire)
       PROVE  Count(out \o x, n) = IF Carries(n) THEN Cardinality({e \in CallsIn(n) : Sanctioned(e)'})
                                   ELSE IF ~Passed(n, 1) \/ (Finishes(n) /\ Denied') THEN 0 ELSE 1
  <2>1. Count(out \o x, n) = Count(out, n) + Count(x, n) /\ Count(out, n) \in Nat
    BY <1>20, CountConcat, EmittedFinite
  <2>2. Count(out, n) = IF Carries(n) THEN Cardinality({e \in CallsIn(n) : Sanctioned(e)})
                        ELSE IF ~Passed(n, 1) \/ (Finishes(n) /\ Denied) THEN 0 ELSE 1
    BY <1>1 DEF CountOK
  <2>3. CASE Carries(n)
    <3> DEFINE A == {e \in CallsIn(n) : Sanctioned(e)}
               B == {e \in CallsIn(n) : Sanctioned(e)'}
    <3>1. IsFiniteSet(A) /\ c \notin A
      BY <1>18, CallsFinite, FS_Subset, <1>1
    <3>2. B = IF a.decision = "allow" /\ c \in CallsIn(n) THEN A \cup {c} ELSE A
      BY <1>15
    <3> HIDE DEF A, B
    <3>3. Cardinality(A) \in Nat /\ Cardinality(A \cup {c}) = Cardinality(A) + 1
      BY <3>1, FS_AddElement, FS_CardinalityType
    <3>4. Count(x, n) = IF a.decision = "allow" /\ c \in CallsIn(n) THEN 1 ELSE 0
      BY <1>20, <2>3
    <3>5. Count(out, n) = Cardinality(A)
      BY <2>2, <2>3 DEF A
    <3>6. Count(out \o x, n) = Cardinality(B)
      BY <2>1, <3>2, <3>3, <3>4, <3>5
    <3> QED BY <2>3, <3>6 DEF B
  <2>4. CASE ~Carries(n)
    <3>1. Count(out \o x, n) = Count(out, n)
      BY <1>20, <2>1, <2>4
    <3>2. ~(Passed(n, 1) /\ Finishes(n))
      <4>1. ASSUME Passed(n, 1), Finishes(n) PROVE FALSE
        <5>1. Evs(n)[1].kind = "finish" /\ 1 \in 1 .. Len(Evs(n))
          BY <1>1, <4>1, FinishesFirst, Stands
        <5>2. Finished
          BY <4>1, <5>1 DEF Finished
        <5> QED BY <1>1, <1>6, <5>2 DEF DrainedOK
      <4> QED BY <4>1
    <3> QED BY <2>2, <2>4, <3>1, <3>2
  <2> QED BY <2>3, <2>4
<1>22. Settling(t, c, d, x)
  BY <1>8, <1>16, <1>17, <1>19, <1>20, <1>21 DEF Settling
<1> QED BY <1>2, <1>3, <1>5, <1>6, <1>22, IterateAccounted

-----------------------------------------------------------------------------
(* The steps that handle no event: the stream is completed or fails.       *)
SameTasks ==
    /\ Len(tasks') = Len(tasks)
    /\ \A s \in 1 .. Len(tasks) :
          /\ tasks'[s].at = tasks[s].at /\ tasks'[s].ev = tasks[s].ev /\ tasks'[s].hi = tasks[s].hi
          /\ tasks'[s].eof = tasks[s].eof /\ tasks'[s].call = tasks[s].call /\ tasks'[s].deny = tasks[s].deny

LEMMA QuietAccounted ==
    ASSUME StreamInv, AccountInv, SameTasks,
           UNCHANGED <<conf, wire>>, UNCHANGED <<wire, accs>>, UNCHANGED <<conf, answers>>,
           UNCHANGED <<inFlight, syntheticTerminalEmitted>>,
           up'.started = up.started, up'.phase = up.phase \/ up'.phase = "ended",
           NEW y, IsSeq(y), \A i \in 1 .. Len(y) : y[i].kind # "raw", out' = out \o y
    PROVE  AccountInv'
<1>1. /\ WireOK /\ TasksOK /\ OutOK /\ OrderOK /\ HeldOK /\ VerdictsOK /\ SettlingOK /\ VisitedOK
      /\ DrainedOK /\ DenialOK /\ CountOK
  BY DEF StreamInv, AccountInv
<1>2. provider' = provider /\ wire' = wire /\ up'.started = up.started /\ (up'.phase = "body" => up.phase = "body")
  BY DEF conf
<1>3. \A n : Evs(n)' = Evs(n) /\ \A i, c : About(provider, wire, n, i, c)' <=> About(provider, wire, n, i, c)
  BY EvsKept
<1>4. \A n \in 1 .. Len(wire) : n \in 1 .. Len(tasks)
  BY <1>1, Lengths
<1>5. \A n \in 1 .. Len(wire) : \A i : Passed(n, i)' <=> Passed(n, i)
  BY <1>4 DEF SameTasks, Passed
<1>6. \A s \in 1 .. Len(tasks) : InLoop(s)' <=> InLoop(s)
  BY DEF SameTasks, InLoop
<1>7. Looping' <=> Looping
  BY <1>6 DEF Looping, SameTasks
<1>8. (\A c : Answered(c)' <=> Answered(c)) /\ (Denied' <=> Denied) /\ VerdictsOK'
  BY <1>1, HistoryKept
<1>9. OrderOK'
  BY <1>1, <1>2 DEF OrderOK, Opens, Closing
<1>10. ASSUME NEW n \in 1 .. Len(wire), NEW d PROVE Given(n, d)' <=> Given(n, d)
  <2>1. Given(n, d)' <=> \E i \in 1 .. Len(Evs(n)) : Passed(n, i)' /\ About(provider, wire, n, i, d)
    BY <1>3 DEF Given
  <2> QED BY <1>5, <2>1 DEF Given
<1>11. HeldOK'
  BY <1>1, <1>10, HeldKept
<1>12. AllPast => AllPast'
  <2>1. AllPast => \A n \in 1 .. Len(wire) : \A i \in 1 .. Len(Evs(n)) : Evs(n)[i].kind \in CallKinds => Passed(n, i)'
    BY <1>5 DEF AllPast
  <2> QED BY <1>2, <1>3, <2>1 DEF AllPast
<1>13. SettlingOK'
  BY <1>1, <1>2, <1>7, <1>8, <1>12 DEF SettlingOK
<1>14. VisitedOK'
  <2>1. inFlight' = inFlight
    OBVIOUS
  <2>2. \A s \in 1 .. Len(tasks') : InLoop(s)' => \A c \in inFlight : Answered(c)' => c < tasks'[s].call
    BY <1>1, <1>6, <1>8 DEF VisitedOK, SameTasks
  <2> QED BY <1>1, <1>7, <1>8, <2>1, <2>2 DEF VisitedOK
<1>15. DrainedOK'
  <2>1. Finished' <=> \E n \in 1 .. Len(wire) : \E i \in 1 .. Len(Evs(n)) : Passed(n, i)' /\ Evs(n)[i].kind = "finish"
    BY <1>2, <1>3 DEF Finished
  <2>2. Finished' <=> Finished
    BY <1>5, <2>1 DEF Finished
  <2> QED BY <1>1, <2>2 DEF DrainedOK
<1>16. DenialOK'
  <2>1. EndReached' <=> EndReached
    BY <1>6 DEF EndReached, SameTasks
  <2>2. (\E s \in 1 .. Len(tasks) : InLoop(s) /\ tasks[s].deny = TRUE)' <=>
            \E s \in 1 .. Len(tasks) : InLoop(s) /\ tasks[s].deny = TRUE
    BY <1>6 DEF SameTasks
  <2> QED BY <1>1, <1>8, <2>1, <2>2 DEF DenialOK
<1>17. CountOK'
  <2>1. PICK o : o = out'
    OBVIOUS
  <2>2. IsSeq(out)
    BY <1>1 DEF OutOK, OutIs
  <2>3. ASSUME NEW n \in 1 .. Len(wire)
        PROVE  Count(o, n) = IF Carries(n) THEN Cardinality({c \in CallsIn(n) : Sanctioned(c)})
                             ELSE IF ~Passed(n, 1)' \/ (Finishes(n) /\ Denied) THEN 0 ELSE 1
    <3>1. Count(o, n) = Count(out, n) + Count(y, n) /\ Count(out, n) \in Nat
      BY <2>1, <2>2, CountConcat, EmittedFinite
    <3>2. Count(y, n) = 0
      BY CountNone
    <3>3. Count(out, n) = IF Carries(n) THEN Cardinality({c \in CallsIn(n) : Sanctioned(c)})
                          ELSE IF ~Passed(n, 1) \/ (Finishes(n) /\ Denied) THEN 0 ELSE 1
      BY <1>1 DEF CountOK
    <3>4. Count(o, n) = Count(out, n)
      BY <3>1, <3>2
    <3> QED BY <1>5, <3>3, <3>4
  <2> QED BY <2>1, <2>3, CountNow
<1> QED BY <1>8, <1>9, <1>11, <1>13, <1>14, <1>15, <1>16, <1>17 DEF AccountInv

LEMMA CloseAccounted ==
    ASSUME StreamInv, AccountInv, NEW t \in 1 .. Len(tasks), OnClose(t) PROVE AccountInv'
<1>1. /\ out' = out \o Mark("close", 0) /\ tasks' = [tasks EXCEPT ![t].over = TRUE]
      /\ UNCHANGED <<conf, wire>> /\ UNCHANGED <<wire, accs>> /\ UNCHANGED <<conf, answers>>
      /\ UNCHANGED <<inFlight, syntheticTerminalEmitted>> /\ up' = up
  BY DEF OnClose, state
<1>2. IsSeq(tasks) /\ TaskType(t) /\ DOMAIN tasks = 1 .. Len(tasks)
  BY SeqDomain DEF StreamInv, TasksOK
<1>3. PICK k : k = [tasks[t] EXCEPT !.over = TRUE]
  OBVIOUS
<1>4. tasks' = [tasks EXCEPT ![t] = k]
  BY <1>1, <1>2, <1>3
<1>5. /\ k.hi = tasks[t].hi /\ k.eof = tasks[t].eof /\ k.at = tasks[t].at
      /\ k.ev = tasks[t].ev /\ k.call = tasks[t].call /\ k.deny = tasks[t].deny
  <2>1. tasks[t] = [f \in TaskFields |-> tasks[t][f]]
    BY <1>2 DEF TaskType
  <2> QED BY <1>3, <2>1 DEF TaskFields
<1>6. Len(tasks') = Len(tasks) /\ tasks'[t] = k /\ \A s \in 1 .. Len(tasks) : s # t => tasks'[s] = tasks[s]
  BY <1>2, <1>4, SetAtSeq
<1>7. SameTasks
  BY <1>5, <1>6 DEF SameTasks
<1>8. PICK y : y = Mark("close", 0)
  OBVIOUS
<1>9. IsSeq(y) /\ \A i \in 1 .. Len(y) : y[i].kind # "raw"
  BY <1>8, MarkIs
<1> QED BY <1>1, <1>7, <1>8, <1>9, QuietAccounted

LEMMA ErrorAccounted ==
    ASSUME StreamInv, AccountInv, OnError PROVE AccountInv'
<1>1. /\ out' = out \o Mark("error", 0) /\ tasks' = tasks
      /\ UNCHANGED <<conf, wire>> /\ UNCHANGED <<wire, accs>> /\ UNCHANGED <<conf, answers>>
      /\ UNCHANGED <<inFlight, syntheticTerminalEmitted>> /\ up' = [up EXCEPT !.phase = "ended"]
  BY DEF OnError, state
<1>2. up'.started = up.started /\ up'.phase = "ended"
  BY <1>1 DEF StreamInv, WireOK, UpOK
<1>3. SameTasks
  BY <1>1 DEF SameTasks
<1>4. PICK y : y = Mark("error", 0)
  OBVIOUS
<1>5. IsSeq(y) /\ \A i \in 1 .. Len(y) : y[i].kind # "raw"
  BY <1>4, MarkIs
<1> QED BY <1>1, <1>2, <1>3, <1>4, <1>5, QuietAccounted

LEMMA StepLess ==
    ASSUME StreamInv, AccountInv, UNCHANGED vars PROVE AccountInv'
<1>1. /\ plane' = plane /\ provider' = provider /\ failMode' = failMode /\ wire' = wire /\ up' = up
      /\ tasks' = tasks /\ accs' = accs /\ inFlight' = inFlight
      /\ syntheticTerminalEmitted' = syntheticTerminalEmitted /\ out' = out /\ answers' = answers
  BY DEF vars, conf, state
<1>2. /\ UNCHANGED <<conf, wire>> /\ UNCHANGED <<wire, accs>> /\ UNCHANGED <<conf, answers>>
      /\ UNCHANGED <<inFlight, syntheticTerminalEmitted>>
  BY <1>1 DEF conf
<1>3. PICK y : y = <<>>
  OBVIOUS
<1>4. IsSeq(y) /\ \A i \in 1 .. Len(y) : y[i].kind # "raw"
  <2>1. Len(y) = 0 /\ IsSeq(y)
    BY <1>3, NoSeq
  <2> QED BY <2>1
<1>5. out' = out \o y
  <2>1. IsSeq(out)
    BY DEF StreamInv, OutOK, OutIs
  <2>2. out \in Seq({out[i] : i \in 1 .. Len(out)})
    BY <2>1, SeqTyped
  <2>3. out \o <<>> = out
    BY <2>2
  <2> QED BY <1>1, <1>3, <2>3
<1>6. SameTasks
  BY <1>1 DEF SameTasks
<1>7. up'.started = up.started /\ up'.phase = up.phase
  BY <1>1
<1> QED BY <1>2, <1>4, <1>5, <1>6, <1>7, QuietAccounted

-----------------------------------------------------------------------------
(* A frame that arrives: nothing of it has been passed yet.                *)
LEMMA StandsAny ==
    ASSUME NEW p \in Providers, NEW w, NEW n \in Nat \ {0}, FrameOK(p, w, n),
           p # "gemini" => \A k \in DOMAIN w[n].calls : k = 1,
           w[n].type = "cut" => w[n].calls = <<>>
    PROVE  StandsFor(p, w, n)
<1>1. CASE p = "gemini"
  BY <1>1, GeminiStandsFor
<1>2. CASE p # "gemini"
  BY <1>2, PlainStandsFor
<1> QED BY <1>1, <1>2

(* A frame that has just arrived has not been passed, nothing was emitted  *)
(* for it, and it is about no call once one has been settled.              *)
LEMMA ArrivesAccounted ==
    ASSUME StreamInv, AccountInv, WireOK', OrderOK', UNCHANGED <<conf, state, out, answers, closed>>,
           up.phase # "ended", up.phase # "body" => up'.phase # "body",
           Len(wire') \in {Len(wire), Len(wire) + 1}, \A m \in 1 .. Len(wire) : wire'[m] = wire[m],
           up.phase # "body" => \A m \in 1 .. Len(wire') : m \in 1 .. Len(wire) \/ wire'[m].calls = <<>>,
           NEW eof \in BOOLEAN, tasks' = Append(tasks, NewTask(Len(wire) + 1, Len(wire'), eof))
    PROVE  AccountInv'
<1>0. PICK n, v, k : n = Len(wire) + 1 /\ v = wire' /\ k = NewTask(Len(wire) + 1, Len(wire'), eof)
  OBVIOUS
<1>1. /\ WireOK /\ TasksOK /\ AccsOK /\ OutOK /\ HeldOK /\ VerdictsOK /\ SettlingOK /\ VisitedOK
      /\ DrainedOK /\ DenialOK /\ CountOK
  BY DEF StreamInv, AccountInv
<1>2. /\ provider' = provider /\ failMode' = failMode /\ accs' = accs /\ inFlight' = inFlight
      /\ syntheticTerminalEmitted' = syntheticTerminalEmitted /\ out' = out /\ answers' = answers
      /\ UNCHANGED <<conf, answers>>
  BY DEF conf, state
<1>3. IsSeq(tasks) /\ Len(wire) \in Nat /\ n \in Nat \ {0} /\ Len(tasks) = Len(wire)
  BY <1>0, <1>1, Lengths DEF TasksOK
<1>4. k.at = n /\ k.ev = 1 /\ k.call = TextBlock
  BY <1>0 DEF NewTask
<1>5. /\ Len(tasks') = n /\ tasks'[n] = k
      /\ \A s \in 1 .. Len(wire) : tasks'[s] = tasks[s]
  BY <1>0, <1>3, AppendSeq
<1>6. /\ \A m \in 1 .. Len(tasks') : m \in 1 .. Len(wire) \/ m = n
      /\ \A m \in 1 .. Len(v) : m \in 1 .. Len(wire) \/ m = n
      /\ \A m \in 1 .. Len(wire) : m \in 1 .. Len(tasks') /\ m \in 1 .. Len(tasks) /\ m \in 1 .. Len(v) /\ m # n
  BY <1>0, <1>3, <1>5
<1>7. ASSUME NEW m \in 1 .. Len(wire) PROVE Events(provider, v, m) = Events(provider, wire, m)
  <2>1. m \in Nat \ {0} /\ \A h \in 1 .. m : h \in 1 .. Len(wire)
    BY <1>3
  <2>2. \A h \in 1 .. m : v[h] = wire[h]
    BY <1>0, <2>1
  <2> QED BY <2>1, <2>2, EventsLocal
<1>8. ASSUME NEW m
      PROVE  /\ Evs(m)' = Events(provider, v, m)
             /\ \A i, c : About(provider, wire, m, i, c)' <=> About(provider, v, m, i, c)
  BY <1>0, <1>2 DEF Evs, About
<1>9. ASSUME NEW m \in 1 .. Len(wire)
      PROVE  /\ Evs(m)' = Evs(m) /\ (Carries(m)' <=> Carries(m)) /\ CallsIn(m)' = CallsIn(m)
             /\ (Finishes(m)' <=> Finishes(m))
             /\ \A i : Passed(m, i)' <=> Passed(m, i)
             /\ \A i, c : About(provider, wire, m, i, c)' <=> About(provider, wire, m, i, c)
  <2>1. v[m] = wire[m] /\ tasks'[m] = tasks[m] /\ Events(provider, v, m) = Events(provider, wire, m)
    BY <1>0, <1>5, <1>7
  <2>2. Evs(m)' = Evs(m) /\ \A i, c : About(provider, wire, m, i, c)' <=> About(provider, wire, m, i, c)
    BY <1>8, <2>1 DEF Evs, About
  <2>3. Finishes(m)' <=> Finishes(m)
    <3>1. Finishes(m)' <=> \E i \in DOMAIN Evs(m)' : Evs(m)'[i].kind = "finish" /\ Evs(m)'[i].rawFrame = m
      BY DEF Finishes, Evs
    <3> QED BY <2>2, <3>1 DEF Finishes, Evs
  <2> QED BY <1>0, <2>1, <2>2, <2>3 DEF Carries, CallsIn, Passed
<1>10. \A i \in Nat \ {0} : ~Passed(n, i)'
  <2>1. ~(n > n) /\ \A i \in Nat \ {0} : ~(i < 1)
    BY <1>3
  <2> QED BY <1>4, <1>5, <2>1 DEF Passed
<1>11. ASSUME NEW m \in 1 .. Len(v)
       PROVE  /\ StandsFor(provider, v, m) /\ \A i \in 1 .. Len(Events(provider, v, m)) : i \in Nat \ {0}
  <2>1. FrameOK(provider, v, m) /\ provider \in Providers /\ m \in Nat \ {0}
    <3>1. FrameOK(provider, v, m)
      BY <1>0, <1>2 DEF WireOK
    <3>2. m \in Nat \ {0}
      BY <1>3, <1>6
    <3> QED BY <1>1, <3>1, <3>2 DEF WireOK
  <2>2. /\ provider # "gemini" => \A j \in DOMAIN v[m].calls : j = 1
        /\ v[m].type = "cut" => v[m].calls = <<>>
    BY <1>0, <1>2 DEF OrderOK
  <2>3. \A i \in 1 .. Len(Evs(m)') : i \in Nat \ {0}
    <3>1. m \in 1 .. Len(wire')
      BY <1>0
    <3> QED BY <3>1, WireEvents DEF Evs
  <2> QED BY <1>8, <2>1, <2>2, <2>3, StandsAny
<1>12. (\A c : (Answered(c)' <=> Answered(c)) /\ (Sanctioned(c)' <=> Sanctioned(c))) /\ (Denied' <=> Denied) /\ VerdictsOK'
  BY <1>1, <1>2, HistoryKept
<1>13. \A s \in 1 .. Len(tasks) : InLoop(s)' <=> InLoop(s)
  BY <1>3, <1>5 DEF InLoop
<1>14. ~InLoop(n)'
  BY <1>4, <1>5 DEF InLoop
<1>15. Looping' <=> Looping
  BY <1>3, <1>6, <1>13, <1>14 DEF Looping
<1>16. HeldOK'
  <2>1. ASSUME NEW m \in 1 .. Len(wire), NEW d PROVE Given(m, d)' <=> Given(m, d)
    <3>1. Given(m, d)' <=> \E i \in 1 .. Len(Evs(m)) : Passed(m, i)' /\ About(provider, wire, m, i, d)
      BY <1>9 DEF Given
    <3> QED BY <1>9, <3>1 DEF Given
  <2>2. ASSUME n \in 1 .. Len(v), NEW d PROVE ~Given(n, d)'
    <3>1. Given(n, d)' <=> \E i \in 1 .. Len(Events(provider, v, n)) : Passed(n, i)' /\ About(provider, v, n, i, d)
      BY <1>8 DEF Given
    <3> QED BY <1>10, <1>11, <2>2, <3>1
  <2>3. ASSUME NEW c \in Calls, NEW m \in 1 .. Len(v)
        PROVE  (\E i \in 1 .. Len(accs[c].frames) : accs[c].frames[i] = m) <=> Given(m, c)'
    <3>1. CASE m \in 1 .. Len(wire)
      BY <1>1, <2>1, <3>1 DEF HeldOK
    <3>2. CASE m = n
      <4>1. FramesOK(c, accs[c].frames)
        BY <1>1 DEF AccsOK
      <4>2. \A i \in 1 .. Len(accs[c].frames) : accs[c].frames[i] \in 1 .. Len(wire)
        BY <4>1 DEF FramesOK
      <4> QED BY <1>6, <2>2, <3>2, <4>2
    <3> QED BY <1>6, <3>1, <3>2
  <2>4. \A c \in Calls : \A i, j \in 1 .. Len(accs[c].frames) : accs[c].frames[i] = accs[c].frames[j] => i = j
    BY <1>1 DEF HeldOK
  <2> QED BY <1>0, <1>2, <2>3, <2>4 DEF HeldOK
<1>17. up.phase # "body" => \A m \in 1 .. Len(v) : m \in 1 .. Len(wire) \/ v[m].calls = <<>>
  BY <1>0
<1>18. SettlingOK'
  <2>1. ASSUME Looping \/ (\E c : Answered(c)) PROVE up'.phase # "body" /\ AllPast'
    <3>1. up.phase # "body" /\ AllPast
      BY <1>1, <2>1 DEF SettlingOK
    <3>2. ASSUME NEW m \in 1 .. Len(v), NEW i \in 1 .. Len(Events(provider, v, m)),
                 Events(provider, v, m)[i].kind \in CallKinds
          PROVE  Passed(m, i)'
      <4>1. v[m].calls # <<>>
        BY <1>11, <3>2 DEF StandsFor
      <4>2. m \in 1 .. Len(wire)
        BY <1>17, <3>1, <4>1
      <4>3. Passed(m, i)
        BY <1>7, <3>1, <3>2, <4>2 DEF AllPast, Evs
      <4> QED BY <1>9, <4>2, <4>3
    <3> QED BY <1>0, <1>8, <3>1, <3>2 DEF AllPast
  <2> QED BY <1>12, <1>15, <2>1 DEF SettlingOK
<1>19. VisitedOK'
  <2>1. ASSUME NEW s \in 1 .. Len(tasks'), tasks'[s].call # TextBlock
        PROVE  \A c \in inFlight : Answered(c)' => c < tasks'[s].call
    <3>1. s \in 1 .. Len(wire)
      BY <1>4, <1>5, <1>6, <2>1
    <3>2. tasks'[s] = tasks[s] /\ s \in 1 .. Len(tasks)
      BY <1>5, <1>6, <3>1
    <3> QED BY <1>1, <1>12, <2>1, <3>2 DEF VisitedOK, InLoop
  <2> QED BY <1>1, <1>2, <1>12, <1>15, <2>1 DEF VisitedOK, InLoop
<1>20. DrainedOK'
  <2>1. Finished' => Finished
    <3>1. Finished' <=> \E m \in 1 .. Len(v) : \E i \in 1 .. Len(Events(provider, v, m)) :
                            Passed(m, i)' /\ Events(provider, v, m)[i].kind = "finish"
      BY <1>0, <1>8 DEF Finished
    <3>2. ASSUME NEW m \in 1 .. Len(v), NEW i \in 1 .. Len(Events(provider, v, m)), Passed(m, i)',
                 Events(provider, v, m)[i].kind = "finish"
          PROVE  Finished
      <4>1. i \in Nat \ {0}
        BY <1>11
      <4>2. m \in 1 .. Len(wire)
        BY <1>6, <1>10, <3>2, <4>1
      <4> QED BY <1>7, <1>9, <3>2, <4>2 DEF Finished, Evs
    <3> QED BY <3>1, <3>2
  <2> QED BY <1>1, <1>2, <2>1 DEF DrainedOK
<1>21. DenialOK'
  <2>1. EndReached' <=> EndReached
    <3>1. ASSUME NEW s \in 1 .. Len(wire)
          PROVE  tasks'[s] = tasks[s] /\ s \in 1 .. Len(tasks') /\ s \in 1 .. Len(tasks) /\ (InLoop(s)' <=> InLoop(s))
      BY <1>5, <1>6, <1>13
    <3>2. ~(InLoop(n)' \/ tasks'[n].ev = 2)
      BY <1>4, <1>5, <1>14
    <3>3. EndReached => EndReached'
      BY <1>3, <3>1 DEF EndReached
    <3>4. ASSUME NEW s \in 1 .. Len(tasks'), tasks'[s].eof, tasks'[s].at > tasks'[s].hi, InLoop(s)' \/ tasks'[s].ev = 2
          PROVE  EndReached
      <4>1. s \in 1 .. Len(wire)
        BY <1>6, <3>2, <3>4
      <4> QED BY <3>1, <3>4, <4>1 DEF EndReached
    <3>5. EndReached' => EndReached
      BY <3>4 DEF EndReached
    <3> QED BY <3>3, <3>5
  <2>2. (\E s \in 1 .. Len(tasks) : InLoop(s) /\ tasks[s].deny = TRUE)' <=>
            \E s \in 1 .. Len(tasks) : InLoop(s) /\ tasks[s].deny = TRUE
    <3>1. \A s \in 1 .. Len(tasks') : InLoop(s)' => s \in 1 .. Len(tasks)
      BY <1>3, <1>6, <1>14
    <3>2. \A s \in 1 .. Len(tasks) : s \in 1 .. Len(tasks') /\ tasks'[s] = tasks[s]
      BY <1>3, <1>5, <1>6
    <3> QED BY <1>13, <3>1, <3>2
  <2> QED BY <1>1, <1>2, <1>12, <2>1, <2>2 DEF DenialOK
<1>22. CountOK'
  <2>1. ASSUME NEW m \in 1 .. Len(wire)
        PROVE  Count(out, m) = IF Carries(m)' THEN Cardinality({c \in CallsIn(m)' : Sanctioned(c)'})
                               ELSE IF ~Passed(m, 1)' \/ (Finishes(m)' /\ Denied') THEN 0 ELSE 1
    <3>1. Count(out, m) = IF Carries(m) THEN Cardinality({c \in CallsIn(m) : Sanctioned(c)})
                          ELSE IF ~Passed(m, 1) \/ (Finishes(m) /\ Denied) THEN 0 ELSE 1
      BY <1>1 DEF CountOK
    <3>2. {c \in CallsIn(m)' : Sanctioned(c)'} = {c \in CallsIn(m) : Sanctioned(c)}
      BY <1>9, <1>12
    <3> QED BY <1>9, <1>12, <3>1, <3>2
  <2>2. ASSUME n \in 1 .. Len(v)
        PROVE  Count(out, n) = IF Carries(n)' THEN Cardinality({c \in CallsIn(n)' : Sanctioned(c)'})
                               ELSE IF ~Passed(n, 1)' \/ (Finishes(n)' /\ Denied') THEN 0 ELSE 1
    <3>1. \A i \in 1 .. Len(out) : out[i].kind = "raw" => out[i].id \in 1 .. Len(wire)
      BY <1>1 DEF OutOK, OutIs
    <3>2. \A i \in 1 .. Len(out) : out[i].kind = "raw" => out[i].id # n
      BY <1>6, <3>1
    <3>3. Count(out, n) = 0
      BY <3>2, CountNone
    <3>4. ~Passed(n, 1)'
      BY <1>10
    <3>5. CASE Carries(n)'
      <4>1. v[n].calls # <<>> /\ n \notin 1 .. Len(wire)
        BY <1>0, <1>6, <3>5 DEF Carries
      <4>2. up.phase = "body"
        BY <1>17, <2>2, <4>1
      <4>3. \A c : ~Answered(c)
        BY <1>1, <4>2 DEF SettlingOK
      <4>4. \A c : ~Sanctioned(c)'
        BY <1>12, <4>3 DEF Answered, Sanctioned
      <4>5. {c \in CallsIn(n)' : Sanctioned(c)'} = {}
        BY <4>4
      <4> QED BY <3>3, <3>5, <4>5, FS_EmptySet
    <3>6. CASE ~Carries(n)'
      BY <3>3, <3>4, <3>6
    <3> QED BY <3>5, <3>6
  <2>3. ASSUME NEW m \in 1 .. Len(v)
        PROVE  Count(out', m) = IF Carries(m)' THEN Cardinality({c \in CallsIn(m)' : Sanctioned(c)'})
                                ELSE IF ~Passed(m, 1)' \/ (Finishes(m)' /\ Denied') THEN 0 ELSE 1
    <3>1. CASE m \in 1 .. Len(wire)
      BY <1>2, <2>1, <3>1
    <3>2. CASE m = n
      <4>1. m = n
        BY <3>2
      <4>2. n \in 1 .. Len(v)
        BY <4>1
      <4> QED BY <1>2, <2>2, <4>1, <4>2
    <3> QED BY <1>6, <3>1, <3>2
  <2> QED BY <1>0, <2>3 DEF CountOK, Count, Emitted
<1> QED BY <1>12, <1>16, <1>18, <1>19, <1>20, <1>21, <1>22 DEF AccountInv

LEMMA DataAccounted ==
    ASSUME StreamInv, AccountInv, NEW f \in Offers, OnData(f) PROVE AccountInv'
<1>1. WireOK /\ Serial /\ OrderOK
  BY DEF StreamInv, AccountInv, WireOK, Serial
<1>2. /\ MaySend(f) /\ wire' = Append(wire, f) /\ up' = Sent(f) /\ UNCHANGED conf
      /\ UNCHANGED <<conf, state, out, answers, closed>>
      /\ tasks' = Append(tasks, NewTask(Len(wire) + 1, Len(wire) + 1, FALSE))
  BY <1>1 DEF OnData
<1>3. Offered(f)
  BY <1>1, OffersAre
<1>4. WireOK' /\ OrderOK' /\ (up.phase # "body" => up'.phase # "body")
  BY <1>1, <1>2, <1>3, WireSent, OrderSent
<1>5. /\ Len(wire') = Len(wire) + 1 /\ wire'[Len(wire) + 1] = f
      /\ \A m \in 1 .. Len(wire) : wire'[m] = wire[m]
  BY <1>1, <1>2, <1>3, FrameAdded DEF Longer
<1>6. up.phase # "ended"
  BY <1>2 DEF MaySend
<1>7. up.phase # "body" => \A m \in 1 .. Len(wire') : m \in 1 .. Len(wire) \/ wire'[m].calls = <<>>
  <2>1. up.phase # "body" => f.calls = <<>>
    BY <1>3 DEF Offered
  <2>2. Len(wire) \in Nat
    BY <1>1, LenNat DEF WireOK
  <2>3. \A m \in 1 .. Len(wire') : m \in 1 .. Len(wire) \/ m = Len(wire) + 1
    BY <1>5, <2>2
  <2> QED BY <1>5, <2>1, <2>3
<1>8. PICK e \in BOOLEAN : e = FALSE
  OBVIOUS
<1>9. tasks' = Append(tasks, NewTask(Len(wire) + 1, Len(wire'), e))
  BY <1>2, <1>5, <1>8
<1> QED BY <1>2, <1>4, <1>5, <1>6, <1>7, <1>9, ArrivesAccounted

LEMMA UpstreamEndAccounted ==
    ASSUME StreamInv, AccountInv, NEW half \in {<<>>, <<Cut>>}, OnUpstreamEnd(half) PROVE AccountInv'
<1>1. WireOK /\ OrderOK
  BY DEF StreamInv, AccountInv
<1>2. /\ up.phase # "ended" /\ up' = [up EXCEPT !.phase = "ended"] /\ wire' = wire \o half /\ UNCHANGED conf
      /\ tasks' = Append(tasks, NewTask(Len(wire) + 1, Len(wire) + Len(half), TRUE))
      /\ UNCHANGED <<conf, state, out, answers, closed>>
  BY DEF OnUpstreamEnd
<1>3. /\ WireOK' /\ Len(wire') = Len(wire) + Len(half) /\ Len(half) \in {0, 1}
      /\ \A m \in 1 .. Len(wire) : wire'[m] = wire[m]
  BY <1>1, <1>2, WireEnded
<1>4. OrderOK' /\ \A m \in 1 .. Len(wire') : m \in 1 .. Len(wire) \/ wire'[m] = Cut
  BY <1>1, <1>2, OrderEnded
<1>5. Len(wire') \in {Len(wire), Len(wire) + 1}
  <2>1. Len(wire) \in Nat
    BY <1>1, LenNat DEF WireOK
  <2>2. CASE Len(half) = 0
    BY <1>3, <2>1, <2>2
  <2>3. CASE Len(half) = 1
    BY <1>3, <2>1, <2>3
  <2> QED BY <1>3, <2>2, <2>3
<1>6. up'.phase = "ended"
  BY <1>1, <1>2 DEF WireOK, UpOK
<1>7. \A m \in 1 .. Len(wire') : m \in 1 .. Len(wire) \/ wire'[m].calls = <<>>
  BY <1>4 DEF Cut, WireFrame
<1>8. PICK e \in BOOLEAN : e = TRUE
  OBVIOUS
<1>9. tasks' = Append(tasks, NewTask(Len(wire) + 1, Len(wire'), e))
  BY <1>2, <1>3, <1>8
<1>10. up.phase # "body" => up'.phase # "body"
  BY <1>6
<1> QED BY <1>2, <1>3, <1>4, <1>5, <1>7, <1>9, <1>10, ArrivesAccounted

-----------------------------------------------------------------------------
(* From the first state on, and by every step.                             *)
LEMMA InitAccounted == ASSUME Init PROVE AccountInv
<1>1. /\ wire = <<>> /\ tasks = <<>> /\ answers = <<>> /\ inFlight = {} /\ syntheticTerminalEmitted = FALSE
      /\ accs = [c \in Calls |-> NoAcc]
  BY DEF Init
<1>2. Len(wire) = 0 /\ Len(tasks) = 0 /\ Len(answers) = 0 /\ Len(<<>>) = 0
  BY <1>1, NoSeq
<1>3. \A n : n \notin 1 .. Len(wire) /\ n \notin 1 .. Len(tasks) /\ n \notin 1 .. Len(answers) /\ n \notin 1 .. Len(<<>>)
  BY <1>2
<1>4. DOMAIN answers = 1 .. Len(answers)
  <2>1. IsSeq(answers)
    BY <1>1, NoSeq
  <2> QED BY <2>1, SeqDomain
<1>5. OrderOK /\ VerdictsOK /\ CountOK
  BY <1>3 DEF OrderOK, VerdictsOK, CountOK
<1>6. HeldOK
  <2>1. \A c \in Calls : accs[c].frames = <<>>
    BY <1>1 DEF NoAcc
  <2> QED BY <1>3, <2>1 DEF HeldOK
<1>7. ~Looping /\ ~(\E c : Answered(c)) /\ ~Denied
  BY <1>3, <1>4 DEF Looping, Answered, Denied
<1>8. SettlingOK /\ VisitedOK /\ DrainedOK /\ DenialOK
  BY <1>1, <1>3, <1>7 DEF SettlingOK, VisitedOK, DrainedOK, DenialOK
<1> QED BY <1>5, <1>6, <1>8 DEF AccountInv

LEMMA StepAccounted == ASSUME StreamInv, AccountInv, [Next]_vars PROVE AccountInv'
<1>1. CASE UNCHANGED vars
  BY <1>1, StepLess
<1>2. CASE Next
  <2>1. DOMAIN tasks = 1 .. Len(tasks)
    BY SeqDomain DEF StreamInv, TasksOK
  <2>2. CASE \E f \in Offers : OnData(f)
    BY <2>2, DataAccounted
  <2>3. CASE \E half \in {<<>>, <<WireFrame("cut", <<>>, <<>>)>>} : OnUpstreamEnd(half)
    BY <2>3, UpstreamEndAccounted DEF Cut
  <2>4. CASE OnError
    BY <2>4, ErrorAccounted
  <2>5. ASSUME NEW t \in 1 .. Len(tasks), Run(t) PROVE AccountInv'
    <3>1. CASE OnText(t)
      BY <3>1, TextAccounted
    <3>2. CASE OnStart(t)
      BY <3>2, StartAccounted
    <3>3. CASE OnBuffered(t)
      BY <3>3, BufferedAccounted
    <3>4. CASE OnFinish(t) \/ OnEnd(t)
      BY <3>4, FinishAccounted
    <3>5. CASE Answer(t)
      BY <3>5, AnswerAccounted
    <3>6. CASE OnClose(t)
      BY <3>6, CloseAccounted
    <3> QED BY <2>5, <3>1, <3>2, <3>3, <3>4, <3>5, <3>6 DEF Run
  <2> QED BY <1>2, <2>1, <2>2, <2>3, <2>4, <2>5 DEF Next
<1> QED BY <1>1, <1>2

(* Once the stream is completed, every frame has been passed. *)
LEMMA AllHandled ==
    ASSUME WireOK, TasksOK, LoopsOK, closed = "done", NEW n \in 1 .. Len(wire)
    PROVE  Passed(n, 1)
<1>1. n \in 1 .. Len(tasks) /\ n \in Nat /\ Len(wire) \in Nat
  BY Lengths
<1>2. tasks[n].over /\ TaskType(n)
  BY <1>1 DEF LoopsOK, TasksOK
<1>3. CASE ~tasks[n].eof
  <2>1. tasks[n].at = n + 1
    BY <1>2, <1>3 DEF TaskType
  <2> QED BY <1>1, <2>1 DEF Passed
<1>4. CASE tasks[n].eof
  <2>1. tasks[n].ev = 2
    BY <1>2, <1>4 DEF TaskType
  <2> QED BY <2>1 DEF Passed
<1> QED BY <1>3, <1>4 DEF TaskType

(* When the stream completes, the consumer was given each frame as often as it *)
(* should have it: the frames of a call once if the call was allowed and never *)
(* otherwise (flushTool is its only way out, and it is reached once per call), *)
(* a terminal frame once unless a call was denied (syntheticTerminalEmitted    *)
(* knows of every denial), any other frame once.                               *)
THEOREM EveryFrameAccounted == Spec => [](Serial => FramesAccounted)
<1>1. Init => (Serial => StreamInv /\ AccountInv)
  BY InitOK, InitAccounted
<1>2. (Serial => StreamInv /\ AccountInv) /\ [Next]_vars => (Serial => StreamInv /\ AccountInv)'
  <2> SUFFICES ASSUME Serial => StreamInv /\ AccountInv, [Next]_vars, Serial' PROVE (StreamInv /\ AccountInv)'
    OBVIOUS
  <2>1. Serial
    BY PlaneKept DEF Serial
  <2>2. StreamInv'
    BY <2>1, StepOK
  <2>3. AccountInv'
    BY <2>1, StepAccounted
  <2> QED BY <2>2, <2>3
<1>3. (Serial => StreamInv /\ AccountInv) => (Serial => FramesAccounted)
  <2> SUFFICES ASSUME StreamInv, AccountInv, closed = "done", NEW n \in DOMAIN wire
               PROVE  Cardinality({i \in DOMAIN out : RawAt(i) /\ out[i].id = n}) =
                          IF Carries(n) THEN Cardinality({c \in CallsIn(n) : Sanctioned(c)})
                          ELSE IF Finishes(n) /\ Denied THEN 0 ELSE 1
    BY DEF FramesAccounted
  <2>1. WireOK /\ TasksOK /\ LoopsOK /\ OutOK /\ CountOK
    BY DEF StreamInv, GateOK, AccountInv
  <2>2. n \in 1 .. Len(wire) /\ DOMAIN out = 1 .. Len(out)
    <3>1. IsSeq(wire) /\ IsSeq(out)
      BY <2>1 DEF WireOK, OutOK, OutIs
    <3> QED BY <3>1, SeqDomain
  <2>3. Passed(n, 1)
    BY <2>1, <2>2, AllHandled
  <2>4. {i \in DOMAIN out : RawAt(i) /\ out[i].id = n} = Emitted(out, n)
    BY <2>2 DEF Emitted, RawAt
  <2> QED BY <2>1, <2>2, <2>3, <2>4 DEF CountOK, Count
<1> QED BY <1>1, <1>2, <1>3, PTL DEF Spec
=============================================================================
