---------------------------- MODULE GuardProofs ----------------------------
(***************************************************************************)
(* The guards of tools and of routes.                                      *)
(*                                                                         *)
(* SdkTools, for any jobs, any number of calls, any passes of              *)
(* enforceAllTools and any polling interval, over any answers that keep    *)
(* the providers' protocols (AnswersAssumption); and RequestGuard, for any *)
(* number of requests and keys, any threshold, any timeout, any cache      *)
(* size, every adapter and every fail mode.                                *)
(***************************************************************************)
EXTENDS SdkTools, RequestGuard, LruMapProofs, FiniteSetTheorems

(* The calls of the in-process wrappers. *)

ToolFields == {"job", "phase", "asked", "verdict", "governed", "rows", "src", "st", "queue", "out",
               "denied", "allowed", "fell", "finalized", "result", "polls", "clock"}
IsRun(k) == k = [f \in ToolFields |-> k[f]] /\ k.job \in Jobs

(* The rows of a call when it is at its gate, and when its model answers. *)
Opening(j) == IF j.wrap.start = "before" THEN <<"start">> ELSE <<>>
Begun(j)   == IF j.wrap.start = "no" THEN <<>> ELSE <<"start">>

(* The rows of a stream that ended, with a row for each of n calls. *)
Ended(s, n) == Append(s \o [i \in 1 .. n |-> "tool"], "end")

Relays == {"openai", "iterable", "readable"}
ThroughRelay(k) == k.job.stream /\ k.job.wrap.relay \in Relays
ChunksOf(j) == Chunks(ToolsOf(j.answer))
StreamState(j) == [buf : Seq(ChunksOf(j)), tools : SUBSET ToolsOf(j.answer), fin : StopReasons]

Passed(k) == k.job.wrap.gated => k.verdict = "allow" /\ k.asked = 1

(* Nothing of the model's answer is there yet. *)
Untouched(k) ==
    /\ k.src = k.job.answer /\ k.queue = <<>> /\ k.out = <<>> /\ k.st = newStreamState
    /\ k.governed = FALSE /\ k.finalized = FALSE

(* At the gate. *)
Held(k) ==
    /\ k.result = "none" /\ k.rows = Opening(k.job) /\ Untouched(k)
    /\ k.phase = "gate" => k.asked = 0 /\ k.fell = FALSE
    /\ k.phase = "fallback" => k.asked = 1 /\ k.fell = TRUE

(* A stream that is consumed through a relay has no row but its first.     *)
Streaming(k) ==
    /\ k.phase \in {"create", "open", "next", "verdicts"}
    /\ k.rows = Begun(k.job) /\ k.finalized = FALSE
    /\ k.src \in Seq(ChunksOf(k.job)) /\ k.queue \in Seq(ChunksOf(k.job)) /\ k.out \in Seq(ChunksOf(k.job))
    /\ k.st \in StreamState(k.job) /\ (~k.governed => k.st = newStreamState)
    /\ k.governed \in BOOLEAN /\ (k.governed => k.job.prov = "openai")
    /\ k.phase = "verdicts" => k.governed

Running(k) ==
    /\ k.phase \in {"tool", "create", "open", "next", "verdicts", "poll"}
    /\ k.result = "none" /\ Passed(k) /\ (ThroughRelay(k) => Streaming(k))

(* A refused call has the row of its denial. *)
Refused(k) == k.rows = IF k.job.wrap.mute /\ k.fell THEN Opening(k.job) ELSE Append(Opening(k.job), "deny")

(* The rows that close a stream.  An error closes it without an end. *)
Closed(k) ==
    LET ended == \E n \in Nat : k.rows = Ended(Begun(k.job), n)
        threw == k.rows = Append(Begun(k.job), "error")
    IN  /\ k.job.wrap.relay = "openai" =>
              /\ k.finalized = TRUE
              /\ \/ threw /\ k.result # "stream"
                 \/ \E n \in Nat : n = Cardinality(ToolsOf(k.out)) /\ k.rows = Ended(Begun(k.job), n)
        /\ k.job.wrap.relay = "iterable" /\ ~k.job.manual => ended \/ threw
        /\ k.job.wrap.relay = "readable" /\ k.result = "stream" => ended

Finished(k) ==
    /\ k.phase \in {"done", "over"}
    /\ k.result \notin Refusals \cup {"error"} => Passed(k)
    /\ k.result \in Refusals => k.phase = "done" /\ Refused(k)
    /\ ThroughRelay(k) /\ k.verdict # "fails" /\ k.result \in {"stream", "broken", "error"} => Closed(k)

RunOK(k) ==
    \/ k.phase = "idle"
    \/ /\ IsRun(k)
       /\ \/ k.phase \in {"gate", "fallback"} /\ Held(k)
          \/ Running(k)
          \/ Finished(k)

ToolsInv ==
    /\ layers \in 0 .. 1 /\ call = [c \in Calls |-> call[c]]
    /\ \A c \in Calls :
          /\ RunOK(call[c])
          /\ call[c].phase # "idle" /\ call[c].job.layered => layers = 1
-----------------------------------------------------------------------------
(* What the operators on a call do to its record. *)
Same(k, t) == IsRun(t) /\ t.job = k.job /\ t.asked = k.asked /\ t.verdict = k.verdict /\ t.fell = k.fell
SameData(k, t) ==
    /\ t.src = k.src /\ t.st = k.st /\ t.queue = k.queue /\ t.out = k.out /\ t.governed = k.governed
SameEnd(k, t) == t.phase = k.phase /\ t.result = k.result

LEMMA RowFacts ==
    ASSUME NEW k, IsRun(k), NEW r
    PROVE  /\ Same(k, Row(k, r)) /\ SameData(k, Row(k, r)) /\ SameEnd(k, Row(k, r))
           /\ Row(k, r).finalized = k.finalized /\ Row(k, r).rows = Append(k.rows, r)
BY DEF IsRun, ToolFields, Row, Same, SameData, SameEnd

LEMMA RowIfFacts ==
    ASSUME NEW k, IsRun(k), NEW b, NEW r
    PROVE  /\ Same(k, RowIf(k, b, r)) /\ SameData(k, RowIf(k, b, r)) /\ SameEnd(k, RowIf(k, b, r))
           /\ RowIf(k, b, r).finalized = k.finalized
           /\ RowIf(k, b, r).rows = IF b THEN Append(k.rows, r) ELSE k.rows
BY RowFacts DEF RowIf, Same, SameData, SameEnd

LEMMA SettledFacts ==
    ASSUME NEW k, IsRun(k), NEW r
    PROVE  /\ Same(k, Settled(k, r)) /\ SameData(k, Settled(k, r))
           /\ Settled(k, r).phase = "done" /\ Settled(k, r).result = r
           /\ Settled(k, r).finalized = k.finalized /\ Settled(k, r).rows = k.rows
BY DEF IsRun, ToolFields, Settled, Same, SameData

LEMMA DeliveredFacts ==
    ASSUME NEW k, IsRun(k), NEW s
    PROVE  /\ Same(k, Delivered(k, s)) /\ SameEnd(k, Delivered(k, s))
           /\ Delivered(k, s).out = k.out \o s /\ Delivered(k, s).rows = k.rows
           /\ Delivered(k, s).src = k.src /\ Delivered(k, s).st = k.st /\ Delivered(k, s).queue = k.queue
           /\ Delivered(k, s).governed = k.governed /\ Delivered(k, s).finalized = k.finalized
BY DEF IsRun, ToolFields, Delivered, Same, SameEnd
LEMMA PatchedFacts ==
    ASSUME NEW k, IsRun(k)
    PROVE  /\ Same(k, patchedCreate(k)) /\ patchedCreate(k).rows = k.rows
           /\ patchedCreate(k).phase = "create" /\ patchedCreate(k).result = k.result
           /\ patchedCreate(k).src = k.src /\ patchedCreate(k).st = k.st
           /\ patchedCreate(k).queue = k.queue /\ patchedCreate(k).out = k.out
           /\ patchedCreate(k).finalized = k.finalized
           /\ patchedCreate(k).governed \in BOOLEAN
           /\ patchedCreate(k).governed => k.job.prov \in Providers
<1>1. PICK g \in BOOLEAN : g = (k.job.prov \in Providers /\ ready /\ sdk[k.job.prov])
  OBVIOUS
<1>2. g => k.job.prov \in Providers
  BY <1>1
<1>3. patchedCreate(k) = [k EXCEPT !.phase = "create", !.governed = g]
  BY <1>1 DEF patchedCreate
<1> QED
  BY <1>2, <1>3 DEF IsRun, ToolFields, Same

LEMMA PhaseFacts ==
    ASSUME NEW k, IsRun(k), NEW p, NEW t, t = [k EXCEPT !.phase = p]
    PROVE  /\ Same(k, t) /\ SameData(k, t) /\ t.rows = k.rows /\ t.finalized = k.finalized
           /\ t.phase = p /\ t.result = k.result
BY DEF IsRun, ToolFields, Same, SameData

LEMMA NewStreamState ==
    ASSUME NEW j
    PROVE  newStreamState \in StreamState(j)
<1>1. PICK C : C = Seq(ChunksOf(j))
  OBVIOUS
<1>2. PICK T : T = SUBSET ToolsOf(j.answer)
  OBVIOUS
<1>3. <<>> \in Seq(ChunksOf(j))
  OBVIOUS
<1>4. {} \in T
  BY <1>2
<1>5. PICK e : e = <<>>
  OBVIOUS
<1>6. e \in C
  BY <1>1, <1>3, <1>5
<1>7. StreamState(j) = [buf : C, tools : T, fin : StopReasons]
  BY <1>1, <1>2 DEF StreamState
<1>8. newStreamState = [buf |-> e, tools |-> {}, fin |-> "none"]
  BY <1>5 DEF newStreamState
<1>9. "none" \in StopReasons
  BY DEF StopReasons
<1> QED
  BY <1>4, <1>6, <1>7, <1>8, <1>9

LEMMA ProceedKeeps ==
    ASSUME NEW k, IsRun(k), Untouched(k), k.result = "none", k.rows = Opening(k.job), Passed(k)
    PROVE  RunOK(Proceed(k)) /\ Proceed(k).job = k.job
<1> DEFINE w == k.job.wrap
<1>0. /\ w.start \in {"no", "before", "after"} /\ w.runs \in {"nothing", "llm", "tool", "poll"}
      /\ k.job.stream => w.runs = "llm"
      /\ w.relay = "openai" => k.job.prov = "openai"
      /\ w.relay \in {"iterable", "readable"} => k.job.prov \notin {"openai", "anthropic"}
      /\ k.job.answer \in Seq(ChunksOf(k.job))
  BY JobsAssumption DEF IsRun, ChunksOf
<1>1. CASE w.runs = "nothing"
  <2>1. PICK t : t = RowIf(k, w.ok, "ok")
    OBVIOUS
  <2>2. PICK u : u = Settled(t, "allowed")
    OBVIOUS
  <2>3. Proceed(k) = u
    BY <1>1, <2>1, <2>2 DEF Proceed
  <2>4. IsRun(t) /\ Same(k, t)
    BY <2>1, RowIfFacts DEF Same
  <2>5. Same(t, u) /\ u.phase = "done" /\ u.result = "allowed"
    BY <2>2, <2>4, SettledFacts
  <2>6. IsRun(u) /\ u.job = k.job /\ Passed(u)
    BY <2>4, <2>5 DEF Same, Passed
  <2> QED
    BY <2>3, <2>5, <2>6 DEF RunOK, Finished, Refusals
<1>2. CASE w.runs = "llm"
  <2>1. PICK t : t = RowIf(k, w.start = "after", "start")
    OBVIOUS
  <2>2. PICK u : u = patchedCreate(t)
    OBVIOUS
  <2>3. Proceed(k) = u
    BY <1>2, <2>1, <2>2 DEF Proceed
  <2>4. /\ IsRun(t) /\ Same(k, t) /\ SameData(k, t) /\ SameEnd(k, t) /\ t.finalized = k.finalized
        /\ t.rows = IF w.start = "after" THEN Append(k.rows, "start") ELSE k.rows
    <3>1. CASE w.start = "after"
      <4>1. t = Row(k, "start")
        BY <2>1, <3>1 DEF RowIf
      <4> QED
        BY <3>1, <4>1, RowFacts DEF Same
    <3>2. CASE w.start # "after"
      <4>1. t = k
        BY <2>1, <3>2 DEF RowIf
      <4> QED
        BY <3>2, <4>1 DEF Same, SameData, SameEnd
    <3> QED
      BY <3>1, <3>2
  <2>5. t.rows = Begun(k.job)
    <3>1. Append(<<>>, "start") = <<"start">>
      OBVIOUS
    <3> QED
      BY <1>0, <2>4, <3>1 DEF Opening, Begun
  <2>6. /\ Same(t, u) /\ u.rows = t.rows /\ u.phase = "create" /\ u.result = t.result
        /\ u.src = t.src /\ u.st = t.st /\ u.queue = t.queue /\ u.out = t.out
        /\ u.finalized = t.finalized /\ u.governed \in BOOLEAN
        /\ u.governed => t.job.prov \in Providers
    BY <2>2, <2>4, PatchedFacts
  <2>7. IsRun(u) /\ u.job = k.job /\ Passed(u) /\ u.result = "none"
    BY <2>4, <2>6 DEF Same, SameEnd, Passed
  <2>8. ASSUME ThroughRelay(u) PROVE Streaming(u)
    <3>1. u.governed => k.job.prov = "openai"
      BY <1>0, <2>4, <2>6, <2>7, <2>8 DEF ThroughRelay, Relays, Providers, Same
    <3>2. <<>> \in Seq(ChunksOf(k.job))
      OBVIOUS
    <3>3. newStreamState \in StreamState(k.job)
      BY NewStreamState
    <3>4. /\ u.src \in Seq(ChunksOf(k.job)) /\ u.queue \in Seq(ChunksOf(k.job)) /\ u.out \in Seq(ChunksOf(k.job))
          /\ u.st = newStreamState /\ u.finalized = FALSE
      BY <1>0, <2>4, <2>6, <3>2 DEF Untouched, SameData
    <3> QED
      BY <2>5, <2>6, <2>7, <3>1, <3>3, <3>4 DEF Streaming
  <2> QED
    BY <2>3, <2>6, <2>7, <2>8 DEF RunOK, Running
<1>3. CASE w.runs \in {"tool", "poll"}
  <2>1. PICK u : u = [k EXCEPT !.phase = w.runs]
    OBVIOUS
  <2>2. Proceed(k) = u
    BY <1>3, <2>1 DEF Proceed
  <2>3. Same(k, u) /\ u.phase = w.runs /\ u.result = k.result
    BY <2>1, PhaseFacts
  <2>4. IsRun(u) /\ u.job = k.job /\ Passed(u) /\ ~ThroughRelay(u)
    BY <1>0, <1>3, <2>3 DEF Same, Passed, ThroughRelay
  <2> QED
    BY <1>3, <2>2, <2>3, <2>4 DEF RunOK, Running
<1> QED
  BY <1>0, <1>1, <1>2, <1>3

LEMMA SetKeeps ==
    ASSUME ToolsInv, NEW c \in Calls, NEW t, RunOK(t), t.job.layered => layers = 1,
           Set(c, t), layers' = layers
    PROVE  ToolsInv'
<1>1. call' = [call EXCEPT ![c] = t]
  BY DEF Set
<1>2. call' = [d \in Calls |-> call'[d]]
  BY <1>1 DEF ToolsInv
<1>3. \A d \in Calls : call'[d] = IF d = c THEN t ELSE call[d]
  BY <1>1 DEF ToolsInv
<1>4. ASSUME NEW d \in Calls
      PROVE  RunOK(call'[d]) /\ (call'[d].phase # "idle" /\ call'[d].job.layered => layers' = 1)
  BY <1>3 DEF ToolsInv
<1>5. layers' \in 0 .. 1
  BY DEF ToolsInv
<1>6. \A d \in Calls : RunOK(call'[d]) /\ (call'[d].phase # "idle" /\ call'[d].job.layered => layers' = 1)
  BY <1>4
<1> QED
  BY <1>2, <1>5, <1>6 DEF ToolsInv, RunOK, IsRun, Held, Running, Finished, Passed, Untouched, Streaming, Closed, Refused, ThroughRelay
-----------------------------------------------------------------------------
(* The relays: what they add to the rows, and that it closes the stream. *)
LEMMA ChunkParts ==
    ASSUME NEW T, NEW ch \in Chunks(T)
    PROVE  ch.tools \subseteq T /\ ch.fin \in StopReasons /\ ch.type \in ChunkTypes
BY DEF Chunks

LEMMA ToolsOfBound ==
    ASSUME NEW T, NEW s \in Seq(Chunks(T))
    PROVE  ToolsOf(s) \subseteq T
<1>1. \A i \in DOMAIN s : s[i] \in Chunks(T)
  OBVIOUS
<1>2. \A i \in DOMAIN s : s[i].tools \subseteq T
  BY <1>1, ChunkParts
<1> QED
  BY <1>2 DEF ToolsOf

LEMMA ToolsCounted ==
    ASSUME NEW k, IsRun(k), k.out \in Seq(ChunksOf(k.job))
    PROVE  /\ Cardinality(ToolsOf(k.out)) \in Nat
           /\ Cardinality({i \in DOMAIN k.out : k.out[i].tools # {}}) \in Nat
<1>1. IsFiniteSet(ToolsOf(k.job.answer))
  BY JobsAssumption DEF IsRun
<1>2. PICK T : T = ToolsOf(k.job.answer)
  OBVIOUS
<1>3. PICK s : s = k.out
  OBVIOUS
<1>4. s \in Seq(Chunks(T)) /\ IsFiniteSet(T)
  BY <1>1, <1>2, <1>3 DEF ChunksOf
<1>5. ToolsOf(s) \subseteq T
  BY <1>4, ToolsOfBound
<1>6. IsFiniteSet(ToolsOf(s))
  BY <1>4, <1>5, FS_Subset
<1>7. DOMAIN s = 1 .. Len(s) /\ Len(s) \in Nat
  BY <1>4
<1>8. IsFiniteSet(1 .. Len(s))
  BY <1>7, FS_Interval
<1>9. {i \in DOMAIN s : s[i].tools # {}} \subseteq 1 .. Len(s)
  BY <1>7
<1>10. IsFiniteSet({i \in DOMAIN s : s[i].tools # {}})
  BY <1>8, <1>9, FS_Subset
<1>11. Cardinality(ToolsOf(s)) \in Nat
  BY <1>6, FS_CardinalityType
<1>12. Cardinality({i \in DOMAIN s : s[i].tools # {}}) \in Nat
  BY <1>10, FS_CardinalityType
<1>13. ToolsOf(k.out) = ToolsOf(s)
  BY <1>3
<1>14. {i \in DOMAIN k.out : k.out[i].tools # {}} = {i \in DOMAIN s : s[i].tools # {}}
  BY <1>3
<1> QED
  BY <1>11, <1>12, <1>13, <1>14

LEMMA FinalizedFacts ==
    ASSUME NEW k, IsRun(k), NEW t, t = [k EXCEPT !.finalized = TRUE]
    PROVE  /\ Same(k, t) /\ SameData(k, t) /\ SameEnd(k, t) /\ t.finalized = TRUE /\ t.rows = k.rows
BY DEF IsRun, ToolFields, Same, SameData, SameEnd

(* The rows of an end, n of them for tools. *)
LEMMA EndRows ==
    ASSUME NEW k, IsRun(k), NEW n, NEW t, t = Row(RowTimes(k, n, "tool"), "end")
    PROVE  /\ Same(k, t) /\ SameData(k, t) /\ SameEnd(k, t) /\ t.finalized = k.finalized
           /\ t.rows = Ended(k.rows, n)
<1>1. PICK u : u = RowTimes(k, n, "tool")
  OBVIOUS
<1>2. /\ Same(k, u) /\ SameData(k, u) /\ SameEnd(k, u) /\ u.finalized = k.finalized
      /\ u.rows = k.rows \o [i \in 1 .. n |-> "tool"]
  BY <1>1 DEF IsRun, ToolFields, RowTimes, Same, SameData, SameEnd
<1>3. IsRun(u)
  BY <1>2 DEF Same
<1>4. /\ Same(u, t) /\ SameData(u, t) /\ SameEnd(u, t) /\ t.finalized = u.finalized
      /\ t.rows = Append(u.rows, "end")
  BY <1>1, <1>3, RowFacts
<1>5. t.rows = Ended(k.rows, n)
  BY <1>2, <1>4 DEF Ended
<1> QED
  BY <1>2, <1>4, <1>5 DEF Same, SameData, SameEnd

LEMMA FinalizeFacts ==
    ASSUME NEW k, IsRun(k), NEW t, t = finalize(k)
    PROVE  /\ Same(k, t) /\ SameEnd(k, t) /\ t.out = k.out
           /\ k.finalized => t = k
           /\ ~k.finalized => t.finalized = TRUE /\ t.rows = Ended(k.rows, Cardinality(ToolsOf(k.out)))
<1>1. CASE k.finalized
  <2>1. t = k
    BY <1>1 DEF finalize
  <2> QED
    BY <1>1, <2>1 DEF Same, SameEnd
<1>2. CASE ~k.finalized
  <2>1. PICK u : u = Row(RowTimes(k, Cardinality(ToolsOf(k.out)), "tool"), "end")
    OBVIOUS
  <2>2. t = [u EXCEPT !.finalized = TRUE]
    BY <1>2, <2>1 DEF finalize
  <2>3. Same(k, u) /\ SameData(k, u) /\ SameEnd(k, u) /\ u.rows = Ended(k.rows, Cardinality(ToolsOf(k.out)))
    BY <2>1, EndRows
  <2>4. Same(u, t) /\ SameData(u, t) /\ SameEnd(u, t) /\ t.finalized = TRUE /\ t.rows = u.rows
    BY <2>2, <2>3, FinalizedFacts DEF Same
  <2> QED
    BY <1>2, <2>3, <2>4 DEF Same, SameData, SameEnd
<1> QED
  BY <1>1, <1>2

LEMMA StreamDoneFacts ==
    ASSUME NEW k, IsRun(k), NEW t, t = StreamDone(k)
    PROVE  /\ Same(k, t) /\ SameEnd(k, t) /\ t.out = k.out
           /\ k.job.wrap.relay = "openai" => t = finalize(k)
           /\ k.job.wrap.relay \in {"iterable", "readable"} =>
                 t.rows = Ended(k.rows, Cardinality({i \in DOMAIN k.out : k.out[i].tools # {}}))
<1>1. CASE k.job.wrap.relay = "openai"
  <2>1. t = finalize(k)
    BY <1>1 DEF StreamDone
  <2> QED
    BY <1>1, <2>1, FinalizeFacts
<1>2. CASE k.job.wrap.relay \in {"iterable", "readable"}
  <2>1. t = afterGenerate(k)
    BY <1>2 DEF StreamDone
  <2>2. PICK n : n = Cardinality({i \in DOMAIN k.out : k.out[i].tools # {}})
    OBVIOUS
  <2>3. t = Row(RowTimes(k, n, "tool"), "end")
    BY <2>1, <2>2 DEF afterGenerate
  <2>4. Same(k, t) /\ SameData(k, t) /\ SameEnd(k, t) /\ t.rows = Ended(k.rows, n)
    BY <2>3, EndRows
  <2> QED
    BY <1>2, <2>2, <2>4 DEF SameData
<1>3. CASE k.job.wrap.relay \notin {"openai", "iterable", "readable"}
  <2>1. t = k
    BY <1>3 DEF StreamDone
  <2> QED
    BY <1>3, <2>1 DEF Same, SameEnd
<1> QED
  BY <1>1, <1>2, <1>3

LEMMA StreamThrowsFacts ==
    ASSUME NEW k, IsRun(k), NEW t, t = StreamThrows(k)
    PROVE  /\ Same(k, t)
           /\ k.job.wrap.relay = "openai" => t.finalized = TRUE
           /\ k.job.wrap.relay \in {"openai", "iterable"} => t.rows = Append(k.rows, "error")
<1>1. CASE k.job.wrap.relay = "openai"
  <2>1. PICK u : u = Row(k, "error")
    OBVIOUS
  <2>2. t = [u EXCEPT !.finalized = TRUE]
    BY <1>1, <2>1 DEF StreamThrows
  <2>3. Same(k, u) /\ u.rows = Append(k.rows, "error")
    BY <2>1, RowFacts
  <2>4. Same(u, t) /\ t.finalized = TRUE /\ t.rows = u.rows
    BY <2>2, <2>3, FinalizedFacts DEF Same
  <2> QED
    BY <1>1, <2>3, <2>4 DEF Same
<1>2. CASE k.job.wrap.relay = "iterable"
  <2>1. t = Row(k, "error")
    BY <1>2 DEF StreamThrows
  <2> QED
    BY <1>2, <2>1, RowFacts
<1>3. CASE k.job.wrap.relay \notin {"openai", "iterable"}
  <2>1. t = k
    BY <1>3 DEF StreamThrows
  <2> QED
    BY <1>3, <2>1 DEF Same
<1> QED
  BY <1>1, <1>2, <1>3

LEMMA DoneCloses ==
    ASSUME NEW k, IsRun(k), Running(k), NEW r \in {"stream", "broken"}, NEW t, t = Settled(StreamDone(k), r)
    PROVE  RunOK(t) /\ t.job = k.job
<1>1. PICK u : u = StreamDone(k)
  OBVIOUS
<1>2. /\ Same(k, u) /\ SameEnd(k, u) /\ u.out = k.out
      /\ k.job.wrap.relay = "openai" => u = finalize(k)
      /\ k.job.wrap.relay \in {"iterable", "readable"} =>
            u.rows = Ended(k.rows, Cardinality({i \in DOMAIN k.out : k.out[i].tools # {}}))
  BY <1>1, StreamDoneFacts
<1>3. /\ Same(u, t) /\ SameData(u, t) /\ t.phase = "done" /\ t.result = r
      /\ t.finalized = u.finalized /\ t.rows = u.rows
  BY <1>1, <1>2, SettledFacts DEF Same
<1>4. IsRun(t) /\ t.job = k.job /\ Passed(t) /\ t.out = k.out
  BY <1>2, <1>3 DEF Same, SameData, Running, Passed
<1>5. ASSUME ThroughRelay(t) PROVE Closed(t)
  <2>1. Streaming(k)
    BY <1>4, <1>5 DEF Running, ThroughRelay
  <2>2. /\ k.rows = Begun(k.job) /\ k.finalized = FALSE
        /\ Cardinality(ToolsOf(k.out)) \in Nat
        /\ Cardinality({i \in DOMAIN k.out : k.out[i].tools # {}}) \in Nat
    BY <2>1, ToolsCounted DEF Streaming
  <2>3. CASE t.job.wrap.relay = "openai"
    <3>1. PICK n \in Nat : n = Cardinality(ToolsOf(k.out))
      BY <2>2
    <3>2. u.finalized = TRUE /\ u.rows = Ended(k.rows, Cardinality(ToolsOf(k.out)))
      BY <1>2, <1>4, <2>2, <2>3, FinalizeFacts
    <3>3. t.rows = Ended(Begun(t.job), n)
      BY <1>3, <1>4, <2>2, <3>1, <3>2
    <3>4. n = Cardinality(ToolsOf(t.out))
      BY <1>4, <3>1
    <3> QED
      BY <1>3, <2>3, <3>2, <3>3, <3>4 DEF Closed
  <2>4. CASE t.job.wrap.relay \in {"iterable", "readable"}
    <3>1. PICK n \in Nat : n = Cardinality({i \in DOMAIN k.out : k.out[i].tools # {}})
      BY <2>2
    <3>2. u.rows = Ended(k.rows, n)
      BY <1>2, <1>4, <2>4, <3>1
    <3>3. t.rows = Ended(Begun(t.job), n)
      BY <1>3, <1>4, <2>2, <3>2
    <3> QED
      BY <2>4, <3>3 DEF Closed
  <2> QED
    BY <1>5, <2>3, <2>4 DEF ThroughRelay, Relays
<1>6. Finished(t)
  BY <1>3, <1>4, <1>5 DEF Finished, Refusals
<1> QED
  BY <1>4, <1>6 DEF RunOK

LEMMA ThrowCloses ==
    ASSUME NEW k, IsRun(k), Running(k), NEW t, t = Settled(StreamThrows(k), "error")
    PROVE  RunOK(t) /\ t.job = k.job
<1>1. PICK u : u = StreamThrows(k)
  OBVIOUS
<1>2. /\ Same(k, u)
      /\ k.job.wrap.relay = "openai" => u.finalized = TRUE
      /\ k.job.wrap.relay \in {"openai", "iterable"} => u.rows = Append(k.rows, "error")
  BY <1>1, StreamThrowsFacts
<1>3. /\ Same(u, t) /\ t.phase = "done" /\ t.result = "error"
      /\ t.finalized = u.finalized /\ t.rows = u.rows
  BY <1>1, <1>2, SettledFacts DEF Same
<1>4. IsRun(t) /\ t.job = k.job /\ Passed(t)
  BY <1>2, <1>3 DEF Same, Running, Passed
<1>5. ASSUME ThroughRelay(t) PROVE Closed(t)
  <2>1. k.rows = Begun(k.job)
    BY <1>4, <1>5 DEF Running, ThroughRelay, Streaming
  <2>2. t.job.wrap.relay \in {"openai", "iterable"} => t.rows = Append(Begun(t.job), "error")
    BY <1>2, <1>3, <1>4, <2>1
  <2> QED
    BY <1>2, <1>3, <1>4, <2>2 DEF Closed
<1>6. Finished(t)
  BY <1>3, <1>4, <1>5 DEF Finished, Refusals
<1> QED
  BY <1>4, <1>6 DEF RunOK

(* What a patch keeps and passes on carries no other calls than the answer. *)
LEMMA IngestFacts ==
    ASSUME NEW T, NEW S, S = [buf : Seq(Chunks(T)), tools : SUBSET T, fin : StopReasons],
           NEW st \in S, NEW ch \in Chunks(T), NEW in, in = wrapOpenAIStream(st, ch)
    PROVE  in.st \in S /\ in.out \in Seq(Chunks(T)) /\ in.last \in BOOLEAN
<1> DEFINE tools == st.tools \cup ch.tools
           fin   == IF ch.fin # "none" THEN ch.fin ELSE st.fin
           hold  == tools # {} \/ fin = "none"
           buf   == IF hold THEN Append(st.buf, ch) ELSE st.buf
           out   == IF hold THEN <<>> ELSE <<ch>>
<1>1. st.buf \in Seq(Chunks(T)) /\ st.tools \in SUBSET T /\ st.fin \in StopReasons
  OBVIOUS
<1>2. ch.tools \subseteq T /\ ch.fin \in StopReasons
  BY ChunkParts
<1>3. tools \in SUBSET T
  BY <1>1, <1>2
<1>4. fin \in StopReasons
  BY <1>1, <1>2
<1>5. buf \in Seq(Chunks(T))
  <2>1. Append(st.buf, ch) \in Seq(Chunks(T))
    BY <1>1
  <2> QED
    BY <1>1, <2>1
<1>6. out \in Seq(Chunks(T))
  <2>1. <<>> \in Seq(Chunks(T)) /\ <<ch>> \in Seq(Chunks(T))
    OBVIOUS
  <2> QED
    BY <2>1
<1>7. PICK last \in BOOLEAN : last = (hold /\ fin = "tool")
  OBVIOUS
<1>8. in = [st |-> [buf |-> buf, tools |-> tools, fin |-> fin], out |-> out, last |-> last]
  BY <1>7 DEF wrapOpenAIStream, Ingested
<1> HIDE DEF tools, fin, hold, buf, out
<1>9. [buf |-> buf, tools |-> tools, fin |-> fin] \in S
  BY <1>3, <1>4, <1>5
<1> QED
  BY <1>6, <1>7, <1>8, <1>9

LEMMA ReplayFacts ==
    ASSUME NEW T, NEW buf \in Seq(Chunks(T)), NEW denied, IsFiniteSet(denied)
    PROVE  replayOpenAI(buf, denied) \in Seq(Chunks(T))
<1> DEFINE rest == [i \in DOMAIN buf |-> rewriteChunkDroppingDenied(buf[i], denied)]
<1>1. CASE denied = {}
  BY <1>1 DEF replayOpenAI
<1>2. CASE denied # {}
  <2>1. ASSUME NEW i \in DOMAIN buf
        PROVE  rewriteChunkDroppingDenied(buf[i], denied) \in Chunks(T)
    <3>1. buf[i] \in Chunks(T)
      OBVIOUS
    <3>2. PICK ch \in Chunks(T) : ch = buf[i]
      BY <3>1
    <3>3. "tool" \in StopReasons /\ "stop" \in StopReasons
      BY DEF StopReasons
    <3>4. ch.tools \ denied \in SUBSET T /\ ch.fin \in StopReasons /\ ch.type \in ChunkTypes
      BY ChunkParts
    <3>5. PICK left : left = ch.tools \ denied
      OBVIOUS
    <3>6. PICK f : f = IF ch.fin = "tool" THEN (IF left # {} THEN "tool" ELSE "stop") ELSE ch.fin
      OBVIOUS
    <3>7. f \in StopReasons
      BY <3>3, <3>4, <3>6
    <3>8. rewriteChunkDroppingDenied(ch, denied) = [ch EXCEPT !.tools = left, !.fin = f]
      BY <3>5, <3>6 DEF rewriteChunkDroppingDenied, Chunks
    <3>9. [ch EXCEPT !.tools = left, !.fin = f] \in Chunks(T)
      BY <3>4, <3>5, <3>7 DEF Chunks
    <3> QED
      BY <3>2, <3>8, <3>9
  <2>2. rest \in Seq(Chunks(T))
    <3>1. DOMAIN buf = 1 .. Len(buf) /\ Len(buf) \in Nat
      OBVIOUS
    <3> QED
      BY <2>1, <3>1, IsASeq
  <2>3. Cardinality(denied) \in Nat
    BY FS_CardinalityType
  <2>4. \A f \in {"none", "stop"} : Chunk("notice", {}, f) \in Chunks(T)
    BY DEF Chunk, Chunks, ChunkTypes, StopReasons
  <2>5. Notices(denied) \in Seq(Chunks(T))
    <3>1. PICK n \in Nat : n = Cardinality(denied)
      BY <2>3
    <3>2. PICK x : x = Chunk("notice", {}, "none")
      OBVIOUS
    <3>3. Notices(denied) = [i \in 1 .. n |-> x]
      BY <3>1, <3>2 DEF Notices
    <3>4. x \in Chunks(T)
      BY <2>4, <3>2
    <3> QED
      BY <3>3, <3>4, IsASeq
  <2>6. <<Chunk("notice", {}, "stop")>> \in Seq(Chunks(T))
    BY <2>4
  <2>7. replayOpenAI(buf, denied) = rest \o Notices(denied) \o <<Chunk("notice", {}, "stop")>>
    BY <1>2 DEF replayOpenAI
  <2>8. rest \o Notices(denied) \in Seq(Chunks(T))
    BY <2>2, <2>5, ConcatProperties
  <2> QED
    BY <2>6, <2>7, <2>8, ConcatProperties
<1> QED
  BY <1>1, <1>2
-----------------------------------------------------------------------------
(* One lemma per action. *)
LEMMA RunOf ==
    ASSUME ToolsInv, NEW c \in Calls, call[c].phase # "idle", NEW k, k = call[c]
    PROVE  /\ IsRun(k) /\ (k.job.layered => layers = 1) /\ layers \in 0 .. 1
           /\ k.phase \in {"gate", "fallback"} => Held(k)
           /\ k.phase \in {"tool", "create", "open", "next", "verdicts", "poll"} => Running(k)
           /\ k.phase \in {"done", "over"} => Finished(k)
<1>1. RunOK(k) /\ (k.job.layered => layers = 1) /\ layers \in 0 .. 1
  BY DEF ToolsInv
<1> QED
  BY <1>1 DEF RunOK, Running, Finished

LEMMA OneGuard ==
    ASSUME NEW j \in Jobs, layers \in 0 .. 1, j.layered => layers = 1
    PROVE  /\ GuardsOf(j) \in 0 .. 1
           /\ GuardsOf(j) = 0 => ~j.wrap.gated
BY JobsAssumption DEF GuardsOf

LEMMA FreshFacts ==
    ASSUME NEW j \in Jobs, NEW t, t = Fresh(j)
    PROVE  /\ IsRun(t) /\ t.job = j /\ Untouched(t) /\ t.phase = "gate" /\ t.result = "none"
           /\ t.asked = 0 /\ t.fell = FALSE /\ t.rows = <<>>
BY DEF Fresh, IsRun, ToolFields, Untouched

LEMMA BeginKeeps ==
    ASSUME ToolsInv, NEW c \in Calls, Begin(c)
    PROVE  ToolsInv'
<1>1. PICK j \in Jobs :
        /\ j.layered => layers > 0
        /\ LET k == RowIf(Fresh(j), j.wrap.start = "before", "start")
           IN  Set(c, IF GuardsOf(j) = 0 THEN Proceed(k) ELSE k)
  BY DEF Begin
<1>2. PICK f : f = Fresh(j)
  OBVIOUS
<1>3. PICK k : k = RowIf(f, j.wrap.start = "before", "start")
  OBVIOUS
<1>4. PICK t : t = IF GuardsOf(j) = 0 THEN Proceed(k) ELSE k
  OBVIOUS
<1>5. Set(c, t) /\ layers' = layers
  BY <1>1, <1>2, <1>3, <1>4 DEF Begin
<1>6. layers \in 0 .. 1 /\ (j.layered => layers = 1)
  BY <1>1 DEF ToolsInv
<1>7. /\ IsRun(f) /\ f.job = j /\ Untouched(f) /\ f.phase = "gate" /\ f.result = "none"
      /\ f.asked = 0 /\ f.fell = FALSE /\ f.rows = <<>>
  BY <1>2, FreshFacts
<1>8. /\ Same(f, k) /\ SameData(f, k) /\ SameEnd(f, k) /\ k.finalized = f.finalized
      /\ k.rows = Opening(j)
  <2>1. CASE j.wrap.start = "before"
    <3>1. k = Row(f, "start")
      BY <1>3, <2>1 DEF RowIf
    <3>2. Append(<<>>, "start") = <<"start">>
      OBVIOUS
    <3> QED
      BY <1>7, <2>1, <3>1, <3>2, RowFacts DEF Opening
  <2>2. CASE j.wrap.start # "before"
    <3>1. k = f
      BY <1>3, <2>2 DEF RowIf
    <3> QED
      BY <1>7, <2>2, <3>1 DEF Opening, Same, SameData, SameEnd
  <2> QED
    BY <2>1, <2>2
<1>9. /\ IsRun(k) /\ k.job = j /\ Untouched(k) /\ k.result = "none" /\ k.phase = "gate"
      /\ k.asked = 0 /\ k.fell = FALSE
  BY <1>7, <1>8 DEF Same, SameData, SameEnd, Untouched
<1>10. RunOK(t) /\ t.job = j
  <2>1. CASE GuardsOf(j) = 0
    <3>1. Passed(k)
      BY <1>6, <1>9, <2>1, OneGuard DEF Passed
    <3> QED
      BY <1>4, <1>8, <1>9, <2>1, <3>1, ProceedKeeps
  <2>2. CASE GuardsOf(j) # 0
    BY <1>4, <1>8, <1>9, <2>2 DEF RunOK, Held
  <2> QED
    BY <2>1, <2>2
<1> QED
  BY <1>5, <1>6, <1>10, SetKeeps

LEMMA evaluateToolCallKeeps ==
    ASSUME ToolsInv, NEW c \in Calls, evaluateToolCall(c)
    PROVE  ToolsInv'
<1> PICK b : b = call[c]
  OBVIOUS
<1>1. b.phase = "gate" /\ layers' = layers
  BY DEF evaluateToolCall
<1>2. /\ IsRun(b) /\ (b.job.layered => layers = 1) /\ layers \in 0 .. 1 /\ Held(b)
  BY <1>1, RunOf
<1>3. PICK v \in {"allow", "deny", "noApiKey", "fails"} :
        LET k == [call[c] EXCEPT !.asked = @ + 1, !.verdict = v]
        IN  Set(c, CASE v = "allow"    -> IF k.asked < GuardsOf(k.job) THEN k ELSE Proceed(k)
                     [] v = "noApiKey" -> [k EXCEPT !.phase = "fallback", !.fell = TRUE]
                     [] OTHER          -> Denied(k))
  BY DEF evaluateToolCall
<1>4. PICK k : k = [b EXCEPT !.asked = @ + 1, !.verdict = v]
  OBVIOUS
<1>5. PICK t : t = CASE v = "allow"    -> IF k.asked < GuardsOf(k.job) THEN k ELSE Proceed(k)
                     [] v = "noApiKey" -> [k EXCEPT !.phase = "fallback", !.fell = TRUE]
                     [] OTHER          -> Denied(k)
  OBVIOUS
<1>6. Set(c, t)
  BY <1>3, <1>4, <1>5
<1>7. /\ IsRun(k) /\ k.job = b.job /\ SameData(b, k) /\ k.finalized = b.finalized
      /\ k.result = b.result /\ k.rows = b.rows /\ k.fell = b.fell
      /\ k.asked = b.asked + 1 /\ k.verdict = v
  BY <1>2, <1>4 DEF IsRun, ToolFields, SameData
<1>8. Untouched(k) /\ k.result = "none" /\ k.rows = Opening(k.job) /\ k.asked = 1 /\ k.fell = FALSE
  BY <1>1, <1>2, <1>7 DEF Held, Untouched, SameData
<1>9. GuardsOf(k.job) \in 0 .. 1
  BY <1>2, <1>7, OneGuard DEF IsRun
<1>10. RunOK(t) /\ t.job = b.job
  <2>1. CASE v = "allow"
    <3>1. t = Proceed(k)
      BY <1>5, <1>8, <1>9, <2>1
    <3>2. Passed(k)
      BY <1>7, <1>8, <2>1 DEF Passed
    <3> QED
      BY <1>7, <1>8, <3>1, <3>2, ProceedKeeps
  <2>2. CASE v = "noApiKey"
    <3>1. t = [k EXCEPT !.phase = "fallback", !.fell = TRUE]
      BY <1>5, <2>2
    <3>2. /\ IsRun(t) /\ t.job = k.job /\ SameData(k, t) /\ t.finalized = k.finalized
          /\ t.result = k.result /\ t.rows = k.rows /\ t.fell = TRUE /\ t.asked = k.asked
          /\ t.phase = "fallback"
      BY <1>7, <3>1 DEF IsRun, ToolFields, SameData
    <3> QED
      BY <1>7, <1>8, <3>2 DEF RunOK, Held, Untouched, SameData
  <2>3. CASE v \in {"deny", "fails"}
    <3>1. PICK r : r = Row(k, "deny")
      OBVIOUS
    <3>2. t = Settled(r, k.job.wrap.onDeny)
      BY <1>5, <2>3, <3>1 DEF Denied
    <3>3. Same(k, r) /\ r.rows = Append(k.rows, "deny")
      BY <1>7, <3>1, RowFacts
    <3>4. Same(r, t) /\ t.phase = "done" /\ t.result = k.job.wrap.onDeny /\ t.rows = r.rows
      BY <3>2, <3>3, SettledFacts DEF Same
    <3>5. IsRun(t) /\ t.job = k.job /\ t.fell = FALSE /\ t.rows = Append(Opening(t.job), "deny")
      BY <1>8, <3>3, <3>4 DEF Same
    <3>6. t.result \in Refusals
      BY <1>7, <3>4, JobsAssumption DEF IsRun, Refusals
    <3>7. Finished(t)
      BY <3>4, <3>5, <3>6 DEF Finished, Refused, Refusals
    <3> QED
      BY <1>7, <3>5, <3>7 DEF RunOK
  <2> QED
    BY <2>1, <2>2, <2>3
<1> QED
  BY <1>1, <1>2, <1>6, <1>10, SetKeeps

LEMMA isAllowedKeeps ==
    ASSUME ToolsInv, NEW c \in Calls, isAllowed(c)
    PROVE  ToolsInv'
<1> PICK b : b = call[c]
  OBVIOUS
<1>1. b.phase = "fallback" /\ layers' = layers
  BY DEF isAllowed
<1>2. /\ IsRun(b) /\ (b.job.layered => layers = 1) /\ layers \in 0 .. 1 /\ Held(b)
  BY <1>1, RunOf
<1> DEFINE Out(k, v) == CASE v = "allow" -> IF k.asked < GuardsOf(k.job)
                                       THEN [k EXCEPT !.phase = "gate"] ELSE Proceed(k)
                     [] v = "fails" /\ b.job.wrap.raises -> Settled(k, "error")
                     [] OTHER -> Settled(RowIf(k, ~b.job.wrap.mute, "deny"), b.job.wrap.onDeny)
<1>3. PICK v \in {"allow", "deny", "fails"} : Set(c, Out([b EXCEPT !.verdict = v], v))
  BY DEF isAllowed, W
<1>4. PICK k : k = [b EXCEPT !.verdict = v]
  OBVIOUS
<1>5. PICK t : t = Out(k, v)
  OBVIOUS
<1>6. Set(c, t)
  BY <1>3, <1>4, <1>5
<1>7. /\ IsRun(k) /\ k.job = b.job /\ SameData(b, k) /\ k.finalized = b.finalized
      /\ k.result = b.result /\ k.rows = b.rows /\ k.fell = b.fell
      /\ k.asked = b.asked /\ k.verdict = v
  BY <1>2, <1>4 DEF IsRun, ToolFields, SameData
<1>8. Untouched(k) /\ k.result = "none" /\ k.rows = Opening(k.job) /\ k.asked = 1 /\ k.fell = TRUE
  BY <1>1, <1>2, <1>7 DEF Held, Untouched, SameData
<1>9. GuardsOf(k.job) \in 0 .. 1
  BY <1>2, <1>7, OneGuard DEF IsRun
<1>10. RunOK(t) /\ t.job = b.job
  <2>1. CASE v = "allow"
    <3>1. t = Proceed(k)
      BY <1>5, <1>8, <1>9, <2>1
    <3>2. Passed(k)
      BY <1>7, <1>8, <2>1 DEF Passed
    <3> QED
      BY <1>7, <1>8, <3>1, <3>2, ProceedKeeps
  <2>2. CASE v = "fails" /\ b.job.wrap.raises
    <3>1. t = Settled(k, "error")
      BY <1>5, <2>2
    <3>2. Same(k, t) /\ t.phase = "done" /\ t.result = "error"
      BY <1>7, <3>1, SettledFacts
    <3>3. IsRun(t) /\ t.job = k.job /\ t.verdict = "fails"
      BY <1>7, <2>2, <3>2 DEF Same
    <3>4. Finished(t)
      BY <3>2, <3>3 DEF Finished, Refusals
    <3> QED
      BY <1>7, <3>3, <3>4 DEF RunOK
  <2>3. CASE v # "allow" /\ ~(v = "fails" /\ b.job.wrap.raises)
    <3>1. PICK r : r = IF ~b.job.wrap.mute THEN Row(k, "deny") ELSE k
      OBVIOUS
    <3>2. t = Settled(r, b.job.wrap.onDeny)
      BY <1>5, <2>3, <3>1 DEF RowIf
    <3>3. Same(k, r) /\ r.rows = IF ~b.job.wrap.mute THEN Append(k.rows, "deny") ELSE k.rows
      BY <1>7, <3>1, RowFacts, ZenonT(60) DEF Same
    <3>4. Same(r, t) /\ t.phase = "done" /\ t.result = b.job.wrap.onDeny /\ t.rows = r.rows
      BY <3>2, <3>3, SettledFacts DEF Same
    <3>5. IsRun(t) /\ t.job = b.job /\ t.fell = TRUE
      BY <1>7, <1>8, <3>3, <3>4 DEF Same
    <3>6. t.result \in Refusals
      BY <1>2, <3>4, JobsAssumption DEF IsRun, Refusals
    <3>7. Refused(t)
      BY <1>7, <1>8, <3>3, <3>4, <3>5 DEF Refused
    <3>8. Finished(t)
      BY <3>4, <3>5, <3>6, <3>7 DEF Finished, Refusals
    <3> QED
      BY <3>5, <3>8 DEF RunOK
  <2> QED
    BY <2>1, <2>2, <2>3
<1> HIDE DEF Out
<1> QED
  BY <1>1, <1>2, <1>6, <1>10, SetKeeps

(* A call that settles neither refused nor as a stream. *)
LEMMA SettledQuietly ==
    ASSUME NEW k, Passed(k), NEW u, Same(k, u), NEW r, r \notin Refusals,
           ThroughRelay(k) => r \notin {"stream", "broken", "error"}, NEW t, t = Settled(u, r)
    PROVE  RunOK(t) /\ t.job = k.job
<1>1. Same(u, t) /\ t.phase = "done" /\ t.result = r
  BY SettledFacts DEF Same
<1>2. IsRun(t) /\ t.job = k.job /\ Passed(t)
  BY <1>1 DEF Same, Passed
<1>3. Finished(t)
  BY <1>1, <1>2 DEF Finished, ThroughRelay
<1> QED
  BY <1>2, <1>3 DEF RunOK

LEMMA ToolRunsKeeps ==
    ASSUME ToolsInv, NEW c \in Calls, ToolRuns(c)
    PROVE  ToolsInv'
<1> PICK k : k = call[c]
  OBVIOUS
<1>1. k.phase = "tool" /\ layers' = layers
  BY DEF ToolRuns
<1>2. IsRun(k) /\ (k.job.layered => layers = 1) /\ Running(k)
  BY <1>1, RunOf
<1>3. Passed(k) /\ ~ThroughRelay(k)
  BY <1>1, <1>2 DEF Running, Streaming
<1>4. PICK fine \in BOOLEAN :
        Set(c, IF fine THEN Settled(RowIf(k, W(c).ok, "ok"), "ran") ELSE Settled(k, "error"))
  BY DEF ToolRuns
<1>5. PICK t : t = IF fine THEN Settled(RowIf(k, W(c).ok, "ok"), "ran") ELSE Settled(k, "error")
  OBVIOUS
<1>6. RunOK(t) /\ t.job = k.job
  <2>1. CASE fine
    <3>1. PICK u : u = RowIf(k, W(c).ok, "ok")
      OBVIOUS
    <3>2. Same(k, u) /\ t = Settled(u, "ran")
      BY <1>2, <1>5, <2>1, <3>1, RowIfFacts
    <3>3. "ran" \notin Refusals
      BY DEF Refusals
    <3> QED
      BY <1>3, <3>2, <3>3, SettledQuietly
  <2>2. CASE ~fine
    <3>1. Same(k, k) /\ t = Settled(k, "error")
      BY <1>2, <1>5, <2>2 DEF Same
    <3>2. "error" \notin Refusals
      BY DEF Refusals
    <3> QED
      BY <1>3, <3>1, <3>2, SettledQuietly
  <2> QED
    BY <2>1, <2>2
<1>7. Set(c, t)
  BY <1>4, <1>5
<1> QED
  BY <1>1, <1>2, <1>6, <1>7, SetKeeps

LEMMA RejectedKeeps ==
    ASSUME NEW k, IsRun(k), Passed(k), NEW t, t = Rejected(k)
    PROVE  RunOK(t) /\ t.job = k.job
<1>1. PICK u : u = RowIf(k, k.job.wrap.err, "error")
  OBVIOUS
<1>2. Same(k, u) /\ t = Settled(u, "rejected")
  BY <1>1, RowIfFacts DEF Rejected
<1>3. "rejected" \notin Refusals
  BY DEF Refusals
<1> QED
  BY <1>2, <1>3, SettledQuietly

LEMMA ReturnedKeeps ==
    ASSUME NEW k, IsRun(k), Passed(k), NEW msg, NEW t, t = Returned(k, msg)
    PROVE  RunOK(t) /\ t.job = k.job
<1>1. PICK d : d = Delivered(k, msg)
  OBVIOUS
<1>2. PICK u : u = RowIf(d, k.job.wrap.ok, "end")
  OBVIOUS
<1>3. Same(k, d) /\ IsRun(d)
  BY <1>1, DeliveredFacts DEF Same
<1>4. Same(d, u) /\ t = Settled(u, "answer")
  BY <1>1, <1>2, <1>3, RowIfFacts DEF Returned
<1>5. "answer" \notin Refusals
  BY DEF Refusals
<1>6. Same(k, u)
  BY <1>3, <1>4 DEF Same
<1> QED
  BY <1>4, <1>5, <1>6, SettledQuietly

(* A call that goes on: its relay has the stream it had. *)
LEMMA GoesOn ==
    ASSUME NEW k, IsRun(k), Running(k), k.phase # "verdicts",
           NEW p \in {"open", "next", "verdicts"}, NEW t, t = [k EXCEPT !.phase = p],
           p = "verdicts" /\ ThroughRelay(k) => k.governed
    PROVE  RunOK(t) /\ t.job = k.job
<1>1. /\ Same(k, t) /\ SameData(k, t) /\ t.rows = k.rows /\ t.finalized = k.finalized
      /\ t.phase = p /\ t.result = k.result
  BY PhaseFacts
<1>2. IsRun(t) /\ t.job = k.job /\ Passed(t)
  BY <1>1 DEF Same, Running, Passed
<1>3. ASSUME ThroughRelay(t) PROVE Streaming(t)
  <2>1. Streaming(k) /\ ThroughRelay(k)
    BY <1>2, <1>3 DEF Running, ThroughRelay
  <2> QED
    BY <1>1, <1>2, <2>1 DEF Streaming, SameData
<1> QED
  BY <1>1, <1>2, <1>3 DEF RunOK, Running

LEMMA ModelAnswersKeeps ==
    ASSUME ToolsInv, NEW c \in Calls, ModelAnswers(c)
    PROVE  ToolsInv'
<1> PICK k : k = call[c]
  OBVIOUS
<1> DEFINE Out(fine) == CASE ~fine -> Rejected(k)
                     [] fine /\ k.job.stream /\ k.job.wrap.relay # "unknown" -> [k EXCEPT !.phase = "open"]
                     [] fine /\ ~k.job.stream /\ k.governed /\ Read(k) # {} ->
                            [k EXCEPT !.phase = "verdicts"]
                     [] OTHER -> Returned(RowIf(k, k.governed /\ k.job.prov = "openai", "plaintext"), k.src)
<1>1. k.phase = "create" /\ layers' = layers
  BY DEF ModelAnswers
<1>2. IsRun(k) /\ (k.job.layered => layers = 1) /\ Running(k)
  BY <1>1, RunOf
<1>3. Passed(k)
  BY <1>2 DEF Running
<1>4. PICK fine \in BOOLEAN : Set(c, Out(fine))
  BY DEF ModelAnswers, W
<1>5. PICK t : t = Out(fine)
  OBVIOUS
<1>6. RunOK(t) /\ t.job = k.job
  <2>1. CASE ~fine
    <3>1. t = Rejected(k)
      BY <1>5, <2>1
    <3> QED
      BY <1>2, <1>3, <3>1, RejectedKeeps
  <2>2. CASE fine /\ k.job.stream /\ k.job.wrap.relay # "unknown"
    <3>1. t = [k EXCEPT !.phase = "open"]
      BY <1>5, <2>2
    <3> QED
      BY <1>1, <1>2, <3>1, GoesOn
  <2>3. CASE fine /\ ~k.job.stream /\ k.governed /\ Read(k) # {}
    <3>1. t = [k EXCEPT !.phase = "verdicts"]
      BY <1>5, <2>3
    <3>2. ~ThroughRelay(k)
      BY <2>3 DEF ThroughRelay
    <3> QED
      BY <1>1, <1>2, <3>1, <3>2, GoesOn
  <2>4. CASE /\ fine /\ ~(k.job.stream /\ k.job.wrap.relay # "unknown")
             /\ ~(~k.job.stream /\ k.governed /\ Read(k) # {})
    <3>1. PICK u : u = RowIf(k, k.governed /\ k.job.prov = "openai", "plaintext")
      OBVIOUS
    <3>2. t = Returned(u, k.src)
      BY <1>5, <2>4, <3>1
    <3>3. u = k \/ u = Row(k, "plaintext")
      BY <3>1 DEF RowIf
    <3>4. Same(k, u)
      BY <1>2, <3>3, RowFacts DEF Same
    <3>5. IsRun(u) /\ Passed(u) /\ u.job = k.job
      BY <1>3, <3>4 DEF Same, Passed
    <3> QED
      BY <3>2, <3>5, ReturnedKeeps
  <2> QED
    BY <2>1, <2>2, <2>3, <2>4
<1>7. Set(c, t)
  BY <1>4, <1>5
<1> HIDE DEF Out
<1> QED
  BY <1>1, <1>2, <1>6, <1>7, SetKeeps

LEMMA ToolVerdictsKeeps ==
    ASSUME ToolsInv, NEW c \in Calls, ToolVerdicts(c)
    PROVE  ToolsInv'
<1> PICK k : k = call[c]
  OBVIOUS
<1> DEFINE tools == IF k.job.stream THEN k.st.tools ELSE Read(k)
           D(denied) == [k EXCEPT !.denied = denied, !.allowed = tools \ denied]
           Out(denied, fails) ==
               CASE fails /\ k.job.stream -> Settled(StreamThrows(k), "error")
                 [] fails /\ ~k.job.stream -> Rejected(k)
                 [] ~fails /\ k.job.stream ->
                      [D(denied) EXCEPT !.phase = "next", !.queue = Replayed(k, denied),
                                        !.st = newStreamState]
                 [] OTHER -> IF k.job.prov = "openai" /\ FilterThrows(k.src) THEN Rejected(D(denied))
                             ELSE Returned(D(denied), Enforced(k, denied))
<1>1. k.phase = "verdicts" /\ layers' = layers
  BY DEF ToolVerdicts
<1>2. IsRun(k) /\ (k.job.layered => layers = 1) /\ Running(k)
  BY <1>1, RunOf
<1>3. Passed(k) /\ k.result = "none"
  BY <1>2 DEF Running
<1>4. PICK f \in [tools -> {"allow", "deny", "hitl", "fails"}] :
        Set(c, Out({s \in tools : f[s] \in {"deny", "hitl"}}, \E s \in tools : f[s] = "fails"))
  BY DEF ToolVerdicts
<1>5. PICK denied : denied = {s \in tools : f[s] \in {"deny", "hitl"}}
  OBVIOUS
<1>6. PICK fails \in BOOLEAN : fails = (\E s \in tools : f[s] = "fails")
  OBVIOUS
<1>7. PICK t : t = Out(denied, fails)
  OBVIOUS
<1>8. Set(c, t)
  BY <1>4, <1>5, <1>6, <1>7
<1>9. PICK d : d = D(denied)
  OBVIOUS
<1>10. /\ Same(k, d) /\ SameData(k, d) /\ SameEnd(k, d) /\ d.rows = k.rows /\ d.finalized = k.finalized
  BY <1>2, <1>9 DEF IsRun, ToolFields, Same, SameData, SameEnd
<1>11. IsRun(d) /\ d.job = k.job /\ Passed(d)
  BY <1>3, <1>10 DEF Same, Passed
<1>12. RunOK(t) /\ t.job = k.job
  <2>1. CASE fails /\ k.job.stream
    <3>1. t = Settled(StreamThrows(k), "error")
      BY <1>7, <2>1
    <3> QED
      BY <1>2, <3>1, ThrowCloses
  <2>2. CASE fails /\ ~k.job.stream
    <3>1. t = Rejected(k)
      BY <1>7, <2>2
    <3> QED
      BY <1>2, <1>3, <3>1, RejectedKeeps
  <2>3. CASE ~fails /\ k.job.stream
    <3>1. PICK q : q = Replayed(k, denied)
      OBVIOUS
    <3>2. t = [d EXCEPT !.phase = "next", !.queue = q, !.st = newStreamState]
      BY <1>7, <1>9, <2>3, <3>1
    <3>3. /\ Same(d, t) /\ t.phase = "next" /\ t.queue = q /\ t.st = newStreamState
          /\ t.src = d.src /\ t.out = d.out /\ t.governed = d.governed
          /\ t.rows = d.rows /\ t.finalized = d.finalized /\ t.result = d.result
      BY <1>11, <3>2 DEF IsRun, ToolFields, Same
    <3>4. IsRun(t) /\ t.job = k.job /\ Passed(t) /\ t.result = "none"
      BY <1>3, <1>10, <1>11, <3>3 DEF Same, SameEnd, Passed
    <3>5. ASSUME ThroughRelay(t) PROVE Streaming(t)
      <4>1. Streaming(k) /\ k.governed /\ k.job.prov = "openai"
        BY <1>1, <1>2, <3>4, <3>5 DEF Running, ThroughRelay, Streaming
      <4>2. PICK T : T = ToolsOf(k.job.answer)
        OBVIOUS
      <4>3. k.st.buf \in Seq(Chunks(T)) /\ k.st.tools \subseteq T
        BY <4>1, <4>2 DEF Streaming, StreamState, ChunksOf
      <4>4. IsFiniteSet(T)
        BY <1>2, <4>2, JobsAssumption DEF IsRun
      <4>5. denied \subseteq T
        BY <1>5, <2>3, <4>3
      <4>6. IsFiniteSet(denied)
        BY <4>4, <4>5, FS_Subset
      <4>7. q = replayOpenAI(k.st.buf, denied)
        BY <3>1, <4>1 DEF Replayed
      <4>8. q \in Seq(ChunksOf(k.job))
        BY <4>2, <4>3, <4>6, <4>7, ReplayFacts DEF ChunksOf
      <4>9. newStreamState \in StreamState(k.job)
        BY NewStreamState
      <4> QED
        BY <1>10, <3>3, <3>4, <4>1, <4>8, <4>9 DEF Streaming, SameData
    <3> QED
      BY <3>3, <3>4, <3>5 DEF RunOK, Running
  <2>4. CASE ~fails /\ ~k.job.stream
    <3>1. t = Rejected(d) \/ t = Returned(d, Enforced(k, denied))
      BY <1>7, <1>9, <2>4
    <3> QED
      BY <1>11, <3>1, RejectedKeeps, ReturnedKeeps
  <2> QED
    BY <2>1, <2>2, <2>3, <2>4
<1> HIDE DEF Out, tools, D
<1> QED
  BY <1>1, <1>2, <1>8, <1>12, SetKeeps

LEMMA pullKeeps ==
    ASSUME ToolsInv, NEW c \in Calls, pull(c)
    PROVE  ToolsInv'
<1> PICK k : k = call[c]
  OBVIOUS
<1> DEFINE in == IF k.governed THEN Ingest(k) ELSE Ingested(k.st, <<Head(k.src)>>, FALSE)
           Out ==
             CASE k.queue # <<>> ->
                    [Delivered(k, <<Head(k.queue)>>) EXCEPT !.queue = Tail(@), !.phase = "open"]
               [] k.queue = <<>> /\ k.src # <<>> /\ Head(k.src).type = "cut" ->
                    Settled(StreamThrows(k), "error")
               [] k.queue = <<>> /\ k.src # <<>> /\ Head(k.src).type # "cut" ->
                    [k EXCEPT !.st = in.st, !.queue = in.out, !.phase = "next",
                              !.src = IF in.last THEN <<>> ELSE Tail(@)]
               [] k.queue = <<>> /\ k.src = <<>> /\ k.st.tools # {} -> [k EXCEPT !.phase = "verdicts"]
               [] k.queue = <<>> /\ k.src = <<>> /\ k.st.tools = {} /\ k.st.buf # <<>> ->
                    [k EXCEPT !.queue = k.st.buf, !.st = newStreamState, !.phase = "next"]
               [] OTHER -> Settled(StreamDone(k), "stream")
<1>1. k.phase \in {"open", "next"} /\ layers' = layers
  BY DEF pull
<1>2. IsRun(k) /\ (k.job.layered => layers = 1) /\ Running(k)
  BY <1>1, RunOf
<1>3. Passed(k) /\ k.result = "none"
  BY <1>2 DEF Running
<1>4. PICK t : t = Out
  OBVIOUS
<1>5. Set(c, t)
  BY <1>4 DEF pull
<1>6. RunOK(t) /\ t.job = k.job
  <2>1. CASE k.queue # <<>>
    <3>1. PICK h : h = <<Head(k.queue)>>
      OBVIOUS
    <3>2. PICK u : u = Delivered(k, h)
      OBVIOUS
    <3>3. t = [u EXCEPT !.queue = Tail(@), !.phase = "open"]
      BY <1>4, <2>1, <3>1, <3>2
    <3>4. /\ Same(k, u) /\ SameEnd(k, u) /\ u.out = k.out \o h /\ u.rows = k.rows
          /\ u.src = k.src /\ u.st = k.st /\ u.queue = k.queue
          /\ u.governed = k.governed /\ u.finalized = k.finalized
      BY <1>2, <3>2, DeliveredFacts
    <3>5. /\ Same(u, t) /\ t.phase = "open" /\ t.result = u.result /\ t.queue = Tail(u.queue)
          /\ t.src = u.src /\ t.out = u.out /\ t.st = u.st /\ t.governed = u.governed
          /\ t.rows = u.rows /\ t.finalized = u.finalized
      BY <3>3, <3>4 DEF IsRun, ToolFields, Same
    <3>6. IsRun(t) /\ t.job = k.job /\ Passed(t) /\ t.result = "none"
      BY <1>3, <3>4, <3>5 DEF Same, SameEnd, Passed
    <3>7. ASSUME ThroughRelay(t) PROVE Streaming(t)
      <4>1. Streaming(k)
        BY <1>2, <3>6, <3>7 DEF Running, ThroughRelay
      <4>2. PICK C : C = ChunksOf(k.job)
        OBVIOUS
      <4>3. k.queue \in Seq(C) /\ k.out \in Seq(C)
        BY <4>1, <4>2 DEF Streaming
      <4>4. Tail(k.queue) \in Seq(C) /\ h \in Seq(C)
        BY <2>1, <3>1, <4>3
      <4>5. k.out \o h \in Seq(C)
        BY <4>3, <4>4, ConcatProperties
      <4> QED
        BY <3>4, <3>5, <3>6, <4>1, <4>2, <4>4, <4>5 DEF Streaming
    <3> QED
      BY <3>5, <3>6, <3>7 DEF RunOK, Running
  <2>2. CASE k.queue = <<>> /\ k.src # <<>> /\ Head(k.src).type = "cut"
    <3>1. t = Settled(StreamThrows(k), "error")
      BY <1>4, <2>2
    <3> QED
      BY <1>2, <3>1, ThrowCloses
  <2>3. CASE k.queue = <<>> /\ k.src # <<>> /\ Head(k.src).type # "cut"
    <3>1. PICK i : i = in
      OBVIOUS
    <3>2. PICK src : src = IF i.last THEN <<>> ELSE Tail(k.src)
      OBVIOUS
    <3>3. t = [k EXCEPT !.st = i.st, !.queue = i.out, !.phase = "next", !.src = src]
      <4> HIDE DEF in
      <4>1. t = [k EXCEPT !.st = in.st, !.queue = in.out, !.phase = "next",
                          !.src = IF in.last THEN <<>> ELSE Tail(@)]
        BY <1>4, <2>3
      <4> QED
        BY <1>2, <3>1, <3>2, <4>1 DEF IsRun, ToolFields
    <3>4. /\ Same(k, t) /\ t.phase = "next" /\ t.result = k.result /\ t.queue = i.out /\ t.st = i.st
          /\ t.src = src /\ t.out = k.out /\ t.governed = k.governed
          /\ t.rows = k.rows /\ t.finalized = k.finalized
      BY <1>2, <3>3 DEF IsRun, ToolFields, Same
    <3>5. IsRun(t) /\ t.job = k.job /\ Passed(t) /\ t.result = "none"
      BY <1>3, <3>4 DEF Same, Passed
    <3>6. ASSUME ThroughRelay(t) PROVE Streaming(t)
      <4>1. Streaming(k)
        BY <1>2, <3>5, <3>6 DEF Running, ThroughRelay
      <4>2. PICK T : T = ToolsOf(k.job.answer)
        OBVIOUS
      <4>3. PICK S : S = [buf : Seq(Chunks(T)), tools : SUBSET T, fin : StopReasons]
        OBVIOUS
      <4>4. StreamState(k.job) = S /\ ChunksOf(k.job) = Chunks(T)
        BY <4>2, <4>3 DEF StreamState, ChunksOf
      <4>5. k.src \in Seq(Chunks(T)) /\ k.st \in S
        BY <4>1, <4>4 DEF Streaming
      <4>6. PICK h : h = Head(k.src)
        OBVIOUS
      <4>7. h \in Chunks(T) /\ Tail(k.src) \in Seq(Chunks(T))
        BY <2>3, <4>5, <4>6
      <4>8. src \in Seq(Chunks(T))
        <5>1. <<>> \in Seq(Chunks(T))
          OBVIOUS
        <5> QED
          BY <3>2, <4>7, <5>1
      <4>9. i.st \in S /\ i.out \in Seq(Chunks(T)) /\ (~k.governed => i.st = k.st)
        <5>1. CASE k.governed
          <6>1. i = wrapOpenAIStream(k.st, h)
            BY <3>1, <4>1, <4>6, <5>1 DEF Ingest, Streaming
          <6> QED
            BY <4>3, <4>5, <4>7, <5>1, <6>1, IngestFacts
        <5>2. CASE ~k.governed
          <6>1. i = [st |-> k.st, out |-> <<h>>, last |-> FALSE]
            BY <3>1, <4>6, <5>2 DEF Ingested
          <6>2. <<h>> \in Seq(Chunks(T))
            BY <4>7
          <6> QED
            BY <4>5, <5>2, <6>1, <6>2
        <5> QED
          BY <5>1, <5>2
      <4> QED
        BY <3>4, <3>5, <4>1, <4>4, <4>8, <4>9 DEF Streaming
    <3> QED
      BY <3>4, <3>5, <3>6 DEF RunOK, Running
  <2>4. CASE k.queue = <<>> /\ k.src = <<>> /\ k.st.tools # {}
    <3>1. t = [k EXCEPT !.phase = "verdicts"]
      BY <1>4, <2>4
    <3>2. ThroughRelay(k) => k.governed
      BY <1>2, <2>4 DEF Running, Streaming, newStreamState
    <3> QED
      BY <1>1, <1>2, <3>1, <3>2, GoesOn
  <2>5. CASE k.queue = <<>> /\ k.src = <<>> /\ k.st.tools = {} /\ k.st.buf # <<>>
    <3>1. t = [k EXCEPT !.queue = k.st.buf, !.st = newStreamState, !.phase = "next"]
      BY <1>4, <2>5
    <3>4. /\ Same(k, t) /\ t.phase = "next" /\ t.result = k.result /\ t.queue = k.st.buf
          /\ t.st = newStreamState
          /\ t.src = k.src /\ t.out = k.out /\ t.governed = k.governed
          /\ t.rows = k.rows /\ t.finalized = k.finalized
      BY <1>2, <3>1 DEF IsRun, ToolFields, Same
    <3>5. IsRun(t) /\ t.job = k.job /\ Passed(t) /\ t.result = "none"
      BY <1>3, <3>4 DEF Same, Passed
    <3>6. ASSUME ThroughRelay(t) PROVE Streaming(t)
      <4>1. Streaming(k)
        BY <1>2, <3>5, <3>6 DEF Running, ThroughRelay
      <4>2. k.st.buf \in Seq(ChunksOf(k.job))
        BY <4>1 DEF Streaming, StreamState
      <4>3. newStreamState \in StreamState(k.job)
        BY NewStreamState
      <4> QED
        BY <3>4, <3>5, <4>1, <4>2, <4>3 DEF Streaming
    <3> QED
      BY <3>4, <3>5, <3>6 DEF RunOK, Running
  <2>6. CASE k.queue = <<>> /\ k.src = <<>> /\ k.st.tools = {} /\ k.st.buf = <<>>
    <3>1. t = Settled(StreamDone(k), "stream")
      BY <1>4, <2>6
    <3> QED
      BY <1>2, <3>1, DoneCloses
  <2> QED
    BY <2>1, <2>2, <2>3, <2>4, <2>5, <2>6
<1> HIDE DEF Out, in
<1> QED
  BY <1>1, <1>2, <1>5, <1>6, SetKeeps

LEMMA returnKeeps ==
    ASSUME ToolsInv, NEW c \in Calls, return(c)
    PROVE  ToolsInv'
<1> PICK k : k = call[c]
  OBVIOUS
<1>1. k.phase = "open" /\ layers' = layers
  BY DEF return
<1>2. IsRun(k) /\ (k.job.layered => layers = 1) /\ Running(k)
  BY <1>1, RunOf
<1>3. PICK t : t = Settled(IF k.job.wrap.relay = "readable" THEN k ELSE StreamDone(k), "broken")
  OBVIOUS
<1>4. Set(c, t)
  BY <1>3 DEF return, W
<1>5. RunOK(t) /\ t.job = k.job
  <2>1. CASE k.job.wrap.relay = "readable"
    <3>1. t = Settled(k, "broken")
      BY <1>3, <2>1
    <3>2. Same(k, t) /\ t.phase = "done" /\ t.result = "broken"
      BY <1>2, <3>1, SettledFacts
    <3>3. IsRun(t) /\ t.job = k.job /\ Passed(t)
      BY <1>2, <3>2 DEF Same, Running, Passed
    <3>4. Closed(t)
      BY <2>1, <3>2, <3>3 DEF Closed
    <3>5. Finished(t)
      BY <3>2, <3>3, <3>4 DEF Finished, Refusals
    <3> QED
      BY <3>3, <3>5 DEF RunOK
  <2>2. CASE k.job.wrap.relay # "readable"
    <3>1. t = Settled(StreamDone(k), "broken")
      BY <1>3, <2>2
    <3> QED
      BY <1>2, <3>1, DoneCloses
  <2> QED
    BY <2>1, <2>2
<1> QED
  BY <1>1, <1>2, <1>4, <1>5, SetKeeps

LEMMA throwKeeps ==
    ASSUME ToolsInv, NEW c \in Calls, throw(c)
    PROVE  ToolsInv'
<1> PICK k : k = call[c]
  OBVIOUS
<1>1. k.phase = "open" /\ layers' = layers
  BY DEF throw
<1>2. IsRun(k) /\ (k.job.layered => layers = 1) /\ Running(k)
  BY <1>1, RunOf
<1>3. PICK t : t = Settled(StreamThrows(k), "error")
  OBVIOUS
<1>4. Set(c, t)
  BY <1>3 DEF throw
<1>5. RunOK(t) /\ t.job = k.job
  BY <1>2, <1>3, ThrowCloses
<1> QED
  BY <1>1, <1>2, <1>4, <1>5, SetKeeps

LEMMA nextAfterEndKeeps ==
    ASSUME ToolsInv, NEW c \in Calls, nextAfterEnd(c)
    PROVE  ToolsInv'
<1> PICK k : k = call[c]
  OBVIOUS
<1>1. /\ k.phase = "done" /\ k.result \in {"stream", "error", "broken"}
      /\ k.job.manual /\ k.job.wrap.relay # "readable" /\ layers' = layers
  BY DEF nextAfterEnd, W
<1>2. IsRun(k) /\ (k.job.layered => layers = 1) /\ Finished(k)
  BY <1>1, RunOf
<1>3. PICK u : u = StreamDone(k)
  OBVIOUS
<1>4. PICK t : t = [u EXCEPT !.phase = "over"]
  OBVIOUS
<1>5. Set(c, t)
  BY <1>3, <1>4 DEF nextAfterEnd
<1>6. /\ Same(k, u) /\ SameEnd(k, u) /\ IsRun(u)
      /\ k.job.wrap.relay = "openai" => u = finalize(k)
  BY <1>2, <1>3, StreamDoneFacts, ZenonT(60) DEF Same
<1>7. /\ Same(u, t) /\ SameData(u, t) /\ t.rows = u.rows /\ t.finalized = u.finalized
      /\ t.phase = "over" /\ t.result = u.result
  BY <1>4, <1>6, PhaseFacts
<1>8. IsRun(t) /\ t.job = k.job /\ t.verdict = k.verdict /\ t.result = k.result /\ (Passed(k) => Passed(t))
  BY <1>6, <1>7 DEF Same, SameEnd, Passed
<1>9. ASSUME ThroughRelay(t), t.verdict # "fails" PROVE Closed(t)
  <2>1. Closed(k)
    BY <1>1, <1>2, <1>8, <1>9 DEF Finished, ThroughRelay
  <2>2. CASE k.job.wrap.relay = "openai"
    <3>1. u = k
      BY <1>2, <1>6, <2>1, <2>2, FinalizeFacts DEF Closed
    <3>2. t.out = k.out /\ t.rows = k.rows /\ t.finalized = k.finalized
      BY <1>7, <3>1 DEF SameData
    <3> QED
      BY <1>8, <2>1, <2>2, <3>2 DEF Closed
  <2>3. CASE k.job.wrap.relay # "openai"
    BY <1>1, <1>8, <2>3 DEF Closed
  <2> QED
    BY <2>2, <2>3
<1>10. Finished(t)
  BY <1>1, <1>2, <1>7, <1>8, <1>9 DEF Finished, Refusals
<1>11. RunOK(t)
  BY <1>8, <1>10 DEF RunOK
<1> QED
  BY <1>1, <1>2, <1>5, <1>8, <1>11, SetKeeps

LEMMA waitForCompletionKeeps ==
    ASSUME ToolsInv, NEW c \in Calls, waitForCompletion(c)
    PROVE  ToolsInv'
<1> PICK k : k = call[c]
  OBVIOUS
<1>1. k.phase = "poll" /\ layers' = layers
  BY DEF waitForCompletion
<1>2. IsRun(k) /\ (k.job.layered => layers = 1) /\ Running(k)
  BY <1>1, RunOf
<1>3. Passed(k) /\ ~ThroughRelay(k) /\ k.result = "none" /\ Same(k, k)
  BY <1>1, <1>2 DEF Running, Streaming, Same
<1>4. \A r \in {"timeout", "error", "answer"} : r \notin Refusals
  BY DEF Refusals
<1>5. CASE Set(c, Settled(k, "timeout"))
  <2>1. PICK t : t = Settled(k, "timeout")
    OBVIOUS
  <2>2. RunOK(t) /\ t.job = k.job
    BY <1>3, <1>4, <2>1, SettledQuietly
  <2> QED
    BY <1>1, <1>2, <1>5, <2>1, <2>2, SetKeeps
<1> DEFINE P(latency) == [k EXCEPT !.clock = @ + PollInterval + latency, !.polls = @ + 1]
           Q(latency, status) == RowIf(Row(P(latency), "poll"), status = "requires_action", "tool")
           Out(latency, status) ==
               CASE status = "rejects" -> Settled(P(latency), "error")
                 [] status \in RunOver -> Settled(Row(Q(latency, status), "end"), "answer")
                 [] OTHER -> Q(latency, status)
<1>6. CASE \E status \in RunOver \cup {"in_progress", "requires_action", "rejects"}, latency \in {0, 1} :
              Set(c, Out(latency, status))
  <2>1. PICK status \in RunOver \cup {"in_progress", "requires_action", "rejects"}, latency \in {0, 1} :
              Set(c, Out(latency, status))
    BY <1>6
  <2>2. PICK p : p = P(latency)
    OBVIOUS
  <2>3. PICK r : r = Row(p, "poll")
    OBVIOUS
  <2>4. PICK q : q = IF status = "requires_action" THEN Row(r, "tool") ELSE r
    OBVIOUS
  <2>5. PICK t : t = CASE status = "rejects" -> Settled(p, "error")
                       [] status \in RunOver -> Settled(Row(q, "end"), "answer")
                       [] OTHER -> q
    OBVIOUS
  <2>6. Set(c, t)
    BY <2>1, <2>2, <2>3, <2>4, <2>5 DEF RowIf
  <2>7. Same(k, p) /\ SameEnd(k, p)
    BY <1>2, <2>2 DEF IsRun, ToolFields, Same, SameEnd
  <2>8. Same(p, r) /\ SameEnd(p, r)
    BY <2>3, <2>7, RowFacts DEF Same
  <2>9. Same(r, q) /\ SameEnd(r, q)
    BY <2>4, <2>8, RowFacts DEF Same, SameEnd
  <2>10. Same(k, q) /\ SameEnd(k, q)
    BY <2>7, <2>8, <2>9 DEF Same, SameEnd
  <2>11. CASE status = "rejects"
    <3>0. "error" \notin Refusals
      BY <1>4
    <3>1. t = Settled(p, "error")
      BY <2>5, <2>11 DEF RunOver
    <3>2. RunOK(t) /\ t.job = k.job
      BY <1>3, <2>7, <3>0, <3>1, SettledQuietly
    <3> QED
      BY <1>1, <1>2, <2>6, <3>2, SetKeeps
  <2>12. CASE status \in RunOver
    <3>1. PICK e : e = Row(q, "end")
      OBVIOUS
    <3>2. t = Settled(e, "answer")
      BY <2>5, <2>12, <3>1 DEF RunOver
    <3>3. Same(q, e)
      BY <2>10, <3>1, RowFacts DEF Same
    <3>4. Same(k, e)
      BY <2>10, <3>3 DEF Same
    <3>5. "answer" \notin Refusals
      BY <1>4
    <3>6. RunOK(t) /\ t.job = k.job
      BY <1>3, <3>2, <3>4, <3>5, SettledQuietly
    <3> QED
      BY <1>1, <1>2, <2>6, <3>6, SetKeeps
  <2>13. CASE status \notin RunOver \cup {"rejects"}
    <3>1. t = q
      BY <2>5, <2>13
    <3>2. IsRun(t) /\ t.job = k.job /\ Passed(t) /\ ~ThroughRelay(t) /\ t.phase = "poll" /\ t.result = "none"
      BY <1>1, <1>3, <2>10, <3>1 DEF Same, SameEnd, Passed, ThroughRelay
    <3>3. RunOK(t)
      BY <3>2 DEF RunOK, Running
    <3> QED
      BY <1>1, <1>2, <2>6, <3>2, <3>3, SetKeeps
  <2> QED
    BY <2>11, <2>12, <2>13
<1>7. \/ Set(c, Settled(k, "timeout"))
      \/ \E status \in RunOver \cup {"in_progress", "requires_action", "rejects"}, latency \in {0, 1} :
              Set(c, Out(latency, status))
  BY DEF waitForCompletion
<1> HIDE DEF Out, P, Q
<1> QED
  BY <1>5, <1>6, <1>7

LEMMA PlaneKeeps ==
    ASSUME ToolsInv, call' = call, layers' \in 0 .. 1, layers = 1 => layers' = 1
    PROVE  ToolsInv'
<1>1. \A c \in Calls : RunOK(call'[c]) /\ (call'[c].phase # "idle" /\ call'[c].job.layered => layers' = 1)
  BY DEF ToolsInv
<1>2. call' = [c \in Calls |-> call'[c]]
  BY DEF ToolsInv
<1> QED
  BY <1>1, <1>2 DEF ToolsInv, RunOK, IsRun, Held, Running, Finished, Passed, Untouched, Streaming, Closed, Refused, ThroughRelay

LEMMA ToolsStep ==
    ASSUME ToolsInv, [ToolsNext]_toolsVars
    PROVE  ToolsInv'
<1>1. layers \in 0 .. 1
  BY DEF ToolsInv
<1>2. ASSUME NEW p \in Providers, installPatch(p) \/ uninstallPatch(p) PROVE ToolsInv'
  BY <1>1, <1>2, PlaneKeeps DEF installPatch, uninstallPatch
<1>3. CASE InitFinishes
  BY <1>1, <1>3, PlaneKeeps DEF InitFinishes
<1>4. CASE enforceAllTools
  <2>1. call' = call /\ layers' = IF layers > 0 THEN layers ELSE 1
    BY <1>4 DEF enforceAllTools
  <2>2. layers' \in 0 .. 1 /\ (layers = 1 => layers' = 1)
    BY <1>1, <2>1
  <2> QED
    BY <2>1, <2>2, PlaneKeeps
<1>5. ASSUME NEW c \in Calls, Begin(c) \/ Steps(c) \/ return(c) \/ throw(c) \/ nextAfterEnd(c)
      PROVE  ToolsInv'
  BY <1>5, BeginKeeps, evaluateToolCallKeeps, isAllowedKeeps, ToolRunsKeeps, ModelAnswersKeeps,
     ToolVerdictsKeeps, pullKeeps, returnKeeps, throwKeeps, nextAfterEndKeeps, waitForCompletionKeeps
     DEF Steps
<1>6. CASE UNCHANGED toolsVars
  <2>1. call' = call /\ layers' = layers
    BY <1>6 DEF toolsVars
  <2> QED
    BY <1>1, <2>1, PlaneKeeps
<1> QED
  BY <1>2, <1>3, <1>4, <1>5, <1>6 DEF ToolsNext

(* The inductive invariant of the wrapped calls holds from the first state:  *)
(* a call at its gate has asked nothing, and one past it was allowed; the    *)
(* rows of a refused call, of a running stream and of one that ended are     *)
(* the ones its wrapper writes (frameworks/langchain.ts, openai.ts and       *)
(* vercel-ai.ts, and the two SDK patches).                                   *)
THEOREM ToolsInvariant == ToolsSpec => []ToolsInv
<1>1. ToolsInit => ToolsInv
  <2> SUFFICES ASSUME ToolsInit PROVE ToolsInv
    OBVIOUS
  <2>1. layers \in 0 .. 1 /\ call = [c \in Calls |-> NoCall]
    BY DEF ToolsInit
  <2>2. \A c \in Calls : call[c].phase = "idle"
    BY <2>1 DEF NoCall
  <2>3. call = [c \in Calls |-> call[c]]
    BY <2>1
  <2> QED
    BY <2>1, <2>2, <2>3 DEF ToolsInv, RunOK
<1> QED
  BY <1>1, ToolsStep, PTL DEF ToolsSpec
-----------------------------------------------------------------------------
(* Counting the rows. *)
CountIn(s, r) == Cardinality({i \in DOMAIN s : s[i] = r})

LEMMA CountNone ==
    ASSUME NEW s, NEW r, \A i \in DOMAIN s : s[i] # r
    PROVE  CountIn(s, r) = 0
<1>1. {i \in DOMAIN s : s[i] = r} = {}
  OBVIOUS
<1> QED
  BY <1>1, FS_EmptySet DEF CountIn

LEMMA CountOne ==
    ASSUME NEW s, NEW r, NEW j \in DOMAIN s, s[j] = r, \A i \in DOMAIN s : s[i] = r => i = j
    PROVE  CountIn(s, r) = 1
<1>1. {i \in DOMAIN s : s[i] = r} = {j}
  OBVIOUS
<1> QED
  BY <1>1, FS_Singleton DEF CountIn

(* The first rows are none, or one start; a last row is added to them. *)
LEMMA CountLast ==
    ASSUME NEW s \in {<<>>, <<"start">>}, NEW e, NEW r, r # "start"
    PROVE  /\ CountIn(s, r) = 0
           /\ r = e => CountIn(Append(s, e), r) = 1
           /\ r # e => CountIn(Append(s, e), r) = 0
<1>1. \A i \in DOMAIN s : s[i] # r
  OBVIOUS
<1>2. PICK t : t = Append(s, e)
  OBVIOUS
<1>3. PICK n \in 1 .. 2 : DOMAIN t = 1 .. n /\ t[n] = e /\ \A i \in 1 .. n : i # n => t[i] = "start"
  <2>1. CASE s = <<>>
    <3>1. DOMAIN t = 1 .. 1 /\ t[1] = e
      BY <1>2, <2>1
    <3> QED
      BY <3>1
  <2>2. CASE s = <<"start">>
    <3>1. DOMAIN t = 1 .. 2 /\ t[2] = e /\ t[1] = "start"
      BY <1>2, <2>2
    <3> QED
      BY <3>1
  <2> QED
    BY <2>1, <2>2
<1>4. CASE r = e
  <2>1. n \in DOMAIN t /\ t[n] = r /\ \A i \in DOMAIN t : t[i] = r => i = n
    BY <1>3, <1>4
  <2>2. CountIn(t, r) = 1
    BY <2>1, CountOne
  <2> QED
    BY <1>1, <1>2, <1>4, <2>2, CountNone
<1>5. CASE r # e
  <2>1. \A i \in DOMAIN t : t[i] # r
    BY <1>3, <1>5
  <2> QED
    BY <1>1, <1>2, <1>5, <2>1, CountNone
<1> QED
  BY <1>4, <1>5

LEMMA CountAdded ==
    ASSUME NEW s \in {<<>>, <<"start">>}, NEW e, e # "start"
    PROVE  CountIn(Append(s, e), e) = 1
BY CountLast, ZenonT(60)

LEMMA CountEnded ==
    ASSUME NEW s \in {<<>>, <<"start">>}, NEW n \in Nat
    PROVE  /\ CountIn(Ended(s, n), "end") = 1 /\ CountIn(Ended(s, n), "error") = 0
           /\ CountIn(Ended(s, n), "tool") = n
<1>1. PICK tools : tools = [i \in 1 .. n |-> "tool"]
  OBVIOUS
<1>2. tools \in Seq({"tool"}) /\ Len(tools) = n /\ \A i \in 1 .. n : tools[i] = "tool"
  BY <1>1
<1>3. PICK m \in {0, 1} : Len(s) = m /\ \A i \in 1 .. m : s[i] = "start"
  OBVIOUS
<1>4. s \in Seq({"start"})
  <2>1. <<>> \in Seq({"start"}) /\ <<"start">> \in Seq({"start"})
    OBVIOUS
  <2> QED
    BY <2>1
<1>5. PICK R : R = {"start", "tool", "end"}
  OBVIOUS
<1>6. s \in Seq(R) /\ tools \in Seq(R)
  BY <1>2, <1>4, <1>5
<1>7. PICK u : u = s \o tools
  OBVIOUS
<1>8. /\ u \in Seq(R) /\ Len(u) = m + n
      /\ \A i \in 1 .. m : u[i] = "start"
      /\ \A i \in m + 1 .. m + n : u[i] = "tool"
  <2>1. u \in Seq(R) /\ Len(u) = m + n
    BY <1>2, <1>3, <1>6, <1>7
  <2>2. \A i \in 1 .. m + n : u[i] = IF i <= m THEN s[i] ELSE tools[i - m]
    BY <1>2, <1>3, <1>6, <1>7
  <2>3. \A i \in 1 .. m : u[i] = "start"
    BY <1>3, <2>2
  <2>4. ASSUME NEW i \in m + 1 .. m + n PROVE u[i] = "tool"
    <3>1. i - m \in 1 .. n /\ i \in 1 .. m + n /\ ~(i <= m)
      OBVIOUS
    <3> QED
      BY <1>2, <2>2, <3>1
  <2> QED
    BY <2>1, <2>3, <2>4
<1>9. PICK t : t = Append(u, "end")
  OBVIOUS
<1>10. /\ DOMAIN t = 1 .. m + n + 1 /\ t[m + n + 1] = "end"
       /\ \A i \in 1 .. m : t[i] = "start"
       /\ \A i \in m + 1 .. m + n : t[i] = "tool"
  BY <1>8, <1>9
<1>11. t = Ended(s, n)
  BY <1>1, <1>7, <1>9 DEF Ended
<1>12. CountIn(t, "end") = 1
  <2>1. m + n + 1 \in DOMAIN t /\ \A i \in DOMAIN t : t[i] = "end" => i = m + n + 1
    BY <1>10
  <2> QED
    BY <1>10, <2>1, CountOne
<1>13. CountIn(t, "error") = 0
  <2>1. \A i \in DOMAIN t : t[i] # "error"
    BY <1>10
  <2> QED
    BY <2>1, CountNone
<1>14. CountIn(t, "tool") = n
  <2>1. {i \in DOMAIN t : t[i] = "tool"} = m + 1 .. m + n
    BY <1>10
  <2>2. Cardinality(m + 1 .. m + n) = n
    BY FS_Interval
  <2> QED
    BY <2>1, <2>2 DEF CountIn
<1> QED
  BY <1>11, <1>12, <1>13, <1>14

(* Nothing that a wrapper gates runs but on the policy's allow, asked for    *)
(* once per call however often the tool was wrapped, and a refused call has  *)
(* one denial and no success (enforceAllTools' tag and the fail-closed       *)
(* catches of frameworks/langchain.ts, openai.ts and vercel-ai.ts).          *)
THEOREM GuardsAreSound == ToolsSpec => []GuardSound
<1>1. ToolsInv => GuardSound
  <2> SUFFICES ASSUME ToolsInv, NEW c \in Calls, call[c].phase # "idle", NEW k, k = call[c]
               PROVE  /\ (/\ k.job.wrap.gated /\ k.phase \notin {"gate", "fallback"}
                          /\ k.result \notin Refusals \cup {"error"})
                            => k.verdict = "allow" /\ k.asked = 1
                      /\ k.result \in Refusals =>
                            /\ Count(k, "deny") = IF k.job.wrap.mute /\ k.fell THEN 0 ELSE 1
                            /\ Count(k, "ok") + Count(k, "end") = 0
    BY DEF GuardSound, Started
  <2>1. IsRun(k) /\ ((k.phase \in {"gate", "fallback"} /\ Held(k)) \/ Running(k) \/ Finished(k))
    BY DEF ToolsInv, RunOK
  <2>2. k.job.wrap.gated /\ k.phase \notin {"gate", "fallback"} /\ k.result \notin Refusals \cup {"error"}
          => k.verdict = "allow" /\ k.asked = 1
    BY <2>1 DEF Running, Finished, Passed
  <2>3. ASSUME k.result \in Refusals
        PROVE  /\ Count(k, "deny") = IF k.job.wrap.mute /\ k.fell THEN 0 ELSE 1
               /\ Count(k, "ok") + Count(k, "end") = 0
    <3>1. Refused(k)
      BY <2>1, <2>3 DEF Held, Running, Finished, Refusals
    <3>2. \A r : Count(k, r) = CountIn(k.rows, r)
      BY DEF Count, CountIn
    <3>3. PICK s \in {<<>>, <<"start">>} : s = Opening(k.job)
      BY DEF Opening
    <3>4. CASE k.job.wrap.mute /\ k.fell
      <4>1. k.rows = s
        BY <3>1, <3>3, <3>4 DEF Refused
      <4>2. CountIn(s, "deny") = 0 /\ CountIn(s, "ok") = 0 /\ CountIn(s, "end") = 0
        BY CountLast
      <4> QED
        BY <3>2, <3>4, <4>1, <4>2
    <3>5. CASE ~(k.job.wrap.mute /\ k.fell)
      <4>1. k.rows = Append(s, "deny")
        BY <3>1, <3>3, <3>5 DEF Refused
      <4>2. \A r : r # "start" /\ r # "deny" => CountIn(Append(s, "deny"), r) = 0
        BY CountLast
      <4>3. CountIn(Append(s, "deny"), "deny") = 1
        BY CountAdded
      <4>4. Count(k, "deny") = 1
        BY <3>2, <4>1, <4>3
      <4>5. Count(k, "ok") = 0 /\ Count(k, "end") = 0
        BY <3>2, <4>1, <4>2
      <4> QED
        BY <3>5, <4>4, <4>5
    <3> QED
      BY <3>4, <3>5
  <2> QED
    BY <2>2, <2>3
<1> QED
  BY <1>1, ToolsInvariant, PTL

(* A stream that was let past the gate is closed by one llm_end or llm_error *)
(* row, also for a caller that breaks, throws or asks again after the end,   *)
(* and the OpenAI relay adds one row for each tool call it delivered         *)
(* (relayOpenAIStream and the Vercel afterGenerate and onError).             *)
THEOREM EndsAreOne == ToolsSpec => []OneEnd
<1>1. ToolsInv => OneEnd
  <2> SUFFICES ASSUME ToolsInv, NEW c \in Calls, call[c].phase # "idle", NEW k, k = call[c],
                      k.job.stream, k.phase \in {"done", "over"}, k.verdict # "fails",
                      k.result \in {"stream", "broken", "error"}
               PROVE  /\ k.job.wrap.relay = "openai" => Count(k, "end") + Count(k, "error") = 1
                      /\ k.job.wrap.relay = "iterable" /\ ~k.job.manual =>
                            Count(k, "end") + Count(k, "error") = 1
                      /\ k.job.wrap.relay = "readable" /\ k.result = "stream" =>
                            Count(k, "end") + Count(k, "error") = 1
                      /\ k.job.wrap.relay = "openai" /\ k.result = "stream" =>
                            Count(k, "tool") = Cardinality(ToolsOf(k.out))
    BY DEF OneEnd, Started, Over
  <2>1. Finished(k)
    BY RunOf
  <2>2. ThroughRelay(k) => Closed(k)
    BY <2>1 DEF Finished
  <2>3. \A r : Count(k, r) = CountIn(k.rows, r)
    BY DEF Count, CountIn
  <2>4. PICK s \in {<<>>, <<"start">>} : s = Begun(k.job)
    BY DEF Begun
  <2>5. k.rows = Append(s, "error") => Count(k, "end") = 0 /\ Count(k, "error") = 1
    <3>1. \A r : r # "start" /\ r # "error" => CountIn(Append(s, "error"), r) = 0
      BY CountLast
    <3>2. CountIn(Append(s, "error"), "error") = 1
      BY CountAdded
    <3> QED
      BY <2>3, <3>1, <3>2
  <2>6. \A n \in Nat : k.rows = Ended(s, n) =>
              Count(k, "end") = 1 /\ Count(k, "error") = 0 /\ Count(k, "tool") = n
    BY <2>3, CountEnded
  <2>7. CASE k.job.wrap.relay = "openai"
    <3>1. Closed(k)
      BY <2>2, <2>7 DEF ThroughRelay, Relays
    <3>2. CASE k.rows = Append(s, "error") /\ k.result # "stream"
      BY <2>5, <2>7, <3>2
    <3>3. CASE \E n \in Nat : n = Cardinality(ToolsOf(k.out)) /\ k.rows = Ended(s, n)
      BY <2>6, <2>7, <3>3
    <3> QED
      BY <2>4, <2>7, <3>1, <3>2, <3>3 DEF Closed
  <2>8. CASE k.job.wrap.relay = "iterable" /\ ~k.job.manual
    <3>1. (\E n \in Nat : k.rows = Ended(s, n)) \/ k.rows = Append(s, "error")
      BY <2>2, <2>4, <2>8 DEF ThroughRelay, Relays, Closed
    <3> QED
      BY <2>5, <2>6, <2>8, <3>1
  <2>9. CASE k.job.wrap.relay = "readable" /\ k.result = "stream"
    <3>1. \E n \in Nat : k.rows = Ended(s, n)
      BY <2>2, <2>4, <2>9 DEF ThroughRelay, Relays, Closed
    <3> QED
      BY <2>6, <2>9, <3>1
  <2> QED
    BY <2>7, <2>8, <2>9
<1> QED
  BY <1>1, ToolsInvariant, PTL

-----------------------------------------------------------------------------
(* The answers of a patched SDK.  First what a flattened sequence, the parts *)
(* of a call and the replays are; then, step by step, that the caller of a   *)
(* governed call has what it may have (ReplayInv): until the verdicts it was *)
(* given nothing with a part of a call, and all that was read is held; after *)
(* them what it has and what still waits is the answer without its denied    *)
(* calls.                                                                    *)

(* What FlattenSeq gives, position by position. *)
Flattens(F, h, n) == h = [i \in 1 .. n |-> IF i = 1 THEN F[i] ELSE h[i - 1] \o F[i]]
Flattenable(F, n) == \E h : Flattens(F, h, n)

(* Such a function exists, by induction on the length. *)
LEMMA FlattenDefined ==
    ASSUME NEW F, NEW n \in Nat
    PROVE  Flattenable(F, n)
<1> DEFINE P == {m \in Nat : Flattenable(F, m)}
<1>1. 0 \in P
  <2>1. Flattens(F, [i \in 1 .. 0 |-> <<>>], 0)
    BY DEF Flattens
  <2> QED BY <2>1 DEF Flattenable
<1>2. ASSUME NEW m \in Nat, m \in P PROVE m + 1 \in P
  <2>1. PICK h : Flattens(F, h, m)
    BY <1>2 DEF Flattenable
  <2>2. PICK x : x = IF m + 1 = 1 THEN F[m + 1] ELSE h[m] \o F[m + 1]
    OBVIOUS
  <2>3. PICK u : u = [i \in 1 .. m + 1 |-> IF i = m + 1 THEN x ELSE h[i]]
    OBVIOUS
  <2>4. \A i \in 1 .. m : h[i] = IF i = 1 THEN F[i] ELSE h[i - 1] \o F[i]
    BY <2>1 DEF Flattens
  <2>5. ASSUME NEW i \in 1 .. m + 1 PROVE u[i] = IF i = 1 THEN F[i] ELSE u[i - 1] \o F[i]
    <3>1. CASE i = m + 1
      <4>1. u[i] = x
        BY <2>3, <3>1
      <4>2. i # 1 => u[i - 1] = h[m]
        BY <2>3, <3>1
      <4> QED BY <2>2, <3>1, <4>1, <4>2
    <3>2. CASE i # m + 1
      <4>1. i \in 1 .. m /\ u[i] = h[i]
        BY <2>3, <3>2
      <4>2. i # 1 => i - 1 \in 1 .. m + 1 /\ i - 1 # m + 1 /\ u[i - 1] = h[i - 1]
        BY <2>3, <4>1
      <4> QED BY <2>4, <4>1, <4>2
    <3> QED BY <3>1, <3>2
  <2>6. u = [i \in 1 .. m + 1 |-> u[i]]
    BY <2>3
  <2>7. [i \in 1 .. m + 1 |-> u[i]] = [i \in 1 .. m + 1 |-> IF i = 1 THEN F[i] ELSE u[i - 1] \o F[i]]
    BY <2>5
  <2>8. Flattens(F, u, m + 1)
    BY <2>6, <2>7 DEF Flattens
  <2> QED BY <2>8 DEF Flattenable
<1> QED
  <2> HIDE DEF P
  <2>1. n \in P
    BY <1>1, <1>2, NatInductionSet
  <2> QED BY <2>1 DEF P

(* g[n] is what the first n sequences give. *)
Unrolls(F, N, g) ==
    /\ g[0] = <<>> /\ g[N] = FlattenSeq(F)
    /\ \A n \in 1 .. N : g[n] = g[n - 1] \o F[n]

LEMMA FlattenUnrolls ==
    ASSUME NEW S, NEW N \in Nat, NEW F, F = [n \in 1 .. N |-> F[n]], \A n \in 1 .. N : F[n] \in Seq(S)
    PROVE  \E g : Unrolls(F, N, g) /\ \A n \in 0 .. N : g[n] \in Seq(S)
<1>1. Len(F) = N
  <2>0. PICK C : C = Seq(S)
    OBVIOUS
  <2>1. F \in Seq(C)
    <3>1. F \in [1 .. N -> C]
      BY <2>0
    <3> QED BY <3>1, SeqDef
  <2>2. DOMAIN F = 1 .. Len(F) /\ Len(F) \in Nat /\ DOMAIN F = 1 .. N
    BY <2>1
  <2> QED BY <2>2
<1>2. CASE N = 0
  <2>1. F = <<>>
    BY <1>2
  <2>2. FlattenSeq(F) = F
    BY <1>1, <1>2 DEF FlattenSeq
  <2>3. PICK g : g = [i \in 0 .. 0 |-> F]
    OBVIOUS
  <2>4. g[0] = F /\ F \in Seq(S)
    BY <2>1, <2>3
  <2>6. g[0] = <<>> /\ g[N] = FlattenSeq(F) /\ \A n \in 1 .. N : g[n] = g[n - 1] \o F[n]
    BY <1>2, <2>1, <2>2, <2>4
  <2>7. \A n \in 0 .. N : g[n] \in Seq(S)
    <3>1. \A n \in 0 .. N : n = 0
      BY <1>2
    <3> QED BY <2>4, <3>1
  <2>8. Unrolls(F, N, g)
    BY <2>6 DEF Unrolls
  <2> QED BY <2>7, <2>8
<1>3. CASE N # 0
  <2> DEFINE flatten == CHOOSE flatten :
                 flatten = [i \in 1 .. Len(F) |-> IF i = 1 THEN F[i] ELSE flatten[i - 1] \o F[i]]
  <2>1. PICK h : /\ h = [i \in 1 .. N |-> IF i = 1 THEN F[i] ELSE h[i - 1] \o F[i]]
                 /\ FlattenSeq(F) = h[N]
    <3>1. \E h : h = [i \in 1 .. Len(F) |-> IF i = 1 THEN F[i] ELSE h[i - 1] \o F[i]]
      BY <1>1, FlattenDefined DEF Flattenable, Flattens
    <3>2. flatten = [i \in 1 .. Len(F) |-> IF i = 1 THEN F[i] ELSE flatten[i - 1] \o F[i]]
      BY <3>1, Zenon
    <3>3. FlattenSeq(F) = flatten[Len(F)]
      BY <1>1, <1>3 DEF FlattenSeq
    <3> HIDE DEF flatten
    <3> QED BY <1>1, <3>2, <3>3
  <2>2. PICK g : g = [i \in 0 .. N |-> IF i = 0 THEN <<>> ELSE h[i]]
    OBVIOUS
  <2>3. g[0] = <<>> /\ g[N] = FlattenSeq(F)
    BY <1>3, <2>1, <2>2
  <2>4. ASSUME NEW n \in 1 .. N PROVE g[n] = g[n - 1] \o F[n]
    <3>0. n \in 0 .. N /\ n # 0
      OBVIOUS
    <3>1. g[n] = h[n] /\ h[n] = IF n = 1 THEN F[n] ELSE h[n - 1] \o F[n]
      <4>1. g[n] = h[n]
        BY <2>2, <3>0
      <4>2. h[n] = IF n = 1 THEN F[n] ELSE h[n - 1] \o F[n]
        BY <2>1, Zenon
      <4> QED BY <4>1, <4>2
    <3>2. CASE n = 1
      <4>1. g[n - 1] = <<>> /\ F[n] \in Seq(S)
        BY <2>3, <3>2
      <4>2. PICK s \in Seq(S) : s = F[n]
        BY <4>1
      <4>3. <<>> \o s = s
        OBVIOUS
      <4> QED BY <3>1, <3>2, <4>1, <4>2, <4>3
    <3>3. CASE n # 1
      BY <2>2, <3>1, <3>3, SMTT(60)
    <3> QED BY <3>2, <3>3
  <2>5. Unrolls(F, N, g)
    BY <2>3, <2>4 DEF Unrolls
  <2> DEFINE P == {n \in Nat : n <= N => g[n] \in Seq(S)}
  <2>6. 0 \in P
    <3>1. <<>> \in Seq(S)
      OBVIOUS
    <3> QED BY <2>3, <3>1
  <2>7. ASSUME NEW n \in Nat, n \in P PROVE n + 1 \in P
    <3> SUFFICES ASSUME n + 1 <= N PROVE g[n + 1] \in Seq(S)
      OBVIOUS
    <3>1. n + 1 \in 1 .. N /\ (n + 1) - 1 = n /\ g[n] \in Seq(S)
      BY <2>7
    <3>2. g[n + 1] = g[n] \o F[n + 1] /\ F[n + 1] \in Seq(S)
      BY <2>4, <3>1
    <3> QED BY <3>1, <3>2, ConcatProperties
  <2>8. \A n \in Nat : n \in P
    <3> HIDE DEF P
    <3> QED BY <2>6, <2>7, NatInductionSet
  <2>9. \A n \in 0 .. N : g[n] \in Seq(S)
    BY <2>8
  <2> QED BY <2>5, <2>9
<1> QED BY <1>2, <1>3

-----------------------------------------------------------------------------
(* The parts of a call in a sequence of chunks. *)
Mark(ch, t) == IF t \in ch.tools THEN <<ch.type>> ELSE <<>>
Marks(s, t) == [i \in DOMAIN s |-> Mark(s[i], t)]

LEMMA MarkType ==
    ASSUME NEW T, NEW ch \in Chunks(T), NEW t
    PROVE  Mark(ch, t) \in Seq(ChunkTypes)
<1>1. ch.type \in ChunkTypes
  BY ChunkParts
<1>2. <<>> \in Seq(ChunkTypes) /\ <<ch.type>> \in Seq(ChunkTypes)
  BY <1>1
<1> QED BY <1>2 DEF Mark

LEMMA ChunksAt ==
    ASSUME NEW C, NEW s \in Seq(C)
    PROVE  Len(s) \in Nat /\ DOMAIN s = 1 .. Len(s) /\ \A i \in 1 .. Len(s) : s[i] \in C
OBVIOUS

(* g[n] is what the first n of N chunks have of call t. *)
Runs(s, N, t, g) ==
    /\ g[0] = <<>> /\ g[N] = Parts(s, t)
    /\ \A n \in 1 .. N : g[n] = g[n - 1] \o Mark(s[n], t)
    /\ \A n \in 0 .. N : g[n] \in Seq(ChunkTypes)

LEMMA PartsUnroll ==
    ASSUME NEW T, NEW s \in Seq(Chunks(T)), NEW t, NEW N \in Nat, N = Len(s)
    PROVE  \E g : Runs(s, N, t, g)
<1>2. PICK F : F = Marks(s, t)
  OBVIOUS
<1>3. DOMAIN s = 1 .. N /\ \A n \in 1 .. N : s[n] \in Chunks(T)
  BY ChunksAt
<1>4. F = [n \in 1 .. N |-> Mark(s[n], t)]
  BY <1>2, <1>3 DEF Marks
<1>5. F = [n \in 1 .. N |-> F[n]] /\ \A n \in 1 .. N : F[n] = Mark(s[n], t)
  BY <1>4
<1>6. \A n \in 1 .. N : F[n] \in Seq(ChunkTypes)
  BY <1>3, <1>5, MarkType
<1>7. PICK g : Unrolls(F, N, g) /\ \A n \in 0 .. N : g[n] \in Seq(ChunkTypes)
  BY <1>5, <1>6, FlattenUnrolls
<1>8. Parts(s, t) = FlattenSeq(F)
  BY <1>2 DEF Parts, Marks, Mark
<1>9. g[0] = <<>> /\ g[N] = Parts(s, t) /\ \A n \in 1 .. N : g[n] = g[n - 1] \o F[n]
  BY <1>7, <1>8 DEF Unrolls
<1>10. \A n \in 1 .. N : g[n] = g[n - 1] \o Mark(s[n], t)
  BY <1>5, <1>9
<1> QED BY <1>7, <1>9, <1>10 DEF Runs

LEMMA PartsType ==
    ASSUME NEW T, NEW s \in Seq(Chunks(T)), NEW t
    PROVE  Parts(s, t) \in Seq(ChunkTypes)
<1>1. PICK N \in Nat : N = Len(s)
  BY ChunksAt
<1>2. PICK g : Runs(s, N, t, g)
  BY <1>1, PartsUnroll
<1>3. N \in 0 .. N
  OBVIOUS
<1> QED BY <1>2, <1>3 DEF Runs

(* The parts depend on the chunks of the call only. *)
LEMMA PartsSame ==
    ASSUME NEW T, NEW a \in Seq(Chunks(T)), NEW b \in Seq(Chunks(T)), Len(a) = Len(b), NEW t,
           \A i \in 1 .. Len(a) : Mark(a[i], t) = Mark(b[i], t)
    PROVE  Parts(a, t) = Parts(b, t)
<1>1. PICK N \in Nat : N = Len(a)
  BY ChunksAt
<1>g. PICK g : Runs(a, N, t, g)
  BY <1>1, PartsUnroll
<1>2. /\ g[0] = <<>> /\ g[N] = Parts(a, t)
      /\ \A n \in 1 .. N : g[n] = g[n - 1] \o Mark(a[n], t)
  BY <1>g DEF Runs
<1>h. PICK h : Runs(b, N, t, h)
  BY <1>1, PartsUnroll
<1>3. /\ h[0] = <<>> /\ h[N] = Parts(b, t)
      /\ \A n \in 1 .. N : h[n] = h[n - 1] \o Mark(b[n], t)
  BY <1>h DEF Runs
<1> DEFINE P == {n \in Nat : n <= N => g[n] = h[n]}
<1>4. 0 \in P
  BY <1>2, <1>3
<1>5. ASSUME NEW n \in Nat, n \in P PROVE n + 1 \in P
  <2> SUFFICES ASSUME n + 1 <= N PROVE g[n + 1] = h[n + 1]
    OBVIOUS
  <2>1. n + 1 \in 1 .. N /\ (n + 1) - 1 = n /\ g[n] = h[n]
    BY <1>5
  <2>2. Mark(a[n + 1], t) = Mark(b[n + 1], t)
    BY <1>1, <2>1
  <2>3. g[n + 1] = g[n] \o Mark(a[n + 1], t) /\ h[n + 1] = h[n] \o Mark(b[n + 1], t)
    BY <1>2, <1>3, <2>1
  <2> QED BY <2>1, <2>2, <2>3
<1>6. \A n \in Nat : n \in P
  <2> HIDE DEF P
  <2> QED BY <1>4, <1>5, NatInductionSet
<1> QED BY <1>2, <1>3, <1>6

(* Of a call that no chunk carries there are no parts. *)
LEMMA PartsNone ==
    ASSUME NEW T, NEW s \in Seq(Chunks(T)), NEW t, \A i \in 1 .. Len(s) : t \notin s[i].tools
    PROVE  Parts(s, t) = <<>>
<1>1. PICK N \in Nat : N = Len(s)
  BY ChunksAt
<1>g. PICK g : Runs(s, N, t, g)
  BY <1>1, PartsUnroll
<1>2. /\ g[0] = <<>> /\ g[N] = Parts(s, t)
      /\ \A n \in 1 .. N : g[n] = g[n - 1] \o Mark(s[n], t)
  BY <1>g DEF Runs
<1> DEFINE P == {n \in Nat : n <= N => g[n] = <<>>}
<1>4. 0 \in P
  BY <1>2
<1>5. ASSUME NEW n \in Nat, n \in P PROVE n + 1 \in P
  <2> SUFFICES ASSUME n + 1 <= N PROVE g[n + 1] = <<>>
    OBVIOUS
  <2>1. n + 1 \in 1 .. N /\ (n + 1) - 1 = n /\ g[n] = <<>>
    BY <1>5
  <2>2. Mark(s[n + 1], t) = <<>>
    BY <1>1, <2>1 DEF Mark
  <2>3. g[n + 1] = g[n] \o Mark(s[n + 1], t)
    BY <1>2, <2>1
  <2>4. <<>> \o <<>> = <<>>
    OBVIOUS
  <2> QED BY <2>1, <2>2, <2>3, <2>4
<1>6. \A n \in Nat : n \in P
  <2> HIDE DEF P
  <2> QED BY <1>4, <1>5, NatInductionSet
<1> QED BY <1>2, <1>6

(* The parts of two sequences, one after the other. *)
LEMMA PartsConcat ==
    ASSUME NEW T, NEW a \in Seq(Chunks(T)), NEW b \in Seq(Chunks(T)), NEW t
    PROVE  Parts(a \o b, t) = Parts(a, t) \o Parts(b, t)
<1>1. PICK N \in Nat, M \in Nat : N = Len(a) /\ M = Len(b)
  BY ChunksAt
<1>2. PICK ab \in Seq(Chunks(T)) : ab = a \o b
  BY ConcatProperties
<1>3. /\ Len(ab) = N + M /\ \A i \in 1 .. N : ab[i] = a[i]
      /\ \A i \in 1 .. M : ab[N + i] = b[i]
  BY <1>1, <1>2
<1>g. PICK g : Runs(ab, N + M, t, g)
  <2>1. PICK L \in Nat : L = N + M
    OBVIOUS
  <2>2. \E g : Runs(ab, L, t, g)
    BY <1>3, <2>1, PartsUnroll
  <2> QED BY <2>1, <2>2
<1>4. /\ g[0] = <<>> /\ g[N + M] = Parts(ab, t)
      /\ \A n \in 1 .. N + M : g[n] = g[n - 1] \o Mark(ab[n], t)
      /\ \A n \in 0 .. N + M : g[n] \in Seq(ChunkTypes)
  BY <1>g DEF Runs
<1>h. PICK h : Runs(b, M, t, h)
  BY <1>1, PartsUnroll
<1>5. /\ h[0] = <<>> /\ h[M] = Parts(b, t)
      /\ \A n \in 1 .. M : h[n] = h[n - 1] \o Mark(b[n], t)
      /\ \A n \in 0 .. M : h[n] \in Seq(ChunkTypes)
  BY <1>h DEF Runs
<1>f. PICK f : Runs(a, N, t, f)
  BY <1>1, PartsUnroll
<1>6. /\ f[0] = <<>> /\ f[N] = Parts(a, t)
      /\ \A n \in 1 .. N : f[n] = f[n - 1] \o Mark(a[n], t)
  BY <1>f DEF Runs
<1>7. g[N] = Parts(a, t)
  <2> DEFINE P == {n \in Nat : n <= N => g[n] = f[n]}
  <2>1. 0 \in P
    BY <1>4, <1>6
  <2>2. ASSUME NEW n \in Nat, n \in P PROVE n + 1 \in P
    <3> SUFFICES ASSUME n + 1 <= N PROVE g[n + 1] = f[n + 1]
      OBVIOUS
    <3>1. n + 1 \in 1 .. N /\ n + 1 \in 1 .. N + M /\ (n + 1) - 1 = n /\ g[n] = f[n]
      BY <2>2, SMTT(60)
    <3>2. Mark(ab[n + 1], t) = Mark(a[n + 1], t)
      BY <1>3, <3>1
    <3>3. g[n + 1] = g[n] \o Mark(ab[n + 1], t) /\ f[n + 1] = f[n] \o Mark(a[n + 1], t)
      BY <1>4, <1>6, <3>1
    <3> QED BY <3>1, <3>2, <3>3
  <2>3. \A n \in Nat : n \in P
    <3> HIDE DEF P
    <3> QED BY <2>1, <2>2, NatInductionSet
  <2> QED BY <1>6, <2>3
<1>8. g[N + M] = g[N] \o h[M]
  <2>0. PICK x \in Seq(ChunkTypes) : x = g[N]
    <3>1. N \in 0 .. N + M
      OBVIOUS
    <3>2. \A n \in 0 .. N + M : g[n] \in Seq(ChunkTypes)
      BY <1>4
    <3>3. g[N] \in Seq(ChunkTypes)
      BY <3>1, <3>2
    <3> QED BY <3>3
  <2>1. PICK e : e = [n \in 0 .. M |-> g[N + n]]
    OBVIOUS
  <2>2. e[0] = x /\ e[M] = g[N + M]
    <3>1. N + 0 = N /\ 0 \in 0 .. M /\ M \in 0 .. M
      OBVIOUS
    <3> QED BY <2>0, <2>1, <3>1
  <2>3. ASSUME NEW n \in 1 .. M PROVE e[n] = e[n - 1] \o Mark(b[n], t)
    <3>1. N + n \in 1 .. N + M /\ (N + n) - 1 = N + (n - 1) /\ n \in 0 .. M /\ n - 1 \in 0 .. M
      OBVIOUS
    <3>2. g[N + n] = g[N + (n - 1)] \o Mark(ab[N + n], t)
      BY <1>4, <3>1
    <3> QED BY <1>3, <2>1, <3>1, <3>2
  <2> DEFINE P == {n \in Nat : n <= M => e[n] = x \o h[n]}
  <2>4. 0 \in P
    <3>1. x \o <<>> = x
      BY ConcatEmptySeq
    <3> QED BY <1>5, <2>2, <3>1
  <2>5. ASSUME NEW n \in Nat, n \in P PROVE n + 1 \in P
    <3> SUFFICES ASSUME n + 1 <= M PROVE e[n + 1] = x \o h[n + 1]
      OBVIOUS
    <3>1. n + 1 \in 1 .. M /\ n \in 0 .. M /\ (n + 1) - 1 = n /\ e[n] = x \o h[n]
      BY <2>5
    <3>2. b[n + 1] \in Chunks(T)
      BY <1>1, <3>1, ChunksAt
    <3>3. PICK m \in Seq(ChunkTypes) : m = Mark(b[n + 1], t)
      BY <3>2, MarkType
    <3>4. PICK y \in Seq(ChunkTypes) : y = h[n]
      BY <1>5, <3>1
    <3>5. e[n + 1] = (x \o y) \o m
      BY <2>3, <3>1, <3>3, <3>4
    <3>6. h[n + 1] = y \o m
      BY <1>5, <3>1, <3>3, <3>4
    <3>7. (x \o y) \o m = x \o (y \o m)
      BY ConcatAssociative
    <3> QED BY <3>5, <3>6, <3>7
  <2>6. \A n \in Nat : n \in P
    <3> HIDE DEF P
    <3> QED BY <2>4, <2>5, NatInductionSet
  <2>7. e[M] = x \o h[M]
    BY <2>6
  <2> QED BY <2>0, <2>2, <2>7
<1> QED BY <1>2, <1>4, <1>5, <1>7, <1>8

LEMMA PartsOne ==
    ASSUME NEW T, NEW ch \in Chunks(T), NEW t
    PROVE  Parts(<<ch>>, t) = Mark(ch, t)
<1>1. PICK s : s = <<ch>>
  OBVIOUS
<1>2. s \in Seq(Chunks(T)) /\ Len(s) = 1 /\ s[1] = ch
  BY <1>1
<1>g. PICK g : Runs(s, 1, t, g)
  BY <1>2, PartsUnroll
<1>3. /\ g[0] = <<>> /\ g[1] = Parts(s, t)
      /\ \A n \in 1 .. 1 : g[n] = g[n - 1] \o Mark(s[n], t)
  BY <1>g DEF Runs
<1>4. g[1] = g[0] \o Mark(ch, t)
  <2>1. 1 \in 1 .. 1 /\ 1 - 1 = 0
    OBVIOUS
  <2> QED BY <1>2, <1>3, <2>1
<1>5. PICK m \in Seq(ChunkTypes) : m = Mark(ch, t)
  BY MarkType
<1>6. <<>> \o m = m
  OBVIOUS
<1> QED BY <1>1, <1>3, <1>4, <1>5, <1>6

(* The parts of a sequence by its first chunk. *)
LEMMA PartsHead ==
    ASSUME NEW T, NEW s \in Seq(Chunks(T)), s # <<>>, NEW t
    PROVE  Parts(s, t) = Mark(Head(s), t) \o Parts(Tail(s), t)
<1>1. PICK h \in Chunks(T), r \in Seq(Chunks(T)) : h = Head(s) /\ r = Tail(s)
  BY HeadTailProperties
<1>2. s = <<h>> \o r
  <2>1. 1 \in 1 .. Len(s) /\ Len(s) \in 1 .. Len(s) /\ h = s[1] /\ 1 + 1 = 2
    BY <1>1
  <2>2. SubSeq(s, 1, Len(s)) = <<h>> \o SubSeq(s, 2, Len(s))
    BY <2>1, SubSeqRecursiveFirst
  <2> QED BY <1>1, <2>2, SubSeqFull, TailIsSubSeq
<1>3. PICK u \in Seq(Chunks(T)) : u = <<h>>
  <2>1. <<h>> \in Seq(Chunks(T))
    OBVIOUS
  <2> QED BY <2>1
<1>4. Parts(u \o r, t) = Parts(u, t) \o Parts(r, t)
  BY PartsConcat
<1> QED BY <1>1, <1>2, <1>3, <1>4, PartsOne

(* A flattening of pieces that each have the parts of one chunk.           *)
LEMMA PartsFlatten ==
    ASSUME NEW T, NEW s \in Seq(Chunks(T)), NEW t,
           NEW F, F = [n \in 1 .. Len(s) |-> F[n]], \A n \in 1 .. Len(s) : F[n] \in Seq(Chunks(T)),
           \A n \in 1 .. Len(s) : Parts(F[n], t) = Mark(s[n], t)
    PROVE  FlattenSeq(F) \in Seq(Chunks(T)) /\ Parts(FlattenSeq(F), t) = Parts(s, t)
<1>1. PICK N \in Nat : N = Len(s)
  BY ChunksAt
<1>2. PICK g : Unrolls(F, N, g) /\ \A n \in 0 .. N : g[n] \in Seq(Chunks(T))
  BY <1>1, FlattenUnrolls
<1>3. g[0] = <<>> /\ g[N] = FlattenSeq(F) /\ \A n \in 1 .. N : g[n] = g[n - 1] \o F[n]
  BY <1>2 DEF Unrolls
<1>h. PICK h : Runs(s, N, t, h)
  BY <1>1, PartsUnroll
<1>4. /\ h[0] = <<>> /\ h[N] = Parts(s, t)
      /\ \A n \in 1 .. N : h[n] = h[n - 1] \o Mark(s[n], t)
  BY <1>h DEF Runs
<1> DEFINE P == {n \in Nat : n <= N => Parts(g[n], t) = h[n]}
<1>5. 0 \in P
  <2>1. PICK e : e = <<>>
    OBVIOUS
  <2>2. e \in Seq(Chunks(T)) /\ \A i \in 1 .. Len(e) : t \notin e[i].tools
    BY <2>1
  <2>3. Parts(e, t) = <<>>
    BY <2>2, PartsNone
  <2> QED BY <1>3, <1>4, <2>1, <2>3
<1>6. ASSUME NEW n \in Nat, n \in P PROVE n + 1 \in P
  <2> SUFFICES ASSUME n + 1 <= N PROVE Parts(g[n + 1], t) = h[n + 1]
    OBVIOUS
  <2>0. n <= N
    OBVIOUS
  <2>1. n + 1 \in 1 .. N /\ n \in 0 .. N /\ (n + 1) - 1 = n /\ Parts(g[n], t) = h[n]
    <3>1. n + 1 \in 1 .. N /\ n \in 0 .. N /\ (n + 1) - 1 = n
      OBVIOUS
    <3>2. Parts(g[n], t) = h[n]
      BY <1>6, <2>0
    <3> QED BY <3>1, <3>2
  <2>2. g[n + 1] = g[n] \o F[n + 1] /\ h[n + 1] = h[n] \o Mark(s[n + 1], t)
    BY <1>3, <1>4, <2>1
  <2>3. PICK x \in Seq(Chunks(T)), y \in Seq(Chunks(T)) : x = g[n] /\ y = F[n + 1]
    BY <1>1, <1>2, <2>1
  <2>4. Parts(x \o y, t) = Parts(x, t) \o Parts(y, t)
    BY PartsConcat
  <2>5. Parts(y, t) = Mark(s[n + 1], t)
    BY <1>1, <2>1, <2>3
  <2> QED BY <2>1, <2>2, <2>3, <2>4, <2>5
<1>7. \A n \in Nat : n \in P
  <2> HIDE DEF P
  <2> QED BY <1>5, <1>6, NatInductionSet
<1>8. N \in 0 .. N
  OBVIOUS
<1> QED BY <1>2, <1>3, <1>4, <1>7, <1>8

-----------------------------------------------------------------------------
(* What a replay owes its caller. *)

(* The model stops for a tool only with or after a part of one. *)
Reasoned(s) == \A i \in 1 .. Len(s) : s[i].fin = "tool" => \E j \in 1 .. i : s[j].tools # {}

(* Every part is of one of these calls, and there is none at all.          *)
Granted(s, tools) == \A i \in 1 .. Len(s) : s[i].tools \subseteq tools
Silent(s) == \A i \in 1 .. Len(s) : s[i].tools = {} /\ s[i].fin # "tool"

(* What is passed live before a replay changes nothing of it. *)
LEMMA SilentConcat ==
    ASSUME NEW C, NEW a \in Seq(C), NEW b \in Seq(C), NEW tools, Silent(a)
    PROVE  /\ Reasoned(b) => Reasoned(a \o b)
           /\ Granted(b, tools) => Granted(a \o b, tools)
<1>1. PICK n \in Nat, m \in Nat : n = Len(a) /\ m = Len(b)
  BY ChunksAt
<1>2. PICK s : s = a \o b
  OBVIOUS
<1>3. /\ Len(s) = n + m /\ \A i \in 1 .. n : s[i] = a[i]
      /\ \A i \in 1 .. m : s[n + i] = b[i]
  BY <1>1, <1>2
<1>4. \A i \in 1 .. n + m : i \in 1 .. n \/ (i - n \in 1 .. m /\ s[i] = b[i - n])
  <2> SUFFICES ASSUME NEW i \in 1 .. n + m, i \notin 1 .. n PROVE i - n \in 1 .. m /\ s[i] = b[i - n]
    OBVIOUS
  <2>1. i - n \in 1 .. m /\ n + (i - n) = i
    OBVIOUS
  <2> QED BY <1>3, <2>1
<1>5. ASSUME Reasoned(b), NEW i \in 1 .. n + m, s[i].fin = "tool" PROVE \E j \in 1 .. i : s[j].tools # {}
  <2>1. i \notin 1 .. n
    BY <1>1, <1>3, <1>5 DEF Silent
  <2>2. i - n \in 1 .. m /\ s[i] = b[i - n]
    BY <1>4, <2>1
  <2>3. PICK j \in 1 .. i - n : b[j].tools # {}
    BY <1>1, <1>5, <2>2 DEF Reasoned
  <2>4. n + j \in 1 .. i /\ s[n + j] = b[j]
    BY <1>3, <2>2
  <2> QED BY <2>3, <2>4
<1>6. ASSUME Granted(b, tools), NEW i \in 1 .. n + m PROVE s[i].tools \subseteq tools
  <2>1. CASE i \in 1 .. n
    BY <1>1, <1>3, <2>1 DEF Silent
  <2>2. CASE i \notin 1 .. n
    BY <1>1, <1>4, <1>6, <2>2 DEF Granted
  <2> QED BY <2>1, <2>2
<1> QED BY <1>2, <1>3, <1>5, <1>6 DEF Reasoned, Granted

LEMMA NoticeFacts ==
    ASSUME NEW T, NEW denied, IsFiniteSet(denied)
    PROVE  Notices(denied) \in Seq(Chunks(T)) /\ Silent(Notices(denied))
<1>1. PICK n \in Nat : n = Cardinality(denied)
  BY FS_CardinalityType
<1>2. PICK x : x = Chunk("notice", {}, "none")
  OBVIOUS
<1>3. Notices(denied) = [i \in 1 .. n |-> x]
  BY <1>1, <1>2 DEF Notices
<1>4. x \in Chunks(T)
  BY <1>2 DEF Chunk, Chunks, ChunkTypes, StopReasons
<1>5. Notices(denied) \in Seq(Chunks(T))
  BY <1>3, <1>4, IsASeq
<1>6. x.tools = {} /\ x.fin # "tool"
  BY <1>2 DEF Chunk
<1>7. Len(Notices(denied)) = n
  BY <1>3
<1> QED BY <1>3, <1>5, <1>6, <1>7 DEF Silent

(* wrapOpenAIStream's replay. *)
LEMMA OpenAIReplay ==
    ASSUME NEW T, NEW buf \in Seq(Chunks(T)), NEW denied, IsFiniteSet(denied),
           NEW tools, Granted(buf, tools), Reasoned(buf), NEW q, q = replayOpenAI(buf, denied)
    PROVE  /\ q \in Seq(Chunks(T)) /\ Granted(q, tools \ denied) /\ Reasoned(q)
           /\ \A t : t \notin denied => Parts(q, t) = Parts(buf, t)
<1>1. q \in Seq(Chunks(T))
  BY ReplayFacts
<1>2. CASE denied = {}
  <2>1. q = buf
    BY <1>2 DEF replayOpenAI
  <2> QED BY <1>1, <1>2, <2>1 DEF Granted
<1>3. CASE denied # {}
  <2>1. PICK n \in Nat : n = Len(buf) /\ DOMAIN buf = 1 .. n /\ \A i \in 1 .. n : buf[i] \in Chunks(T)
    BY ChunksAt
  <2>2. PICK rest : rest = [i \in 1 .. n |-> rewriteChunkDroppingDenied(buf[i], denied)]
    OBVIOUS
  <2>3. PICK last : last = <<Chunk("notice", {}, "stop")>>
    OBVIOUS
  <2>4. q = rest \o Notices(denied) \o last
    BY <1>3, <2>1, <2>2, <2>3 DEF replayOpenAI
  <2>5. ASSUME NEW i \in 1 .. n
        PROVE  /\ rest[i] \in Chunks(T) /\ rest[i].tools = buf[i].tools \ denied
               /\ rest[i].type = buf[i].type /\ (rest[i].fin = "tool" => rest[i].tools # {})
    <3>1. PICK ch \in Chunks(T) : ch = buf[i]
      BY <2>1
    <3>2. rest[i] = rewriteChunkDroppingDenied(ch, denied)
      BY <2>2, <3>1
    <3>3. PICK left : left = ch.tools \ denied
      OBVIOUS
    <3>4. PICK f : f = IF ch.fin = "tool" THEN (IF left # {} THEN "tool" ELSE "stop") ELSE ch.fin
      OBVIOUS
    <3>5. f \in StopReasons /\ (f = "tool" => left # {}) /\ left \subseteq T
      BY <3>3, <3>4, ChunkParts DEF StopReasons
    <3>6. rest[i] = [type |-> ch.type, tools |-> left, fin |-> f, rest |-> ch.rest]
      BY <3>2, <3>3, <3>4 DEF rewriteChunkDroppingDenied, Chunks
    <3>7. ch.type \in ChunkTypes /\ ch.rest \in SUBSET Nat
      BY ChunkParts DEF Chunks
    <3> QED BY <3>1, <3>3, <3>5, <3>6, <3>7 DEF Chunks
  <2>6. rest \in Seq(Chunks(T)) /\ Len(rest) = n
    <3>1. rest = [i \in 1 .. n |-> rest[i]]
      BY <2>2
    <3>2. rest \in Seq(Chunks(T))
      BY <2>5, <3>1, IsASeq
    <3> QED BY <2>2, <3>2
  <2>7. Notices(denied) \in Seq(Chunks(T)) /\ Silent(Notices(denied))
    BY NoticeFacts
  <2>8. last \in Seq(Chunks(T)) /\ Silent(last)
    <3>1. PICK x : x = Chunk("notice", {}, "stop")
      OBVIOUS
    <3>2. x \in Chunks(T) /\ x.tools = {} /\ x.fin # "tool"
      BY <3>1 DEF Chunk, Chunks, ChunkTypes, StopReasons
    <3>3. last = <<x>>
      BY <2>3, <3>1
    <3> QED BY <3>2, <3>3 DEF Silent
  <2>9. PICK c \in Seq(Chunks(T)) : c = Notices(denied) /\ Silent(c)
    BY <2>7
  <2>10. PICK rc \in Seq(Chunks(T)) : rc = rest \o c
    BY <2>6, ConcatProperties
  <2>11. PICK m \in Nat : m = Len(c)
    BY ChunksAt
  <2>12. q = rc \o last
    BY <2>4, <2>9, <2>10
  <2>13. Len(rc) = n + m /\ Len(last) = 1 /\ Len(q) = n + m + 1
    <3>1. Len(last) = 1
      BY <2>3
    <3>2. Len(rc) = n + m
      BY <2>6, <2>10, <2>11, ConcatProperties
    <3>3. Len(rc \o last) = Len(rc) + Len(last)
      BY <2>8, ConcatProperties
    <3> QED BY <2>12, <3>1, <3>2, <3>3
  <2>14. ASSUME NEW i \in 1 .. n + m + 1
         PROVE  (i \in 1 .. n /\ q[i] = rest[i]) \/ (q[i].tools = {} /\ q[i].fin # "tool")
    <3>1. CASE i \in 1 .. n
      BY <2>6, <2>8, <2>10, <2>12, <2>13, <3>1
    <3>2. CASE i \in n + 1 .. n + m
      <4>1. i - n \in 1 .. m /\ rc[i] = c[i - n]
        BY <2>6, <2>10, <2>11, <3>2
      <4>2. q[i] = rc[i]
        BY <2>8, <2>12, <2>13, <3>2
      <4> QED BY <2>9, <2>11, <4>1, <4>2 DEF Silent
    <3>3. CASE i = n + m + 1
      <4>1. q[i] = last[1]
        BY <2>8, <2>12, <2>13, <3>3
      <4> QED BY <2>8, <2>13, <4>1 DEF Silent
    <3>4. i \in 1 .. n \/ i \in n + 1 .. n + m \/ i = n + m + 1
      OBVIOUS
    <3> QED BY <3>1, <3>2, <3>3, <3>4
  <2>15. Granted(q, tools \ denied)
    <3>1. \A i \in 1 .. n : buf[i].tools \subseteq tools
      BY <2>1 DEF Granted
    <3> QED BY <2>5, <2>13, <2>14, <3>1 DEF Granted
  <2>16. Reasoned(q)
    <3> SUFFICES ASSUME NEW i \in 1 .. n + m + 1, q[i].fin = "tool" PROVE \E j \in 1 .. i : q[j].tools # {}
      BY <2>13 DEF Reasoned
    <3>1. q[i].tools # {} /\ i \in 1 .. i
      BY <2>5, <2>14
    <3> QED BY <3>1
  <2>17. ASSUME NEW t, t \notin denied PROVE Parts(q, t) = Parts(buf, t)
    <3>1. \A i \in 1 .. n : Mark(rest[i], t) = Mark(buf[i], t)
      BY <2>5, <2>17 DEF Mark
    <3>2. Parts(rest, t) = Parts(buf, t)
      BY <2>1, <2>6, <3>1, PartsSame
    <3>3. Parts(c, t) = <<>> /\ Parts(last, t) = <<>>
      <4>1. \A i \in 1 .. Len(c) : t \notin c[i].tools
        BY <2>9 DEF Silent
      <4>2. \A i \in 1 .. Len(last) : t \notin last[i].tools
        BY <2>8 DEF Silent
      <4> QED BY <2>8, <4>1, <4>2, PartsNone
    <3>4. Parts(rc, t) = Parts(rest, t) \o Parts(c, t)
      BY <2>6, <2>10, PartsConcat
    <3>5. Parts(q, t) = Parts(rc, t) \o Parts(last, t)
      BY <2>8, <2>12, PartsConcat, SMTT(60)
    <3>6. Parts(buf, t) \in Seq(ChunkTypes)
      BY PartsType
    <3> QED BY <3>2, <3>3, <3>4, <3>5, <3>6, ConcatEmptySeq
  <2> QED BY <1>1, <2>15, <2>16, <2>17
<1> QED BY <1>2, <1>3

-----------------------------------------------------------------------------
(* An event of Anthropic's stream, as AnswersAssumption describes it.      *)
Blockwise(s) == \A i \in 1 .. Len(s) :
    (s[i].fin = "tool" => s[i].type = "message_delta") /\ \A t, u \in s[i].tools : t = u

(* The chunks with no parts but of the calls that are not denied.          *)
Allowing(T, tools, denied) == {ch \in Chunks(T) : ch.tools \subseteq tools \ denied}

(* What one held event becomes. *)
ReplaysAs(T, buf, k, denied, tools, r) ==
    /\ r \in Seq(Allowing(T, tools, denied))
    /\ \A t : t \notin denied => Parts(r, t) = Mark(buf[k], t)
    /\ \A i \in 1 .. Len(r) : r[i].fin = "tool" =>
           r = <<buf[k]>> /\ \A j \in 1 .. k : buf[j].tools \cap denied = {}
    /\ (\A j \in 1 .. k : buf[j].tools \cap denied = {}) => r = <<buf[k]>>

LEMMA ReplayedFacts ==
    ASSUME NEW T, NEW buf \in Seq(Chunks(T)), NEW denied, NEW tools, Granted(buf, tools), Blockwise(buf),
           NEW k \in 1 .. Len(buf), NEW r, r = replayed(buf, k, denied)
    PROVE  ReplaysAs(T, buf, k, denied, tools, r)
<1>0. PICK kept : kept = Allowing(T, tools, denied)
  OBVIOUS
<1>k. kept = {ch \in Chunks(T) : ch.tools \subseteq tools \ denied}
  BY <1>0 DEF Allowing
<1>1. PICK ev \in Chunks(T) : ev = buf[k]
  BY ChunksAt
<1>2. /\ ev.tools \subseteq tools /\ (ev.fin = "tool" => ev.type = "message_delta")
      /\ (\A t, u \in ev.tools : t = u) /\ ev.type \in ChunkTypes /\ ev.fin \in StopReasons
  BY <1>1, ChunkParts DEF Granted, Blockwise
<1>3. CASE ev.tools \cap denied # {}
  <2>1. PICK n : n = Chunk("notice", {}, "none")
    OBVIOUS
  <2>2. n \in kept /\ n.tools = {} /\ n.fin # "tool"
    <3>1. n \in Chunks(T) /\ n.tools = {} /\ n.fin # "tool"
      BY <2>1 DEF Chunk, Chunks, ChunkTypes, StopReasons
    <3> QED BY <1>k, <3>1
  <2>3. PICK triplet : triplet = [j \in 1 .. 3 |-> Chunk("notice", {}, "none")] /\ triplet = noticeTriplet
    BY DEF noticeTriplet
  <2>4. r \in Seq(kept) /\ \A i \in 1 .. Len(r) : r[i].tools = {} /\ r[i].fin # "tool"
    <3>1. r = <<>> \/ r = triplet
      BY <1>1, <1>3, <2>3 DEF replayed
    <3>2. CASE r = <<>>
      BY <3>2
    <3>3. CASE r = triplet
      <4>1. Len(r) = 3 /\ \A i \in 1 .. 3 : r[i] = n
        BY <2>1, <2>3, <3>3
      <4>2. r = [i \in 1 .. 3 |-> r[i]]
        BY <2>3, <3>3
      <4>3. r \in Seq(kept)
        BY <2>2, <4>1, <4>2, IsASeq
      <4> QED BY <2>2, <4>1, <4>3
    <3> QED BY <3>1, <3>2, <3>3
  <2>5. kept \subseteq Chunks(T)
    BY <1>k
  <2>6. r \in Seq(Chunks(T))
    BY <2>4, <2>5, SeqMonotonic
  <2>7. ASSUME NEW t, t \notin denied PROVE Parts(r, t) = Mark(ev, t)
    <3>1. t \notin ev.tools
      BY <1>2, <1>3, <2>7
    <3>2. \A i \in 1 .. Len(r) : t \notin r[i].tools
      BY <2>4
    <3> QED BY <2>6, <3>1, <3>2, PartsNone DEF Mark
  <2>8. k \in 1 .. k /\ buf[k].tools \cap denied # {}
    BY <1>1, <1>3
  <2> QED BY <1>0, <1>1, <2>4, <2>7, <2>8 DEF ReplaysAs
<1>4. CASE /\ ev.tools \cap denied = {} /\ ev.type = "message_delta"
           /\ \E j \in 1 .. k - 1 : buf[j].tools \cap denied # {}
  <2>1. PICK n : n = rewriteMessageDeltaStopReason(ev)
    OBVIOUS
  <2>2. r = <<n>>
    BY <1>1, <1>4, <2>1 DEF replayed
  <2>3. PICK f : f = IF ev.fin = "tool" THEN "stop" ELSE ev.fin
    OBVIOUS
  <2>4. n = [type |-> ev.type, tools |-> ev.tools, fin |-> f, rest |-> ev.rest] /\ f \in StopReasons /\ f # "tool"
    BY <1>2, <2>1, <2>3 DEF rewriteMessageDeltaStopReason, Chunks, StopReasons
  <2>5. n \in Chunks(T) /\ n.tools = ev.tools /\ n.fin # "tool" /\ n.type = ev.type
    BY <1>2, <2>4, ChunkParts DEF Chunks
  <2>6. n \in kept
    BY <1>k, <1>2, <1>4, <2>5
  <2>7. r \in Seq(kept) /\ Len(r) = 1 /\ r[1] = n
    BY <2>2, <2>6
  <2>8. \A t : Parts(r, t) = Mark(ev, t)
    BY <2>2, <2>5, PartsOne DEF Mark
  <2>9. \E j \in 1 .. k : buf[j].tools \cap denied # {}
    BY <1>4
  <2> QED BY <1>0, <1>1, <2>5, <2>7, <2>8, <2>9 DEF ReplaysAs
<1>5. CASE /\ ev.tools \cap denied = {}
           /\ ~(ev.type = "message_delta" /\ \E j \in 1 .. k - 1 : buf[j].tools \cap denied # {})
  <2>1. r = <<ev>>
    BY <1>1, <1>5 DEF replayed
  <2>2. ev \in kept
    BY <1>k, <1>2, <1>5
  <2>3. r \in Seq(kept) /\ Len(r) = 1 /\ r[1] = ev
    BY <2>1, <2>2
  <2>4. \A t : Parts(r, t) = Mark(ev, t)
    BY <2>1, PartsOne
  <2>5. ASSUME ev.fin = "tool", NEW j \in 1 .. k PROVE buf[j].tools \cap denied = {}
    <3>1. j = k \/ j \in 1 .. k - 1
      OBVIOUS
    <3> QED BY <1>1, <1>2, <1>5, <2>5, <3>1
  <2> QED BY <1>0, <1>1, <2>1, <2>3, <2>4, <2>5 DEF ReplaysAs
<1> QED BY <1>3, <1>4, <1>5

(* wrapAnthropicStream's replay. *)
LEMMA AnthropicReplay ==
    ASSUME NEW T, NEW buf \in Seq(Chunks(T)), NEW denied, NEW tools, Granted(buf, tools),
           Reasoned(buf), Blockwise(buf), NEW q, q = replayAnthropic(buf, denied)
    PROVE  /\ q \in Seq(Chunks(T)) /\ Granted(q, tools \ denied) /\ Reasoned(q)
           /\ \A t : t \notin denied => Parts(q, t) = Parts(buf, t)
<1>1. PICK N \in Nat : N = Len(buf) /\ DOMAIN buf = 1 .. N
  BY ChunksAt
<1>2. PICK F : F = [k \in 1 .. N |-> replayed(buf, k, denied)]
  OBVIOUS
<1>3. q = FlattenSeq(F)
  BY <1>1, <1>2 DEF replayAnthropic
<1>4. PICK kept : kept = Allowing(T, tools, denied) /\ kept = {ch \in Chunks(T) : ch.tools \subseteq tools \ denied}
  BY DEF Allowing
<1>5. ASSUME NEW k \in 1 .. N
      PROVE  /\ F[k] \in Seq(kept)
             /\ \A t : t \notin denied => Parts(F[k], t) = Mark(buf[k], t)
             /\ \A i \in 1 .. Len(F[k]) : F[k][i].fin = "tool" =>
                    F[k] = <<buf[k]>> /\ \A j \in 1 .. k : buf[j].tools \cap denied = {}
             /\ (\A j \in 1 .. k : buf[j].tools \cap denied = {}) => F[k] = <<buf[k]>>
  <2>1. PICK r : r = replayed(buf, k, denied)
    OBVIOUS
  <2>2. F[k] = r
    BY <1>2, <2>1
  <2>3. k \in 1 .. Len(buf)
    BY <1>1
  <2>4. ReplaysAs(T, buf, k, denied, tools, r)
    BY <2>1, <2>3, ReplayedFacts
  <2> QED BY <1>4, <2>2, <2>4 DEF ReplaysAs
<1>6. F = [k \in 1 .. N |-> F[k]]
  BY <1>2
<1>7. PICK g : Unrolls(F, N, g) /\ \A n \in 0 .. N : g[n] \in Seq(kept)
  BY <1>5, <1>6, FlattenUnrolls
<1>8. g[0] = <<>> /\ g[N] = FlattenSeq(F) /\ \A n \in 1 .. N : g[n] = g[n - 1] \o F[n]
  BY <1>7 DEF Unrolls
<1>9. q \in Seq(kept)
  <2>1. N \in 0 .. N
    OBVIOUS
  <2> QED BY <1>3, <1>7, <1>8, <2>1
<1>10. q \in Seq(Chunks(T)) /\ Granted(q, tools \ denied)
  <2>1. kept \subseteq Chunks(T)
    BY <1>4
  <2>2. \A i \in 1 .. Len(q) : q[i] \in kept
    BY <1>9, ChunksAt
  <2> QED BY <1>4, <1>9, <2>1, <2>2, SeqMonotonic DEF Granted
<1>11. ASSUME NEW t, t \notin denied PROVE Parts(q, t) = Parts(buf, t)
  <2>1. kept \subseteq Chunks(T)
    BY <1>4
  <2>2. \A n \in 1 .. N : F[n] \in Seq(Chunks(T))
    BY <1>5, <2>1, SeqMonotonic
  <2>3. \A n \in 1 .. N : Parts(F[n], t) = Mark(buf[n], t)
    BY <1>5, <1>11
  <2> QED BY <1>1, <1>3, <1>6, <2>2, <2>3, PartsFlatten
(* While nothing is denied what was held comes out again. *)
<1> DEFINE Spoke(n) == (\A j \in 1 .. n : buf[j].tools \cap denied = {}) /\ (\E j \in 1 .. n : buf[j].tools # {})
                           => \E i \in 1 .. Len(g[n]) : g[n][i].tools # {}
           P == {n \in Nat : n <= N => Reasoned(g[n]) /\ Spoke(n)}
<1>12. 0 \in P
  <2>1. PICK e : e = g[0]
    OBVIOUS
  <2>2. Len(e) = 0
    BY <1>8, <2>1
  <2>3. Reasoned(e)
    BY <2>2 DEF Reasoned
  <2> QED BY <2>1, <2>3
<1>13. ASSUME NEW n \in Nat, n \in P PROVE n + 1 \in P
  <2> SUFFICES ASSUME n + 1 <= N PROVE Reasoned(g[n + 1]) /\ Spoke(n + 1)
    OBVIOUS
  <2>1. n + 1 \in 1 .. N /\ n \in 0 .. N /\ (n + 1) - 1 = n /\ n <= N
    OBVIOUS
  <2>2. Reasoned(g[n]) /\ Spoke(n)
    BY <1>13, <2>1
  <2>3. PICK a \in Seq(kept), b \in Seq(kept) : a = g[n] /\ b = F[n + 1]
    BY <1>5, <1>7, <2>1
  <2>4. PICK c : c = g[n + 1]
    OBVIOUS
  <2>5. c = a \o b
    BY <1>8, <2>1, <2>3, <2>4
  <2>6. PICK la \in Nat, lb \in Nat : la = Len(a) /\ lb = Len(b)
    BY ChunksAt
  <2>7. /\ Len(c) = la + lb /\ \A i \in 1 .. la : c[i] = a[i]
        /\ \A i \in 1 .. lb : c[la + i] = b[i]
    BY <2>5, <2>6
  <2>8. ASSUME b = <<buf[n + 1]>>, \A j \in 1 .. n + 1 : buf[j].tools \cap denied = {},
               \E j \in 1 .. n + 1 : buf[j].tools # {}
        PROVE  \E i \in 1 .. la + lb : c[i].tools # {}
    <3>1. PICK j \in 1 .. n + 1 : buf[j].tools # {}
      BY <2>8
    <3>2. CASE j = n + 1
      <4>1. lb = 1 /\ c[la + 1] = buf[n + 1]
        BY <2>6, <2>7, <2>8
      <4>2. la + 1 \in 1 .. la + lb
        BY <4>1
      <4> QED BY <3>1, <3>2, <4>1, <4>2
    <3>3. CASE j # n + 1
      <4>1. j \in 1 .. n /\ \A m \in 1 .. n : m \in 1 .. n + 1
        BY <3>3
      <4>2. PICK i \in 1 .. la : a[i].tools # {}
        BY <2>2, <2>3, <2>6, <2>8, <3>1, <4>1
      <4>3. i \in 1 .. la + lb /\ c[i] = a[i]
        BY <2>7
      <4> QED BY <4>2, <4>3
    <3> QED BY <3>2, <3>3
  <2>9. Spoke(n + 1)
    <3> SUFFICES ASSUME \A j \in 1 .. n + 1 : buf[j].tools \cap denied = {}, \E j \in 1 .. n + 1 : buf[j].tools # {}
                 PROVE  \E i \in 1 .. Len(c) : c[i].tools # {}
      BY <2>4
    <3>1. b = <<buf[n + 1]>>
      BY <1>5, <2>1, <2>3
    <3> QED BY <2>7, <2>8, <3>1
  <2>10. Reasoned(c)
    <3> SUFFICES ASSUME NEW i \in 1 .. la + lb, c[i].fin = "tool" PROVE \E j \in 1 .. i : c[j].tools # {}
      BY <2>7 DEF Reasoned
    <3>1. CASE i \in 1 .. la
      <4>1. PICK j \in 1 .. i : a[j].tools # {}
        BY <2>2, <2>3, <2>6, <2>7, <3>1 DEF Reasoned
      <4>2. j \in 1 .. la
        BY <3>1
      <4> QED BY <2>7, <4>1, <4>2
    <3>2. CASE i \notin 1 .. la
      <4>1. i - la \in 1 .. lb /\ la + (i - la) = i
        BY <3>2
      <4>2. c[i] = b[i - la]
        BY <2>7, <4>1
      <4>3. b = <<buf[n + 1]>> /\ \A j \in 1 .. n + 1 : buf[j].tools \cap denied = {}
        BY <1>5, <2>1, <2>3, <2>6, <4>1, <4>2
      <4>4. lb = 1 /\ i = la + 1 /\ b[1] = buf[n + 1]
        BY <2>6, <4>1, <4>3
      <4>5. buf[n + 1].fin = "tool"
        BY <4>2, <4>4
      <4>6. \E j \in 1 .. n + 1 : buf[j].tools # {}
        BY <1>1, <2>1, <4>5 DEF Reasoned
      <4> QED BY <2>8, <4>3, <4>4, <4>6
    <3> QED BY <3>1, <3>2
  <2> QED BY <2>4, <2>9, <2>10
<1>14. \A n \in Nat : n \in P
  <2> HIDE DEF P
  <2> QED BY <1>12, <1>13, NatInductionSet
<1>15. Reasoned(q)
  <2>1. N <= N /\ N \in P
    BY <1>14
  <2>2. Reasoned(g[N])
    BY <2>1
  <2> QED BY <1>3, <1>8, <2>2
<1> QED BY <1>10, <1>11, <1>15

-----------------------------------------------------------------------------
(* A stream that a patch reads. *)

(* There is a part of a call. *)
HasPart(s) == \E i \in 1 .. Len(s) : s[i].tools # {}

(* What the patch has of the first n chunks of the answer. *)
Follows(j, st, src, n) ==
    /\ Len(j.answer) = n + Len(src) /\ \A i \in 1 .. Len(src) : src[i] = j.answer[n + i]
    /\ (\E i \in 1 .. n : j.answer[i].tools # {}) => HasPart(st.buf)
    /\ j.prov = "openai" => st.fin # "tool"
    /\ j.prov = "anthropic" =>
          \A i \in 1 .. n : j.answer[i].type = "content_block_start" => j.answer[i].tools \subseteq st.tools

(* Every part is in the buffer or still to come. *)
Gathered(j, st, src) ==
    /\ st \in StreamState(j) /\ src \in Seq(ChunksOf(j))
    /\ Granted(st.buf, st.tools) /\ Reasoned(st.buf) /\ (j.prov = "anthropic" => Blockwise(st.buf))
    /\ \A t : t \notin Late(j) => Parts(j.answer, t) = Parts(st.buf, t) \o Parts(src, t)
    /\ src # <<>> => \E n \in Nat : Follows(j, st, src, n)

LEMMA AnswerType ==
    ASSUME NEW j \in Jobs
    PROVE  j.answer \in Seq(ChunksOf(j)) /\ IsFiniteSet(ToolsOf(j.answer))
BY JobsAssumption DEF ChunksOf

LEMMA ReasonFollows ==
    ASSUME NEW j \in Jobs, j.prov \in {"openai", "anthropic"}, NEW i \in 1 .. Len(j.answer), j.answer[i].fin = "tool"
    PROVE  /\ \E m \in 1 .. i : j.answer[m].tools # {}
           /\ j.prov = "anthropic" /\ j.stream => j.answer[i].type = "message_delta"
<1>1. i \in DOMAIN j.answer
  BY AnswerType, ChunksAt
<1>2. Sent(j, i)
  BY <1>1, AnswersAssumption
<1> QED BY <1>2 DEF Sent

LEMMA BlockStarts ==
    ASSUME NEW j \in Jobs, j.prov = "anthropic", j.stream, NEW i \in 1 .. Len(j.answer), NEW t \in j.answer[i].tools
    PROVE  \E m \in 1 .. i : j.answer[m].type = "content_block_start" /\ t \in j.answer[m].tools
<1>1. i \in DOMAIN j.answer
  BY AnswerType, ChunksAt
<1>2. Sent(j, i)
  BY <1>1, AnswersAssumption
<1> QED BY <1>2 DEF Sent

(* A call with a part after the "tool" reason of an OpenAI stream is late. *)
LEMMA LateParts ==
    ASSUME NEW j \in Jobs, j.prov = "openai", j.stream, NEW i \in 1 .. Len(j.answer), NEW m \in 1 .. Len(j.answer),
           i < m, j.answer[i].fin = "tool", NEW t, t \notin Late(j)
    PROVE  t \notin j.answer[m].tools
<1>1. i \in DOMAIN j.answer /\ m \in DOMAIN j.answer
  BY AnswerType, ChunksAt
<1> QED BY <1>1 DEF Late, ToolsOf

LEMMA OneCallEach ==
    ASSUME NEW j \in Jobs, j.prov \in {"openai", "anthropic"}, ~(j.prov = "openai" /\ j.stream),
           NEW i \in 1 .. Len(j.answer), NEW t \in j.answer[i].tools, NEW u \in j.answer[i].tools
    PROVE  t = u
<1>1. i \in DOMAIN j.answer
  BY AnswerType, ChunksAt
<1>2. Sent(j, i)
  BY <1>1, AnswersAssumption
<1> QED BY <1>2 DEF Sent

(* A chunk is held. *)
Holds(T, buf, ch, b, tools) ==
    /\ b \in Seq(Chunks(T)) /\ Granted(b, tools) /\ Reasoned(b)
    /\ \A t : Parts(b, t) = Parts(buf, t) \o Mark(ch, t)
    /\ HasPart(buf) \/ ch.tools # {} => HasPart(b)
    /\ Blockwise(buf) /\ (ch.fin = "tool" => ch.type = "message_delta") /\ (\A t, u \in ch.tools : t = u)
          => Blockwise(b)

LEMMA Holding ==
    ASSUME NEW T, NEW buf \in Seq(Chunks(T)), NEW ch \in Chunks(T), NEW b, b = Append(buf, ch),
           NEW before, NEW tools, before \subseteq tools, Granted(buf, before), ch.tools \subseteq tools,
           Reasoned(buf), ch.fin = "tool" => ch.tools # {} \/ HasPart(buf)
    PROVE  Holds(T, buf, ch, b, tools)
<1>1. PICK n \in Nat : n = Len(buf)
  BY ChunksAt
<1>2. /\ b \in Seq(Chunks(T)) /\ Len(b) = n + 1 /\ b[n + 1] = ch
      /\ \A i \in 1 .. n : b[i] = buf[i]
  BY <1>1
<1>3. \A i \in 1 .. n + 1 : i \in 1 .. n \/ i = n + 1
  OBVIOUS
<1>4. Granted(b, tools)
  BY <1>1, <1>2, <1>3 DEF Granted
<1>5. Reasoned(b)
  <2> SUFFICES ASSUME NEW i \in 1 .. n + 1, b[i].fin = "tool" PROVE \E j \in 1 .. i : b[j].tools # {}
    BY <1>2 DEF Reasoned
  <2>1. CASE i \in 1 .. n
    <3>1. PICK j \in 1 .. i : buf[j].tools # {}
      BY <1>1, <1>2, <2>1 DEF Reasoned
    <3>2. j \in 1 .. n
      BY <2>1
    <3> QED BY <1>2, <3>1, <3>2
  <2>2. CASE i = n + 1
    <3>1. CASE ch.tools # {}
      BY <1>2, <2>2, <3>1
    <3>2. CASE HasPart(buf)
      <4>1. PICK m \in 1 .. n : buf[m].tools # {}
        BY <1>1, <3>2 DEF HasPart
      <4>2. m \in 1 .. i /\ b[m] = buf[m]
        BY <1>2, <2>2
      <4> QED BY <4>1, <4>2
    <3> QED BY <1>2, <2>2, <3>1, <3>2
  <2> QED BY <1>3, <2>1, <2>2
<1>6. ASSUME NEW t PROVE Parts(b, t) = Parts(buf, t) \o Mark(ch, t)
  <2>1. PICK one \in Seq(Chunks(T)) : one = <<ch>>
    <3>1. <<ch>> \in Seq(Chunks(T))
      OBVIOUS
    <3> QED BY <3>1
  <2>2. b = buf \o one
    BY <2>1, AppendIsConcat
  <2>3. Parts(one, t) = Mark(ch, t)
    BY <2>1, PartsOne
  <2> QED BY <2>2, <2>3, PartsConcat, SMTT(60)
<1>7. HasPart(buf) \/ ch.tools # {} => HasPart(b)
  <2>1. ASSUME NEW i \in 1 .. n, buf[i].tools # {} PROVE \E m \in 1 .. n + 1 : b[m].tools # {}
    <3>1. i \in 1 .. n + 1 /\ b[i] = buf[i]
      BY <1>2
    <3> QED BY <2>1, <3>1
  <2>2. n + 1 \in 1 .. n + 1
    OBVIOUS
  <2> QED BY <1>1, <1>2, <2>1, <2>2 DEF HasPart
<1>8. Blockwise(buf) /\ (ch.fin = "tool" => ch.type = "message_delta") /\ (\A t, u \in ch.tools : t = u)
                 => Blockwise(b)
  BY <1>1, <1>2, <1>3 DEF Blockwise
<1> QED BY <1>2, <1>4, <1>5, <1>6, <1>7, <1>8 DEF Holds

-----------------------------------------------------------------------------
(* The next chunk of an answer, after n, and what is left of it. *)
Splits(j, st, src, n, ch, rest) ==
    /\ ch \in ChunksOf(j) /\ rest \in Seq(ChunksOf(j))
    /\ n + 1 \in 1 .. Len(j.answer) /\ ch = j.answer[n + 1]
    /\ Len(j.answer) = (n + 1) + Len(rest) /\ \A i \in 1 .. Len(rest) : rest[i] = j.answer[(n + 1) + i]
    /\ ch.fin = "tool" => ch.tools # {} \/ HasPart(st.buf)
    /\ (\E i \in 1 .. n + 1 : j.answer[i].tools # {}) => HasPart(st.buf) \/ ch.tools # {}
    /\ \A t : Parts(src, t) = Mark(ch, t) \o Parts(rest, t)

LEMMA NextChunk ==
    ASSUME NEW j \in Jobs, j.prov \in {"openai", "anthropic"},
           NEW st, NEW src, src # <<>>, src \in Seq(ChunksOf(j)), NEW n \in Nat, Follows(j, st, src, n),
           NEW ch, ch = Head(src), NEW rest, rest = Tail(src)
    PROVE  Splits(j, st, src, n, ch, rest)
<1>1. PICK C : C = ChunksOf(j)
  OBVIOUS
<1>2. src \in Seq(C)
  BY <1>1
<1>3. /\ ch \in C /\ rest \in Seq(C) /\ ch = src[1] /\ Len(rest) \in Nat /\ Len(src) = 1 + Len(rest)
      /\ \A i \in 1 .. Len(rest) : rest[i] = src[i + 1]
  BY <1>2, HeadTailProperties, EmptySeq
<1>4. PICK L \in Nat, N \in Nat : L = Len(rest) /\ N = Len(j.answer)
  BY <1>3, AnswerType, ChunksAt
<1>5. N = n + (1 + L) /\ \A i \in 1 .. 1 + L : src[i] = j.answer[n + i]
  BY <1>3, <1>4 DEF Follows
<1>6. n + 1 \in 1 .. N /\ ch = j.answer[n + 1]
  BY <1>3, <1>5
<1>7. \A i \in 1 .. L : rest[i] = j.answer[(n + 1) + i]
  <2> SUFFICES ASSUME NEW i \in 1 .. L PROVE rest[i] = j.answer[(n + 1) + i]
    OBVIOUS
  <2>1. i + 1 \in 1 .. 1 + L /\ n + (i + 1) = (n + 1) + i
    OBVIOUS
  <2> QED BY <1>3, <1>4, <1>5, <2>1
<1>8. (\E i \in 1 .. n + 1 : j.answer[i].tools # {}) => HasPart(st.buf) \/ ch.tools # {}
  <2> SUFFICES ASSUME NEW i \in 1 .. n + 1, j.answer[i].tools # {} PROVE HasPart(st.buf) \/ ch.tools # {}
    OBVIOUS
  <2>1. i \in 1 .. n \/ i = n + 1
    OBVIOUS
  <2> QED BY <1>6, <2>1 DEF Follows
<1>9. ch.fin = "tool" => ch.tools # {} \/ HasPart(st.buf)
  <2> SUFFICES ASSUME ch.fin = "tool" PROVE ch.tools # {} \/ HasPart(st.buf)
    OBVIOUS
  <2>1. \E m \in 1 .. n + 1 : j.answer[m].tools # {}
    BY <1>4, <1>6, ReasonFollows
  <2> QED BY <1>8, <2>1
<1>10. \A t : Parts(src, t) = Mark(ch, t) \o Parts(rest, t)
  BY PartsHead DEF ChunksOf
<1>11. N = (n + 1) + L
  BY <1>5
<1> QED BY <1>1, <1>3, <1>4, <1>6, <1>7, <1>8, <1>9, <1>10, <1>11 DEF Splits

(* The parts of an answer stay in order when its next chunk is held, or    *)
(* passed on with no part.                                                 *)
LEMMA PartsMove ==
    ASSUME NEW T, NEW buf \in Seq(Chunks(T)), NEW b, NEW rest \in Seq(Chunks(T)), NEW ch \in Chunks(T), NEW t, NEW all,
           all = Parts(buf, t) \o (Mark(ch, t) \o Parts(rest, t)),
           Parts(b, t) = Parts(buf, t) \o Mark(ch, t)
    PROVE  all = Parts(b, t) \o Parts(rest, t)
<1>1. PICK x \in Seq(ChunkTypes), y \in Seq(ChunkTypes), z \in Seq(ChunkTypes) :
         x = Parts(buf, t) /\ y = Mark(ch, t) /\ z = Parts(rest, t)
  BY PartsType, MarkType
<1> QED BY <1>1, ConcatAssociative, SMTT(60)

LEMMA PartsPass ==
    ASSUME NEW T, NEW buf \in Seq(Chunks(T)), NEW rest \in Seq(Chunks(T)), NEW ch \in Chunks(T), NEW t, NEW all,
           all = Parts(buf, t) \o (Mark(ch, t) \o Parts(rest, t)), t \notin ch.tools
    PROVE  all = Parts(buf, t) \o Parts(rest, t)
<1>1. Mark(ch, t) = <<>>
  BY DEF Mark
<1>2. PICK z \in Seq(ChunkTypes) : z = Parts(rest, t)
  BY PartsType
<1>3. <<>> \o z = z
  OBVIOUS
<1> QED BY <1>1, <1>2, <1>3

(* A patch reads one chunk: what it holds is gathered, what it passes on   *)
(* has no part of a call.                                                  *)
Gathers(j, in, src) ==
    /\ Gathered(j, in.st, IF in.last THEN <<>> ELSE Tail(src))
    /\ in.out \in Seq(ChunksOf(j)) /\ Silent(in.out)

(* wrapOpenAIStream holds every part of a call, and a "tool" reason with it. *)
LEMMA OpenAIGathers ==
    ASSUME NEW j \in Jobs, j.prov = "openai", j.stream, NEW st, NEW src, src # <<>>, Gathered(j, st, src)
    PROVE  Gathers(j, wrapOpenAIStream(st, Head(src)), src)
<1>1. PICK T : T = ToolsOf(j.answer) /\ ChunksOf(j) = Chunks(T)
  BY DEF ChunksOf
<1>2. PICK n \in Nat : Follows(j, st, src, n)
  BY DEF Gathered
<1>3. PICK ch, tail : ch = Head(src) /\ tail = Tail(src)
  OBVIOUS
<1>4. /\ ch \in Chunks(T) /\ tail \in Seq(Chunks(T))
      /\ n + 1 \in 1 .. Len(j.answer) /\ ch = j.answer[n + 1]
      /\ Len(j.answer) = (n + 1) + Len(tail) /\ \A i \in 1 .. Len(tail) : tail[i] = j.answer[(n + 1) + i]
      /\ ch.fin = "tool" => ch.tools # {} \/ HasPart(st.buf)
      /\ (\E i \in 1 .. n + 1 : j.answer[i].tools # {}) => HasPart(st.buf) \/ ch.tools # {}
      /\ \A t : Parts(src, t) = Mark(ch, t) \o Parts(tail, t)
  <2>1. src \in Seq(ChunksOf(j))
    BY DEF Gathered
  <2>2. Splits(j, st, src, n, ch, tail)
    BY <1>2, <1>3, <2>1, NextChunk
  <2> QED BY <1>1, <2>2 DEF Splits
<1>5. /\ st.buf \in Seq(Chunks(T)) /\ st.tools \subseteq T /\ st.fin \in StopReasons /\ st.fin # "tool"
      /\ Granted(st.buf, st.tools) /\ Reasoned(st.buf)
      /\ \A t : t \notin Late(j) => Parts(j.answer, t) = Parts(st.buf, t) \o Parts(src, t)
  BY <1>1, <1>2 DEF Gathered, StreamState, Follows
<1>c. ch \in Chunks(T) /\ tail \in Seq(Chunks(T))
  BY <1>4
<1>h. PICK buf \in Seq(Chunks(T)) : buf = st.buf
  BY <1>5
<1>b. PICK before : before = st.tools
  OBVIOUS
<1>6. HasPart(st.buf) => st.tools # {}
  BY <1>5 DEF HasPart, Granted
<1>7. PICK tools : tools = st.tools \cup ch.tools
  OBVIOUS
<1>8. PICK fin : fin = IF ch.fin # "none" THEN ch.fin ELSE st.fin
  OBVIOUS
<1>9. PICK hold \in BOOLEAN : hold = (tools # {} \/ fin = "none")
  OBVIOUS
<1>10. PICK last \in BOOLEAN : last = (hold /\ fin = "tool")
  OBVIOUS
<1>11. fin \in StopReasons /\ (fin = "tool" => ch.fin = "tool") /\ tools \subseteq T
  BY <1>1, <1>4, <1>5, <1>7, <1>8, ChunkParts
<1>12. ch.fin = "tool" => hold /\ last /\ tools # {}
  BY <1>4, <1>6, <1>7, <1>8, <1>9, <1>10
<1>13. PICK pass : pass = IF hold THEN <<>> ELSE <<ch>>
  OBVIOUS
<1>14. PICK b : b = IF hold THEN Append(st.buf, ch) ELSE st.buf
  OBVIOUS
<1>i. PICK in : in = wrapOpenAIStream(st, ch)
  OBVIOUS
<1>15. in.st = [buf |-> b, tools |-> tools, fin |-> fin] /\ in.out = pass /\ in.last = last
  <2>1. in = [st |-> [buf |-> b, tools |-> tools, fin |-> fin], out |-> pass, last |-> last]
    BY <1>i, <1>7, <1>8, <1>9, <1>10, <1>13, <1>14 DEF wrapOpenAIStream, Ingested
  <2> QED BY <2>1
<1>16. /\ b \in Seq(Chunks(T)) /\ Granted(b, tools) /\ Reasoned(b)
       /\ \A t : t \notin Late(j) => Parts(j.answer, t) = Parts(b, t) \o Parts(tail, t)
       /\ HasPart(st.buf) \/ ch.tools # {} => HasPart(b)
       /\ in.out \in Seq(Chunks(T)) /\ Silent(in.out)
  <2>1. CASE hold
    <3>1. b = Append(st.buf, ch) /\ in.out = <<>> /\ st.tools \subseteq tools /\ ch.tools \subseteq tools
      BY <1>7, <1>13, <1>14, <1>15, <2>1
    <3>2. /\ b \in Seq(Chunks(T)) /\ Granted(b, tools) /\ Reasoned(b)
          /\ \A t : Parts(b, t) = Parts(st.buf, t) \o Mark(ch, t)
          /\ HasPart(st.buf) \/ ch.tools # {} => HasPart(b)
      <4>1. /\ b = Append(buf, ch) /\ before \subseteq tools /\ Granted(buf, before) /\ Reasoned(buf)
            /\ ch.fin = "tool" => ch.tools # {} \/ HasPart(buf)
        BY <1>4, <1>5, <1>h, <1>b, <3>1
      <4>2. Holds(T, buf, ch, b, tools)
        BY <1>c, <3>1, <4>1, Holding
      <4> QED BY <1>h, <4>2 DEF Holds
    <3>3. ASSUME NEW t, t \notin Late(j) PROVE Parts(j.answer, t) = Parts(b, t) \o Parts(tail, t)
      <4>1. Parts(j.answer, t) = Parts(st.buf, t) \o (Mark(ch, t) \o Parts(tail, t))
        BY <1>4, <1>5, <3>3
      <4>2. PICK all : all = Parts(j.answer, t) /\ all = Parts(buf, t) \o (Mark(ch, t) \o Parts(tail, t))
        BY <1>h, <4>1
      <4>3. Parts(b, t) = Parts(buf, t) \o Mark(ch, t)
        BY <1>h, <3>2
      <4> QED BY <1>c, <4>2, <4>3, PartsMove
    <3>4. PICK e : e = <<>>
      OBVIOUS
    <3>5. e \in Seq(Chunks(T)) /\ Silent(e)
      BY <3>4 DEF Silent
    <3> QED BY <3>1, <3>2, <3>3, <3>4, <3>5
  <2>2. CASE ~hold
    <3>1. b = st.buf /\ in.out = <<ch>> /\ ch.tools = {} /\ tools = st.tools /\ ch.fin # "tool"
      BY <1>7, <1>9, <1>12, <1>13, <1>14, <1>15, <2>2
    <3>2. ASSUME NEW t, t \notin Late(j) PROVE Parts(j.answer, t) = Parts(b, t) \o Parts(tail, t)
      <4>1. Parts(j.answer, t) = Parts(st.buf, t) \o (Mark(ch, t) \o Parts(tail, t)) /\ t \notin ch.tools
        BY <1>4, <1>5, <3>1, <3>2
      <4>2. PICK all : all = Parts(j.answer, t) /\ all = Parts(buf, t) \o (Mark(ch, t) \o Parts(tail, t))
        BY <1>h, <4>1
      <4>3. all = Parts(buf, t) \o Parts(tail, t)
        <5>1. t \notin ch.tools
          BY <4>1
        <5> QED BY <1>c, <4>2, <5>1, PartsPass
      <4> QED BY <1>h, <3>1, <4>2, <4>3
    <3>3. PICK e : e = <<ch>>
      OBVIOUS
    <3>4. e \in Seq(Chunks(T)) /\ Silent(e)
      BY <1>4, <3>1, <3>3 DEF Silent
    <3> QED BY <1>5, <3>1, <3>2, <3>3, <3>4
  <2> QED BY <2>1, <2>2
<1>17. in.st \in StreamState(j)
  BY <1>1, <1>11, <1>15, <1>16 DEF StreamState
<1>r. PICK rest : rest = IF last THEN <<>> ELSE tail
  OBVIOUS
<1>18. rest \in Seq(Chunks(T)) /\ \A t : t \notin Late(j) => Parts(rest, t) = Parts(tail, t)
  <2>1. CASE last
    <3>1. rest = <<>> /\ ch.fin = "tool"
      BY <1>10, <1>11, <1>r, <2>1
    <3>2. ASSUME NEW t, t \notin Late(j), NEW i \in 1 .. Len(tail) PROVE t \notin tail[i].tools
      <4>1. Len(tail) \in Nat
        BY <1>4, ChunksAt
      <4>2. (n + 1) + i \in 1 .. Len(j.answer) /\ n + 1 < (n + 1) + i
        BY <1>4, <4>1
      <4>3. tail[i] = j.answer[(n + 1) + i]
        BY <1>4
      <4>4. j.answer[n + 1].fin = "tool" /\ n + 1 \in 1 .. Len(j.answer)
        BY <1>4, <3>1
      <4> QED BY <3>2, <4>2, <4>3, <4>4, LateParts
    <3>4. \A t : t \notin Late(j) => Parts(tail, t) = <<>>
      BY <1>c, <3>2, PartsNone
    <3>5. PICK e : e = <<>>
      OBVIOUS
    <3>6. e \in Seq(Chunks(T)) /\ \A t : Parts(e, t) = <<>>
      <4>1. e \in Seq(Chunks(T)) /\ \A t : \A i \in 1 .. Len(e) : t \notin e[i].tools
        BY <3>5
      <4> QED BY <4>1, PartsNone
    <3> QED BY <3>1, <3>4, <3>5, <3>6
  <2>2. CASE ~last
    <3>1. rest = tail
      BY <1>r, <2>2
    <3> QED BY <1>4, <3>1
  <2> QED BY <2>1, <2>2
<1>19. rest # <<>> => Follows(j, in.st, rest, n + 1)
  <2> SUFFICES ASSUME rest # <<>> PROVE Follows(j, in.st, rest, n + 1)
    OBVIOUS
  <2>1. rest = tail /\ fin # "tool"
    BY <1>r, <1>11, <1>12
  <2>2. in.st.buf = b /\ in.st.fin # "tool"
    BY <1>15, <2>1
  <2> QED BY <1>4, <1>16, <2>1, <2>2 DEF Follows
<1>20. \A t : t \notin Late(j) => Parts(j.answer, t) = Parts(b, t) \o Parts(rest, t)
  BY <1>16, <1>18
<1>21. n + 1 \in Nat
  OBVIOUS
<1>22. in.st.buf = b /\ in.st.tools = tools
  BY <1>15
<1>23. Gathered(j, in.st, rest)
  BY <1>1, <1>16, <1>17, <1>18, <1>19, <1>20, <1>21, <1>22 DEF Gathered
<1> QED BY <1>1, <1>3, <1>15, <1>16, <1>23, <1>i, <1>r DEF Gathers

LEMMA StateUpdated ==
    ASSUME NEW A, NEW B, NEW C, NEW r \in [buf : A, tools : B, fin : C], NEW x \in B, NEW y \in A,
           NEW q, q = [r EXCEPT !.tools = x, !.buf = y]
    PROVE  q \in [buf : A, tools : B, fin : C] /\ q.buf = y /\ q.tools = x
OBVIOUS

(* wrapAnthropicStream gathers: no part of a block passes live. *)
LEMMA AnthropicGathers ==
    ASSUME NEW j \in Jobs, j.prov = "anthropic", j.stream, NEW st, NEW src, src # <<>>, Gathered(j, st, src)
    PROVE  Gathers(j, wrapAnthropicStream(st, Head(src)), src)
<1>1. PICK T : T = ToolsOf(j.answer) /\ ChunksOf(j) = Chunks(T)
  BY DEF ChunksOf
<1>2. PICK n \in Nat : Follows(j, st, src, n)
  BY DEF Gathered
<1>3. PICK ch, tail : ch = Head(src) /\ tail = Tail(src)
  OBVIOUS
<1>4. /\ ch \in Chunks(T) /\ tail \in Seq(Chunks(T))
      /\ n + 1 \in 1 .. Len(j.answer) /\ ch = j.answer[n + 1]
      /\ Len(j.answer) = (n + 1) + Len(tail) /\ \A i \in 1 .. Len(tail) : tail[i] = j.answer[(n + 1) + i]
      /\ ch.fin = "tool" => ch.tools # {} \/ HasPart(st.buf)
      /\ (\E i \in 1 .. n + 1 : j.answer[i].tools # {}) => HasPart(st.buf) \/ ch.tools # {}
      /\ \A t : Parts(src, t) = Mark(ch, t) \o Parts(tail, t)
  <2>1. src \in Seq(ChunksOf(j))
    BY DEF Gathered
  <2>2. Splits(j, st, src, n, ch, tail)
    BY <1>2, <1>3, <2>1, NextChunk
  <2> QED BY <1>1, <2>2 DEF Splits
<1>5. /\ st.buf \in Seq(Chunks(T)) /\ st.tools \subseteq T /\ st.fin \in StopReasons
      /\ Granted(st.buf, st.tools) /\ Reasoned(st.buf) /\ Blockwise(st.buf)
      /\ \A t : t \notin Late(j) => Parts(j.answer, t) = Parts(st.buf, t) \o Parts(src, t)
  BY <1>1 DEF Gathered, StreamState
<1>6. \A i \in 1 .. n : j.answer[i].type = "content_block_start" => j.answer[i].tools \subseteq st.tools
  BY <1>2 DEF Follows
<1>c. ch \in Chunks(T) /\ tail \in Seq(Chunks(T))
  BY <1>4
<1>h. PICK buf \in Seq(Chunks(T)) : buf = st.buf
  BY <1>5
<1>b. PICK before : before = st.tools
  OBVIOUS
<1>7. PICK tools : tools = IF ch.type = "content_block_start" THEN st.tools \cup ch.tools ELSE st.tools
  OBVIOUS
<1>8. /\ st.tools \subseteq tools /\ tools \subseteq T
      /\ ch.type = "content_block_start" => ch.tools \subseteq tools
  <2>1. ch.tools \subseteq T
    BY <1>c, ChunkParts
  <2>2. st.tools \subseteq T
    BY <1>5
  <2> QED BY <1>7, <2>1, <2>2
<1>9. ch.tools \subseteq tools
  <2> SUFFICES ASSUME NEW t \in ch.tools PROVE t \in tools
    OBVIOUS
  <2>1. PICK m \in 1 .. n + 1 : j.answer[m].type = "content_block_start" /\ t \in j.answer[m].tools
    BY <1>4, BlockStarts
  <2>2. CASE m \in 1 .. n
    BY <1>6, <1>8, <2>1, <2>2
  <2>3. CASE m = n + 1
    BY <1>4, <1>8, <2>1, <2>3
  <2> QED BY <2>2, <2>3
<1>10. (ch.fin = "tool" => ch.type = "message_delta") /\ \A t, u \in ch.tools : t = u
  <2>1. ch.fin = "tool" => ch.type = "message_delta"
    BY <1>4, ReasonFollows
  <2>2. ASSUME NEW t \in ch.tools, NEW u \in ch.tools PROVE t = u
    BY <1>4, OneCallEach
  <2> QED BY <2>1, <2>2
<1>11. PICK hold \in BOOLEAN :
          hold = ((ch.tools # {} /\ ch.tools \subseteq tools) \/ ch.type \in {"message_delta", "message_stop"})
  OBVIOUS
<1>12. ~hold => ch.tools = {} /\ ch.fin # "tool"
  BY <1>9, <1>10, <1>11
<1>13. PICK pass : pass = IF hold THEN <<>> ELSE <<ch>>
  OBVIOUS
<1>14. PICK b : b = IF hold THEN Append(st.buf, ch) ELSE st.buf
  OBVIOUS
<1>i. PICK in : in = wrapAnthropicStream(st, ch)
  OBVIOUS
<1>15. in.st = [st EXCEPT !.tools = tools, !.buf = b] /\ in.out = pass /\ in.last = FALSE
  <2>1. in = [st |-> [st EXCEPT !.tools = tools, !.buf = b], out |-> pass, last |-> FALSE]
    BY <1>i, <1>7, <1>11, <1>13, <1>14 DEF wrapAnthropicStream, Ingested
  <2> QED BY <2>1
<1>16. /\ b \in Seq(Chunks(T)) /\ Granted(b, tools) /\ Reasoned(b) /\ Blockwise(b)
       /\ \A t : t \notin Late(j) => Parts(j.answer, t) = Parts(b, t) \o Parts(tail, t)
       /\ HasPart(st.buf) \/ ch.tools # {} => HasPart(b)
       /\ in.out \in Seq(Chunks(T)) /\ Silent(in.out)
  <2>1. CASE hold
    <3>1. b = Append(st.buf, ch) /\ in.out = <<>> /\ st.tools \subseteq tools /\ ch.tools \subseteq tools
      BY <1>8, <1>9, <1>13, <1>14, <1>15, <2>1
    <3>2. /\ b \in Seq(Chunks(T)) /\ Granted(b, tools) /\ Reasoned(b) /\ Blockwise(b)
          /\ \A t : Parts(b, t) = Parts(st.buf, t) \o Mark(ch, t)
          /\ HasPart(st.buf) \/ ch.tools # {} => HasPart(b)
      <4>1. /\ b = Append(buf, ch) /\ before \subseteq tools /\ Granted(buf, before) /\ Reasoned(buf)
            /\ ch.fin = "tool" => ch.tools # {} \/ HasPart(buf)
        BY <1>4, <1>5, <1>h, <1>b, <3>1
      <4>2. Holds(T, buf, ch, b, tools)
        BY <1>c, <3>1, <4>1, Holding
      <4> QED BY <1>5, <1>10, <1>h, <4>2 DEF Holds
    <3>3. ASSUME NEW t, t \notin Late(j) PROVE Parts(j.answer, t) = Parts(b, t) \o Parts(tail, t)
      <4>1. Parts(j.answer, t) = Parts(st.buf, t) \o (Mark(ch, t) \o Parts(tail, t))
        BY <1>4, <1>5, <3>3
      <4>2. PICK all : all = Parts(j.answer, t) /\ all = Parts(buf, t) \o (Mark(ch, t) \o Parts(tail, t))
        BY <1>h, <4>1
      <4>3. Parts(b, t) = Parts(buf, t) \o Mark(ch, t)
        BY <1>h, <3>2
      <4> QED BY <1>c, <4>2, <4>3, PartsMove
    <3>4. PICK e : e = <<>>
      OBVIOUS
    <3>5. e \in Seq(Chunks(T)) /\ Silent(e)
      BY <3>4 DEF Silent
    <3> QED BY <3>1, <3>2, <3>3, <3>4, <3>5
  <2>2. CASE ~hold
    <3>1. b = st.buf /\ in.out = <<ch>> /\ ch.tools = {} /\ ch.fin # "tool"
      BY <1>12, <1>13, <1>14, <1>15, <2>2
    <3>2. ASSUME NEW t, t \notin Late(j) PROVE Parts(j.answer, t) = Parts(b, t) \o Parts(tail, t)
      <4>1. Parts(j.answer, t) = Parts(st.buf, t) \o (Mark(ch, t) \o Parts(tail, t)) /\ t \notin ch.tools
        BY <1>4, <1>5, <3>1, <3>2
      <4>2. PICK all : all = Parts(j.answer, t) /\ all = Parts(buf, t) \o (Mark(ch, t) \o Parts(tail, t))
        BY <1>h, <4>1
      <4>3. all = Parts(buf, t) \o Parts(tail, t)
        <5>1. t \notin ch.tools
          BY <4>1
        <5> QED BY <1>c, <4>2, <5>1, PartsPass
      <4> QED BY <1>h, <3>1, <4>2, <4>3
    <3>3. PICK e : e = <<ch>>
      OBVIOUS
    <3>4. e \in Seq(Chunks(T)) /\ Silent(e)
      BY <1>4, <3>1, <3>3 DEF Silent
    <3>5. Granted(b, tools)
      BY <1>5, <1>8, <3>1 DEF Granted
    <3> QED BY <1>5, <3>1, <3>2, <3>3, <3>4, <3>5
  <2> QED BY <2>1, <2>2
<1>17. in.st \in StreamState(j) /\ in.st.buf = b /\ in.st.tools = tools
  <2>1. PICK A, B, S : A = Seq(Chunks(T)) /\ B = SUBSET T /\ S = [buf : A, tools : B, fin : StopReasons]
    OBVIOUS
  <2>2. S = StreamState(j)
    BY <1>1, <2>1 DEF StreamState
  <2>3. st \in [buf : A, tools : B, fin : StopReasons]
    BY <2>1, <2>2 DEF Gathered
  <2>4. tools \in B /\ b \in A
    BY <1>8, <1>16, <2>1
  <2>5. PICK q : q = [st EXCEPT !.tools = tools, !.buf = b]
    OBVIOUS
  <2>6. q \in [buf : A, tools : B, fin : StopReasons] /\ q.buf = b /\ q.tools = tools
    BY <2>3, <2>4, <2>5, StateUpdated
  <2> QED BY <1>15, <2>1, <2>2, <2>5, <2>6
<1>18. Follows(j, in.st, tail, n + 1)
  <2>1. \A i \in 1 .. n + 1 : j.answer[i].type = "content_block_start" => j.answer[i].tools \subseteq tools
    <3> SUFFICES ASSUME NEW i \in 1 .. n + 1, j.answer[i].type = "content_block_start"
                 PROVE  j.answer[i].tools \subseteq tools
      OBVIOUS
    <3>1. CASE i \in 1 .. n
      BY <1>6, <1>8, <3>1
    <3>2. CASE i = n + 1
      BY <1>4, <1>8, <3>2
    <3> QED BY <3>1, <3>2
  <2> QED BY <1>4, <1>16, <1>17, <2>1 DEF Follows
<1>19. n + 1 \in Nat
  OBVIOUS
<1>20. Gathered(j, in.st, tail)
  BY <1>1, <1>4, <1>16, <1>17, <1>18, <1>19 DEF Gathered
<1> QED BY <1>1, <1>3, <1>15, <1>16, <1>20, <1>i DEF Gathers

-----------------------------------------------------------------------------
(* A complete answer. *)

(* The caller is told of a tool only if it was given one. *)
Told(s) == (\E i \in 1 .. Len(s) : s[i].fin = "tool") => HasPart(s)

LEMMA ReasonedIsTold == ASSUME NEW C, NEW s \in Seq(C), Reasoned(s) PROVE Told(s)
<1> SUFFICES ASSUME NEW i \in 1 .. Len(s), s[i].fin = "tool" PROVE HasPart(s)
  BY DEF Told
<1>1. PICK j \in 1 .. i : s[j].tools # {}
  BY DEF Reasoned
<1>2. j \in 1 .. Len(s)
  BY ChunksAt
<1> QED BY <1>1, <1>2 DEF HasPart

(* What the patch gives for the answer of a job. *)
Answers(j, q, allowed, denied) ==
    /\ q \in Seq(ChunksOf(j)) /\ Granted(q, allowed) /\ Told(q)
    /\ \A t : t \notin denied => Parts(q, t) = Parts(j.answer, t)

(* What AnswersAssumption says of a "tool" reason. *)
LEMMA AnswerReasoned ==
    ASSUME NEW j \in Jobs, j.prov \in {"openai", "anthropic"}
    PROVE  Reasoned(j.answer)
BY ReasonFollows DEF Reasoned

(* New reasons leave the parts alone. *)
SameParts(T, s, r) == r \in Seq(Chunks(T)) /\ Len(r) = Len(s) /\ \A t : Parts(r, t) = Parts(s, t)

LEMMA Restated ==
    ASSUME NEW T, NEW s \in Seq(Chunks(T)), NEW n \in Nat, n = Len(s), NEW r, r = [i \in 1 .. n |-> r[i]],
           \A i \in 1 .. n : r[i] \in Chunks(T) /\ r[i].tools = s[i].tools /\ r[i].type = s[i].type
    PROVE  SameParts(T, s, r)
<1>1. r \in Seq(Chunks(T)) /\ Len(r) = n
  <2>1. r \in Seq(Chunks(T))
    BY IsASeq
  <2>2. DOMAIN r = 1 .. n
    OBVIOUS
  <2> QED BY <2>1, <2>2
<1>2. ASSUME NEW t PROVE Parts(r, t) = Parts(s, t)
  <2>1. \A i \in 1 .. n : Mark(r[i], t) = Mark(s[i], t)
    BY DEF Mark
  <2> QED BY <1>1, <2>1, PartsSame
<1> QED BY <1>1, <1>2 DEF SameParts

LEMMA FinReplaced ==
    ASSUME NEW T, NEW ch \in Chunks(T), NEW f \in StopReasons, NEW r, r = [ch EXCEPT !.fin = f]
    PROVE  r \in Chunks(T) /\ r.tools = ch.tools /\ r.type = ch.type /\ r.fin = f
BY DEF Chunks

(* The notices follow what is left. *)
Extends(T, r, q) ==
    /\ q \in Seq(Chunks(T)) /\ \A t : Parts(q, t) = Parts(r, t)
    /\ (\A i \in 1 .. Len(q) : (i \in 1 .. Len(r) /\ q[i] = r[i]) \/ (q[i].tools = {} /\ q[i].fin # "tool"))
    /\ (\A i \in 1 .. Len(r) : i \in 1 .. Len(q) /\ q[i] = r[i])

LEMMA Noticed ==
    ASSUME NEW T, NEW r \in Seq(Chunks(T)), NEW denied, IsFiniteSet(denied), NEW q, q = r \o Notices(denied)
    PROVE  Extends(T, r, q)
<1>1. PICK c \in Seq(Chunks(T)) : c = Notices(denied) /\ Silent(c)
  BY NoticeFacts
<1>2. PICK n \in Nat, m \in Nat : n = Len(r) /\ m = Len(c)
  BY ChunksAt
<1>3. /\ q \in Seq(Chunks(T)) /\ Len(q) = n + m
      /\ \A i \in 1 .. n : q[i] = r[i]
      /\ \A i \in 1 .. m : q[n + i] = c[i]
  BY <1>1, <1>2, ConcatProperties
<1>4. ASSUME NEW t PROVE Parts(q, t) = Parts(r, t)
  <2>1. \A i \in 1 .. Len(c) : t \notin c[i].tools
    BY <1>1 DEF Silent
  <2>2. Parts(c, t) = <<>> /\ Parts(r, t) \in Seq(ChunkTypes)
    BY <2>1, PartsNone, PartsType
  <2>3. Parts(r \o c, t) = Parts(r, t) \o Parts(c, t)
    BY PartsConcat
  <2> QED BY <1>1, <2>2, <2>3, ConcatEmptySeq
<1>5. ASSUME NEW i \in 1 .. n + m, i \notin 1 .. n PROVE q[i].tools = {} /\ q[i].fin # "tool"
  <2>1. i - n \in 1 .. m /\ n + (i - n) = i
    BY <1>5
  <2>2. q[i] = c[i - n]
    BY <1>3, <2>1
  <2> QED BY <1>1, <1>2, <2>1, <2>2 DEF Silent
<1>6. \A i \in 1 .. n : i \in 1 .. n + m
  OBVIOUS
<1> QED BY <1>2, <1>3, <1>4, <1>5, <1>6 DEF Extends

(* enforceNonStreamingOpenAI. *)
LEMMA OpenAIAnswers ==
    ASSUME NEW j \in Jobs, j.prov = "openai", ~j.stream, NEW denied, IsFiniteSet(denied),
           NEW tools, Granted(j.answer, tools)
    PROVE  Answers(j, enforceNonStreamingOpenAI(j.answer, denied), tools \ denied, denied)
<1>1. PICK T : T = ToolsOf(j.answer) /\ ChunksOf(j) = Chunks(T)
  BY DEF ChunksOf
<1>2. PICK msg \in Seq(Chunks(T)) : msg = j.answer
  BY <1>1, AnswerType
<1>3. PICK N \in Nat : N = Len(msg) /\ DOMAIN msg = 1 .. N /\ \A k \in 1 .. N : msg[k] \in Chunks(T)
  BY ChunksAt
<1>4. PICK q : q = enforceNonStreamingOpenAI(msg, denied)
  OBVIOUS
<1>5. CASE denied = {}
  <2>1. q = msg
    BY <1>4, <1>5 DEF enforceNonStreamingOpenAI
  <2>2. Told(msg)
    BY <1>2, AnswerReasoned, ReasonedIsTold
  <2>3. Granted(msg, tools \ denied)
    BY <1>2, <1>5
  <2> QED BY <1>1, <1>2, <1>4, <2>1, <2>2, <2>3 DEF Answers
<1>6. CASE denied # {}
  <2>1. PICK F : F = [k \in 1 .. N |-> IF msg[k].tools \cap denied = {} THEN <<msg[k]>> ELSE <<>>]
    OBVIOUS
  <2>2. PICK R : R = FlattenSeq(F)
    OBVIOUS
  <2>3. PICK kept : kept = Allowing(T, tools, denied) /\ kept = {ch \in Chunks(T) : ch.tools \subseteq tools \ denied}
    BY DEF Allowing
  <2>4. kept \subseteq Chunks(T)
    BY <2>3
  <2>5. ASSUME NEW k \in 1 .. N
        PROVE  F[k] \in Seq(kept) /\ \A t : t \notin denied => Parts(F[k], t) = Mark(msg[k], t)
    <3>1. PICK ch \in Chunks(T) : ch = msg[k]
      BY <1>3
    <3>2. ch.tools \subseteq tools /\ \A t, u \in ch.tools : t = u
      <4>1. ch.tools \subseteq tools
        BY <1>2, <1>3, <3>1 DEF Granted
      <4>2. ASSUME NEW t \in ch.tools, NEW u \in ch.tools PROVE t = u
        BY <1>2, <1>3, <3>1, OneCallEach
      <4> QED BY <4>1, <4>2
    <3>3. CASE ch.tools \cap denied = {}
      <4>1. F[k] = <<ch>> /\ ch \in kept
        BY <2>1, <2>3, <3>1, <3>2, <3>3
      <4>2. <<ch>> \in Seq(kept)
        BY <4>1
      <4> QED BY <3>1, <4>1, <4>2, PartsOne
    <3>4. CASE ch.tools \cap denied # {}
      <4>1. PICK e : e = <<>>
        OBVIOUS
      <4>2. F[k] = e
        BY <2>1, <3>1, <3>4, <4>1
      <4>3. e \in Seq(kept) /\ e \in Seq(Chunks(T))
        BY <4>1
      <4>4. ASSUME NEW t, t \notin denied PROVE Parts(e, t) = Mark(ch, t)
        <5>1. t \notin ch.tools
          BY <3>2, <3>4, <4>4
        <5>2. \A i \in 1 .. Len(e) : t \notin e[i].tools
          BY <4>1
        <5> QED BY <4>3, <5>1, <5>2, PartsNone DEF Mark
      <4> QED BY <3>1, <4>2, <4>3, <4>4
    <3> QED BY <3>3, <3>4
  <2>6. F = [k \in 1 .. N |-> F[k]]
    BY <2>1
  <2>7. R \in Seq(kept)
    <3>1. PICK g : Unrolls(F, N, g) /\ \A n \in 0 .. N : g[n] \in Seq(kept)
      BY <2>5, <2>6, FlattenUnrolls
    <3>2. N \in 0 .. N /\ g[N] = R
      BY <2>2, <3>1 DEF Unrolls
    <3> QED BY <3>1, <3>2
  <2>8. ASSUME NEW t, t \notin denied PROVE Parts(R, t) = Parts(msg, t)
    <3>1. \A n \in 1 .. N : F[n] \in Seq(Chunks(T))
      BY <2>4, <2>5, SeqMonotonic
    <3>2. \A n \in 1 .. N : Parts(F[n], t) = Mark(msg[n], t)
      BY <2>5, <2>8
    <3> QED BY <1>3, <2>2, <2>6, <3>1, <3>2, PartsFlatten
  <2>9. R \in Seq(Chunks(T))
    BY <2>4, <2>7, SeqMonotonic
  <2>10. PICK n \in Nat : n = Len(R) /\ DOMAIN R = 1 .. n /\ \A i \in 1 .. n : R[i] \in kept
    BY <2>7, ChunksAt
  <2>11. PICK stripped \in BOOLEAN : stripped = (ToolsOf(R) = {})
    OBVIOUS
  <2>12. PICK r : r = [i \in 1 .. n |-> [R[i] EXCEPT !.fin = IF R[i].fin # "none" /\ stripped THEN "stop" ELSE R[i].fin]]
    OBVIOUS
  <2>13. q = r \o Notices(denied)
    <3>1. [k \in DOMAIN msg |-> IF msg[k].tools \cap denied = {} THEN <<msg[k]>> ELSE <<>>] = F
      BY <1>3, <2>1
    <3>2. q = [k \in DOMAIN R |-> [R[k] EXCEPT !.fin = IF R[k].fin # "none" /\ ToolsOf(R) = {}
                                                        THEN "stop" ELSE R[k].fin]] \o Notices(denied)
      BY <1>4, <1>6, <2>2, <3>1 DEF enforceNonStreamingOpenAI
    <3> QED BY <2>10, <2>11, <2>12, <3>2
  <2>14. ASSUME NEW i \in 1 .. n
         PROVE  /\ r[i] \in Chunks(T) /\ r[i].tools = R[i].tools /\ r[i].type = R[i].type
                /\ r[i].tools \subseteq tools \ denied /\ (r[i].fin = "tool" => ~stripped)
    <3>1. PICK ch \in Chunks(T) : ch = R[i] /\ ch.tools \subseteq tools \ denied
      BY <2>3, <2>10
    <3>2. PICK f : f = IF ch.fin # "none" /\ stripped THEN "stop" ELSE ch.fin
      OBVIOUS
    <3>3. f \in StopReasons /\ (f = "tool" => ~stripped)
      BY <3>2, ChunkParts DEF StopReasons
    <3>4. r[i] = [ch EXCEPT !.fin = f]
      BY <2>12, <3>1, <3>2
    <3>5. r[i] \in Chunks(T) /\ r[i].tools = ch.tools /\ r[i].type = ch.type /\ r[i].fin = f
      BY <3>3, <3>4, FinReplaced
    <3> QED BY <3>1, <3>3, <3>5
  <2>15. r \in Seq(Chunks(T)) /\ Len(r) = n /\ \A t : Parts(r, t) = Parts(R, t)
    <3>1. r = [i \in 1 .. n |-> r[i]]
      BY <2>12
    <3>2. \A i \in 1 .. n : r[i] \in Chunks(T) /\ r[i].tools = R[i].tools /\ r[i].type = R[i].type
      BY <2>14
    <3>3. SameParts(T, R, r)
      BY <2>9, <2>10, <3>1, <3>2, Restated
    <3> QED BY <2>10, <3>3 DEF SameParts
  <2>16. /\ q \in Seq(Chunks(T)) /\ \A t : Parts(q, t) = Parts(r, t)
         /\ (\A i \in 1 .. Len(q) : (i \in 1 .. Len(r) /\ q[i] = r[i]) \/ (q[i].tools = {} /\ q[i].fin # "tool"))
         /\ (\A i \in 1 .. Len(r) : i \in 1 .. Len(q) /\ q[i] = r[i])
    <3>1. Extends(T, r, q)
      BY <2>13, <2>15, Noticed
    <3> QED BY <3>1 DEF Extends
  <2>17. Granted(q, tools \ denied)
    BY <2>14, <2>15, <2>16 DEF Granted
  <2>18. Told(q)
    <3> SUFFICES ASSUME NEW i \in 1 .. Len(q), q[i].fin = "tool" PROVE HasPart(q)
      BY DEF Told
    <3>1. ~stripped
      BY <2>14, <2>15, <2>16
    <3>2. PICK m \in 1 .. n : R[m].tools # {}
      BY <2>10, <2>11, <3>1, ZenonT(60) DEF ToolsOf
    <3>3. m \in 1 .. Len(q) /\ q[m].tools # {}
      BY <2>14, <2>15, <2>16, <3>2
    <3> QED BY <3>3 DEF HasPart
  <2>19. \A t : t \notin denied => Parts(q, t) = Parts(msg, t)
    BY <2>8, <2>15, <2>16
  <2> QED BY <1>1, <1>2, <1>4, <2>16, <2>17, <2>18, <2>19 DEF Answers
<1> QED BY <1>5, <1>6

(* enforceNonStreamingAnthropic. *)
LEMMA AnthropicAnswers ==
    ASSUME NEW j \in Jobs, j.prov = "anthropic", NEW denied, NEW tools, Granted(j.answer, tools), ~j.stream
    PROVE  Answers(j, enforceNonStreamingAnthropic(j.answer, denied), tools \ denied, denied)
<1>1. PICK T : T = ToolsOf(j.answer) /\ ChunksOf(j) = Chunks(T)
  BY DEF ChunksOf
<1>2. PICK msg \in Seq(Chunks(T)) : msg = j.answer
  BY <1>1, AnswerType
<1>3. PICK N \in Nat : N = Len(msg) /\ DOMAIN msg = 1 .. N /\ \A k \in 1 .. N : msg[k] \in Chunks(T)
  BY ChunksAt
<1>4. PICK q : q = enforceNonStreamingAnthropic(msg, denied)
  OBVIOUS
<1>5. PICK notice : notice = Chunk("notice", {}, "none")
  OBVIOUS
<1>6. notice \in Chunks(T) /\ notice.tools = {} /\ notice.fin # "tool"
  BY <1>5 DEF Chunk, Chunks, ChunkTypes, StopReasons
<1>7. PICK c : c = [k \in 1 .. N |-> IF msg[k].tools \cap denied # {} THEN notice ELSE msg[k]]
  OBVIOUS
<1>8. q = IF denied = {} \/ ToolsOf(c) # {} THEN c ELSE [k \in DOMAIN c |-> rewriteMessageDeltaStopReason(c[k])]
  <2>1. [k \in DOMAIN msg |-> IF msg[k].tools \cap denied # {} THEN Chunk("notice", {}, "none") ELSE msg[k]] = c
    BY <1>3, <1>5, <1>7
  <2> QED BY <1>4, <2>1 DEF enforceNonStreamingAnthropic
<1>9. ASSUME NEW k \in 1 .. N
      PROVE  c[k] \in Chunks(T) /\ c[k].tools \subseteq tools \ denied /\ \A t : t \notin denied => Mark(c[k], t) = Mark(msg[k], t)
  <2>1. PICK ch \in Chunks(T) : ch = msg[k]
    BY <1>3
  <2>2. ch.tools \subseteq tools
    BY <1>2, <1>3, <2>1 DEF Granted
  <2>3. ASSUME NEW t \in ch.tools, NEW u \in ch.tools PROVE t = u
    BY <1>2, <1>3, <2>1, OneCallEach
  <2>4. CASE ch.tools \cap denied = {}
    <3>1. c[k] = ch
      BY <1>7, <2>1, <2>4
    <3> QED BY <2>1, <2>2, <2>4, <3>1
  <2>5. CASE ch.tools \cap denied # {}
    <3>1. c[k] = notice
      BY <1>7, <2>1, <2>5
    <3>2. \A t : t \notin denied => t \notin ch.tools /\ t \notin notice.tools
      BY <1>6, <2>3, <2>5
    <3> QED BY <1>6, <2>1, <3>1, <3>2 DEF Mark
  <2> QED BY <2>4, <2>5
<1>10. c = [k \in 1 .. N |-> c[k]] /\ DOMAIN c = 1 .. N
  BY <1>7
<1>11. c \in Seq(Chunks(T)) /\ Len(c) = N
  <2>1. c \in Seq(Chunks(T))
    BY <1>9, <1>10, IsASeq
  <2> QED BY <1>10, <2>1
<1>12. ASSUME NEW t, t \notin denied PROVE Parts(c, t) = Parts(msg, t)
  <2>1. \A k \in 1 .. N : Mark(c[k], t) = Mark(msg[k], t)
    BY <1>9, <1>12
  <2> QED BY <1>3, <1>11, <2>1, PartsSame
<1>13. Granted(c, tools \ denied)
  BY <1>9, <1>11 DEF Granted
<1>14. CASE denied = {} \/ ToolsOf(c) # {}
  <2>1. q = c
    BY <1>8, <1>14
  <2>2. Told(c)
    <3>1. CASE denied = {}
      <4>1. c = msg
        <5>1. \A k \in 1 .. N : c[k] = msg[k]
          BY <1>7, <3>1
        <5>2. msg = [k \in 1 .. N |-> msg[k]]
          BY <1>3
        <5> QED BY <1>10, <5>1, <5>2
      <4> QED BY <1>2, <4>1, AnswerReasoned, ReasonedIsTold
    <3>2. CASE ToolsOf(c) # {}
      <4>1. PICK k \in DOMAIN c : c[k].tools # {}
        BY <3>2 DEF ToolsOf
      <4> QED BY <1>10, <1>11, <4>1 DEF Told, HasPart
    <3> QED BY <1>14, <3>1, <3>2
  <2> QED BY <1>1, <1>2, <1>4, <1>11, <1>12, <1>13, <2>1, <2>2 DEF Answers
<1>15. CASE ~(denied = {} \/ ToolsOf(c) # {})
  <2>1. q = [k \in 1 .. N |-> rewriteMessageDeltaStopReason(c[k])]
    BY <1>8, <1>10, <1>15
  <2>2. ASSUME NEW k \in 1 .. N
        PROVE  /\ q[k] \in Chunks(T) /\ q[k].tools = c[k].tools /\ q[k].type = c[k].type /\ q[k].fin # "tool"
    <3>1. PICK ch \in Chunks(T) : ch = c[k]
      BY <1>9
    <3>2. PICK f : f = IF ch.fin = "tool" THEN "stop" ELSE ch.fin
      OBVIOUS
    <3>3. f \in StopReasons /\ f # "tool"
      BY <3>2, ChunkParts DEF StopReasons
    <3>4. q[k] = [ch EXCEPT !.fin = f]
      BY <2>1, <3>1, <3>2 DEF rewriteMessageDeltaStopReason
    <3>5. q[k] \in Chunks(T) /\ q[k].tools = ch.tools /\ q[k].type = ch.type /\ q[k].fin = f
      BY <3>3, <3>4, FinReplaced
    <3> QED BY <3>1, <3>3, <3>5
  <2>3. SameParts(T, c, q)
    <3>1. q = [k \in 1 .. N |-> q[k]]
      BY <2>1
    <3>2. \A k \in 1 .. N : q[k] \in Chunks(T) /\ q[k].tools = c[k].tools /\ q[k].type = c[k].type
      BY <2>2
    <3> QED BY <1>11, <3>1, <3>2, Restated
  <2>4. q \in Seq(Chunks(T)) /\ Len(q) = N /\ \A t : Parts(q, t) = Parts(c, t)
    BY <1>11, <2>3 DEF SameParts
  <2>5. Granted(q, tools \ denied) /\ Told(q)
    BY <1>9, <2>2, <2>4 DEF Granted, Told
  <2> QED BY <1>1, <1>2, <1>4, <1>12, <2>4, <2>5 DEF Answers
<1> QED BY <1>14, <1>15

-----------------------------------------------------------------------------
(* The answer of a call, on its way to the caller. *)

Unread(k) ==
    /\ k.src = k.job.answer /\ k.queue = <<>> /\ k.out = <<>> /\ k.st = newStreamState
    /\ k.denied = {} /\ k.allowed = {} /\ k.result = "none"

(* Nothing with a part of a call was passed on; what was read is held.     *)
Reading(k) ==
    /\ k.denied = {} /\ k.allowed = {} /\ k.result = "none"
    /\ k.out \in Seq(ChunksOf(k.job)) /\ Silent(k.out)
    /\ k.queue \in Seq(ChunksOf(k.job)) /\ Silent(k.queue)
    /\ Gathered(k.job, k.st, k.src)
    /\ k.phase = "verdicts" => k.src = <<>>

(* The caller has, or has coming, what it is allowed and all of it.        *)
Replaying(k) ==
    /\ k.src = <<>> /\ k.st = newStreamState /\ k.phase # "verdicts" /\ k.result = "none"
    /\ k.out \in Seq(ChunksOf(k.job)) /\ k.queue \in Seq(ChunksOf(k.job))
    /\ Granted(k.out \o k.queue, k.allowed) /\ Reasoned(k.out \o k.queue)
    /\ \A t : t \notin k.denied \cup Late(k.job) => Parts(k.out \o k.queue, t) = Parts(k.job.answer, t)

(* ReplaySound, of one call. *)
SoundRun(k) ==
    /\ \A i \in DOMAIN k.out : \/ k.out[i].tools \subseteq k.allowed
                               \/ k.out[i].type = "custom" /\ ~k.job.stream
    /\ k.result \in {"stream", "answer"} =>
          \A t \in ToolsOf(k.job.answer) \ (k.denied \cup Late(k.job)) : Parts(k.out, t) = Parts(k.job.answer, t)
    /\ (\E i \in DOMAIN k.out : k.out[i].fin = "tool") => ToolsOf(k.out) # {}

ReplayOK(k) ==
    /\ k.phase \in {"gate", "fallback", "tool", "poll"} => ~k.governed
    /\ k.phase \in {"gate", "fallback", "create"} => Unread(k)
    /\ k.phase \in {"open", "next"} => k.job.stream
    /\ k.governed => k.job.prov \in Providers
    /\ k.governed /\ k.phase \in {"open", "next", "verdicts"} =>
          IF k.job.stream THEN Reading(k) \/ Replaying(k) ELSE Unread(k)
    /\ k.governed /\ k.phase \in {"done", "over"} => SoundRun(k)

ReplayInv == \A c \in Calls : call[c].phase # "idle" => ReplayOK(call[c])
-----------------------------------------------------------------------------
(* The caller's view of a call, which no row changes. *)
View(k, t) ==
    /\ IsRun(t) /\ t.job = k.job /\ t.governed = k.governed
    /\ t.src = k.src /\ t.st = k.st /\ t.queue = k.queue /\ t.out = k.out
    /\ t.denied = k.denied /\ t.allowed = k.allowed

LEMMA RowView ==
    ASSUME NEW k, IsRun(k), NEW r
    PROVE  View(k, Row(k, r)) /\ SameEnd(k, Row(k, r))
BY DEF IsRun, ToolFields, Row, View, SameEnd

LEMMA RowIfView ==
    ASSUME NEW k, IsRun(k), NEW b, NEW r
    PROVE  View(k, RowIf(k, b, r)) /\ SameEnd(k, RowIf(k, b, r))
BY RowView DEF RowIf, View, SameEnd

LEMMA SettledView ==
    ASSUME NEW k, IsRun(k), NEW r
    PROVE  View(k, Settled(k, r)) /\ Settled(k, r).phase = "done" /\ Settled(k, r).result = r
BY DEF IsRun, ToolFields, Settled, View

LEMMA PhaseView ==
    ASSUME NEW k, IsRun(k), NEW p, NEW t, t = [k EXCEPT !.phase = p]
    PROVE  View(k, t) /\ t.phase = p /\ t.result = k.result
BY DEF IsRun, ToolFields, View

LEMMA RowTimesView ==
    ASSUME NEW k, IsRun(k), NEW n, NEW r
    PROVE  View(k, RowTimes(k, n, r)) /\ SameEnd(k, RowTimes(k, n, r))
BY DEF IsRun, ToolFields, RowTimes, View, SameEnd

LEMMA FinalizedView ==
    ASSUME NEW k, IsRun(k), NEW t, t = [k EXCEPT !.finalized = TRUE]
    PROVE  View(k, t) /\ SameEnd(k, t)
BY DEF IsRun, ToolFields, View, SameEnd

LEMMA EndView ==
    ASSUME NEW k, IsRun(k), NEW n
    PROVE  View(k, Row(RowTimes(k, n, "tool"), "end")) /\ SameEnd(k, Row(RowTimes(k, n, "tool"), "end"))
<1>1. PICK u : u = RowTimes(k, n, "tool") /\ View(k, u) /\ SameEnd(k, u)
  BY RowTimesView
<1>2. View(u, Row(u, "end")) /\ SameEnd(u, Row(u, "end"))
  BY <1>1, RowView DEF View
<1> QED BY <1>1, <1>2 DEF View, SameEnd

LEMMA StreamDoneView ==
    ASSUME NEW k, IsRun(k)
    PROVE  View(k, StreamDone(k)) /\ SameEnd(k, StreamDone(k))
<1>1. View(k, k) /\ SameEnd(k, k)
  BY DEF View, SameEnd
<1>2. View(k, finalize(k)) /\ SameEnd(k, finalize(k))
  <2>1. PICK u : u = Row(RowTimes(k, Cardinality(ToolsOf(k.out)), "tool"), "end") /\ View(k, u) /\ SameEnd(k, u)
    BY EndView
  <2>2. PICK t : t = [u EXCEPT !.finalized = TRUE] /\ View(u, t) /\ SameEnd(u, t)
    BY <2>1, FinalizedView DEF View
  <2>3. View(k, t) /\ SameEnd(k, t)
    BY <2>1, <2>2 DEF View, SameEnd
  <2>4. finalize(k) = k \/ finalize(k) = t
    BY <2>1, <2>2 DEF finalize
  <2> QED BY <1>1, <2>3, <2>4
<1>3. View(k, afterGenerate(k)) /\ SameEnd(k, afterGenerate(k))
  BY EndView DEF afterGenerate
<1>4. StreamDone(k) = k \/ StreamDone(k) = finalize(k) \/ StreamDone(k) = afterGenerate(k)
  BY DEF StreamDone
<1> QED BY <1>1, <1>2, <1>3, <1>4

LEMMA StreamThrowsView ==
    ASSUME NEW k, IsRun(k)
    PROVE  View(k, StreamThrows(k))
<1>1. PICK u : u = Row(k, "error") /\ View(k, u)
  BY RowView
<1>u. IsRun(u)
  BY <1>1 DEF View
<1>2. PICK t : t = [u EXCEPT !.finalized = TRUE] /\ View(u, t)
  BY <1>u, FinalizedView
<1>3. View(k, t) /\ View(k, k)
  BY <1>1, <1>2 DEF View
<1>4. StreamThrows(k) = k \/ StreamThrows(k) = u \/ StreamThrows(k) = t
  BY <1>1, <1>2 DEF StreamThrows
<1> QED BY <1>1, <1>3, <1>4

(* t is k after the caller was given the chunks s. *)
Given(k, s, t) ==
    /\ IsRun(t) /\ t.job = k.job /\ t.governed = k.governed /\ t.src = k.src /\ t.st = k.st
    /\ t.queue = k.queue /\ t.denied = k.denied /\ t.allowed = k.allowed
    /\ t.phase = k.phase /\ t.result = k.result /\ t.out = k.out \o s

LEMMA DeliveredView ==
    ASSUME NEW k, IsRun(k), NEW s
    PROVE  Given(k, s, Delivered(k, s))
<1>1. PICK o : o = k.out \o s
  OBVIOUS
<1>2. PICK t : t = [k EXCEPT !.out = o]
  OBVIOUS
<1>3. Delivered(k, s) = t
  BY <1>1, <1>2 DEF Delivered
<1>4. /\ IsRun(t) /\ t.job = k.job /\ t.governed = k.governed /\ t.src = k.src /\ t.st = k.st
      /\ t.queue = k.queue /\ t.denied = k.denied /\ t.allowed = k.allowed
      /\ t.phase = k.phase /\ t.result = k.result /\ t.out = o
  BY <1>2 DEF IsRun, ToolFields
<1> QED BY <1>1, <1>3, <1>4 DEF Given

LEMMA PatchedView ==
    ASSUME NEW k, IsRun(k), NEW t, t = patchedCreate(k)
    PROVE  /\ IsRun(t) /\ t.job = k.job /\ t.src = k.src /\ t.st = k.st /\ t.queue = k.queue /\ t.out = k.out
           /\ t.denied = k.denied /\ t.allowed = k.allowed /\ t.result = k.result
           /\ t.phase = "create" /\ (t.governed => t.job.prov \in Providers)
<1>1. PICK g \in BOOLEAN : g = (k.job.prov \in Providers /\ ready /\ sdk[k.job.prov])
  OBVIOUS
<1>2. g => k.job.prov \in Providers
  BY <1>1
<1>3. t = [k EXCEPT !.phase = "create", !.governed = g]
  BY <1>1 DEF patchedCreate
<1> QED BY <1>2, <1>3 DEF IsRun, ToolFields

(* A step that gives a call a sound record keeps the invariant. *)
LEMMA ReplaySets ==
    ASSUME ToolsInv, ReplayInv, NEW c \in Calls, NEW t, Set(c, t), ReplayOK(t)
    PROVE  ReplayInv'
<1>1. call' = [call EXCEPT ![c] = t] /\ call = [d \in Calls |-> call[d]]
  BY DEF ToolsInv, Set
<1>2. call'[c] = t /\ \A d \in Calls \ {c} : call'[d] = call[d]
  BY <1>1
<1>3. \A d \in Calls : call'[d].phase # "idle" => ReplayOK(call'[d])
  <2> SUFFICES ASSUME NEW d \in Calls, call'[d].phase # "idle" PROVE ReplayOK(call'[d])
    OBVIOUS
  <2>1. CASE d = c
    BY <1>2, <2>1
  <2>2. CASE d # c
    BY <1>2, <2>2 DEF ReplayInv
  <2> QED BY <2>1, <2>2
<1> QED BY <1>3 DEF ReplayInv

(* A call that ends is sound when what its caller has is. *)
LEMMA DoneSound ==
    ASSUME NEW k, NEW t, ReplayOK(k), View(k, t), t.phase \in {"done", "over"}, k.governed => SoundRun(t)
    PROVE  ReplayOK(t)
<1>1. t.job = k.job /\ t.governed = k.governed
  BY DEF View
<1>2. t.governed => t.job.prov \in Providers
  BY <1>1 DEF ReplayOK
<1>3. t.governed => SoundRun(t)
  BY <1>1
<1> QED BY <1>2, <1>3 DEF ReplayOK

LEMMA UnreadView ==
    ASSUME NEW k, NEW t, View(k, t), t.result = k.result, Unread(k)
    PROVE  Unread(t)
BY DEF View, Unread

(* An empty answer is sound. *)
LEMMA NothingSound ==
    ASSUME NEW k, k.out = <<>>, k.result \notin {"stream", "answer"}
    PROVE  SoundRun(k)
<1>1. DOMAIN k.out = {}
  <2>1. PICK e : e = <<>>
    OBVIOUS
  <2>2. DOMAIN e = {}
    BY <2>1
  <2> QED BY <2>1, <2>2
<1> QED BY <1>1 DEF SoundRun

(* Past the gate nothing of the answer is read yet. *)
LEMMA ProceedOK ==
    ASSUME NEW k, IsRun(k), Unread(k), ~k.governed
    PROVE  ReplayOK(Proceed(k))
<1>1. k.job \in Jobs
  BY DEF IsRun
<1>2. k.job.wrap.runs \in {"nothing", "llm", "tool", "poll"}
  BY <1>1, JobsAssumption
<1>3. CASE k.job.wrap.runs = "nothing"
  <2>1. PICK u : u = RowIf(k, k.job.wrap.ok, "ok") /\ View(k, u)
    BY RowIfView
  <2>2. PICK t : t = Settled(u, "allowed") /\ View(u, t) /\ t.phase = "done"
    BY <2>1, SettledView DEF View
  <2>3. Proceed(k) = t
    BY <1>3, <2>1, <2>2 DEF Proceed
  <2>4. ~t.governed
    BY <2>1, <2>2 DEF View
  <2> QED BY <2>2, <2>3, <2>4 DEF ReplayOK
<1>4. CASE k.job.wrap.runs = "llm"
  <2>1. PICK u : u = RowIf(k, k.job.wrap.start = "after", "start") /\ View(k, u) /\ SameEnd(k, u)
    BY RowIfView
  <2>2. IsRun(u) /\ Unread(u)
    BY <2>1, UnreadView DEF View, SameEnd
  <2>3. PICK t : t = patchedCreate(u)
    OBVIOUS
  <2>4. Proceed(k) = t
    BY <1>4, <2>1, <2>3 DEF Proceed
  <2>5. /\ t.job = u.job /\ t.src = u.src /\ t.st = u.st /\ t.queue = u.queue /\ t.out = u.out
        /\ t.denied = u.denied /\ t.allowed = u.allowed /\ t.result = u.result
        /\ t.phase = "create" /\ (t.governed => t.job.prov \in Providers)
    BY <2>2, <2>3, PatchedView
  <2>6. Unread(t)
    BY <2>2, <2>5 DEF Unread
  <2> QED BY <2>4, <2>5, <2>6 DEF ReplayOK
<1>5. CASE k.job.wrap.runs \in {"tool", "poll"}
  <2>1. PICK w \in {"tool", "poll"} : w = k.job.wrap.runs
    BY <1>5
  <2>2. PICK t : t = [k EXCEPT !.phase = w]
    OBVIOUS
  <2>3. Proceed(k) = t
    BY <2>1, <2>2 DEF Proceed
  <2>4. View(k, t) /\ t.phase = w
    BY <2>2, PhaseView
  <2>5. ~t.governed
    BY <2>4 DEF View
  <2> QED BY <2>1, <2>3, <2>4, <2>5 DEF ReplayOK
<1> QED BY <1>2, <1>3, <1>4, <1>5

LEMMA BeginReplays ==
    ASSUME ToolsInv, ReplayInv, NEW c \in Calls, Begin(c)
    PROVE  ReplayInv'
<1>1. PICK j \in Jobs :
        LET k == RowIf(Fresh(j), j.wrap.start = "before", "start")
        IN  Set(c, IF GuardsOf(j) = 0 THEN Proceed(k) ELSE k)
  BY DEF Begin
<1>2. PICK f : f = Fresh(j)
  OBVIOUS
<1>3. PICK k : k = RowIf(f, j.wrap.start = "before", "start")
  OBVIOUS
<1>4. Set(c, IF GuardsOf(j) = 0 THEN Proceed(k) ELSE k)
  BY <1>1, <1>2, <1>3
<1>5. IsRun(f) /\ Unread(f) /\ ~f.governed /\ f.phase = "gate"
  BY <1>2 DEF Fresh, IsRun, ToolFields, Unread
<1>6. View(f, k) /\ SameEnd(f, k)
  BY <1>3, <1>5, RowIfView
<1>7. IsRun(k) /\ Unread(k) /\ ~k.governed /\ k.phase = "gate"
  BY <1>5, <1>6, UnreadView DEF View, SameEnd
<1>8. ReplayOK(k)
  BY <1>7 DEF ReplayOK
<1>9. PICK t : t = IF GuardsOf(j) = 0 THEN Proceed(k) ELSE k
  OBVIOUS
<1>10. ReplayOK(t)
  BY <1>7, <1>8, <1>9, ProceedOK
<1> QED BY <1>4, <1>9, <1>10, ReplaySets

LEMMA ReplayOf ==
    ASSUME ToolsInv, ReplayInv, NEW c \in Calls, call[c].phase # "idle", NEW k, k = call[c]
    PROVE  IsRun(k) /\ ReplayOK(k)
BY RunOf DEF ReplayInv

(* A call that no patch governs any more owes nothing. *)
LEMMA UngovernedOK ==
    ASSUME NEW t, ~t.governed, t.phase \in {"poll", "done", "over"}
    PROVE  ReplayOK(t)
BY DEF ReplayOK

LEMMA evaluateToolCallReplays ==
    ASSUME ToolsInv, ReplayInv, NEW c \in Calls, evaluateToolCall(c)
    PROVE  ReplayInv'
<1>1. PICK b : b = call[c] /\ b.phase = "gate"
  BY DEF evaluateToolCall
<1>2. IsRun(b) /\ Unread(b) /\ ~b.governed
  BY <1>1, ReplayOf DEF ReplayOK
<1>3. PICK v \in {"allow", "deny", "noApiKey", "fails"} :
        LET k == [call[c] EXCEPT !.asked = @ + 1, !.verdict = v]
        IN  Set(c, CASE v = "allow"    -> IF k.asked < GuardsOf(k.job) THEN k ELSE Proceed(k)
                     [] v = "noApiKey" -> [k EXCEPT !.phase = "fallback", !.fell = TRUE]
                     [] OTHER          -> Denied(k))
  BY DEF evaluateToolCall
<1>4. PICK k : k = [b EXCEPT !.asked = @ + 1, !.verdict = v]
  OBVIOUS
<1>5. PICK t : t = CASE v = "allow"    -> IF k.asked < GuardsOf(k.job) THEN k ELSE Proceed(k)
                     [] v = "noApiKey" -> [k EXCEPT !.phase = "fallback", !.fell = TRUE]
                     [] OTHER          -> Denied(k)
  OBVIOUS
<1>6. Set(c, t)
  BY <1>1, <1>3, <1>4, <1>5
<1>7. View(b, k) /\ k.phase = "gate" /\ k.result = b.result
  BY <1>1, <1>2, <1>4 DEF IsRun, ToolFields, View
<1>8. IsRun(k) /\ Unread(k) /\ ~k.governed
  BY <1>2, <1>7, UnreadView DEF View
<1>9. ReplayOK(t)
  <2>1. CASE v = "allow"
    <3>1. ReplayOK(k)
      BY <1>7, <1>8 DEF ReplayOK
    <3>2. ReplayOK(Proceed(k))
      BY <1>8, ProceedOK
    <3> QED BY <1>5, <2>1, <3>1, <3>2
  <2>2. CASE v = "noApiKey"
    <3>1. t = [k EXCEPT !.phase = "fallback", !.fell = TRUE]
      BY <1>5, <2>2
    <3>2. View(k, t) /\ t.phase = "fallback" /\ t.result = k.result
      BY <1>8, <3>1 DEF IsRun, ToolFields, View
    <3>3. Unread(t) /\ ~t.governed
      BY <1>8, <3>2, UnreadView DEF View
    <3> QED BY <3>2, <3>3 DEF ReplayOK
  <2>3. CASE v \notin {"allow", "noApiKey"}
    <3>1. PICK u : u = Row(k, "deny") /\ View(k, u)
      BY <1>8, RowView
    <3>2. PICK r : r = k.job.wrap.onDeny
      OBVIOUS
    <3>3. t = Settled(u, r)
      BY <1>5, <2>3, <3>1, <3>2 DEF Denied
    <3>4. View(u, t) /\ t.phase = "done"
      BY <3>1, <3>3, SettledView DEF View
    <3>5. ~t.governed
      BY <1>8, <3>1, <3>4 DEF View
    <3> QED BY <3>4, <3>5, UngovernedOK
  <2> QED BY <2>1, <2>2, <2>3
<1> QED BY <1>6, <1>9, ReplaySets

LEMMA isAllowedReplays ==
    ASSUME ToolsInv, ReplayInv, NEW c \in Calls, isAllowed(c)
    PROVE  ReplayInv'
<1>1. PICK b : b = call[c] /\ b.phase = "fallback"
  BY DEF isAllowed
<1>2. IsRun(b) /\ Unread(b) /\ ~b.governed
  BY <1>1, ReplayOf DEF ReplayOK
<1>3. PICK v \in {"allow", "deny", "fails"} :
        LET k == [call[c] EXCEPT !.verdict = v]
        IN  Set(c, CASE v = "allow" -> IF k.asked < GuardsOf(k.job)
                                       THEN [k EXCEPT !.phase = "gate"] ELSE Proceed(k)
                     [] v = "fails" /\ W(c).raises -> Settled(k, "error")
                     [] OTHER -> Settled(RowIf(k, ~W(c).mute, "deny"), W(c).onDeny))
  BY DEF isAllowed
<1>4. PICK k : k = [b EXCEPT !.verdict = v]
  OBVIOUS
<1>5. PICK t : t = CASE v = "allow" -> IF k.asked < GuardsOf(k.job)
                                       THEN [k EXCEPT !.phase = "gate"] ELSE Proceed(k)
                     [] v = "fails" /\ W(c).raises -> Settled(k, "error")
                     [] OTHER -> Settled(RowIf(k, ~W(c).mute, "deny"), W(c).onDeny)
  OBVIOUS
<1>6. Set(c, t)
  BY <1>1, <1>3, <1>4, <1>5
<1>7. View(b, k) /\ k.phase = "fallback" /\ k.result = b.result
  BY <1>1, <1>2, <1>4 DEF IsRun, ToolFields, View
<1>8. IsRun(k) /\ Unread(k) /\ ~k.governed
  BY <1>2, <1>7, UnreadView DEF View
<1>9. ReplayOK(t)
  <2>1. CASE v = "allow" /\ k.asked < GuardsOf(k.job)
    <3>1. t = [k EXCEPT !.phase = "gate"]
      BY <1>5, <2>1
    <3>2. View(k, t) /\ t.phase = "gate" /\ t.result = k.result
      BY <1>8, <3>1, PhaseView
    <3>3. Unread(t) /\ ~t.governed
      BY <1>8, <3>2, UnreadView DEF View
    <3> QED BY <3>2, <3>3 DEF ReplayOK
  <2>2. CASE v = "allow" /\ ~(k.asked < GuardsOf(k.job))
    <3>1. t = Proceed(k)
      BY <1>5, <2>2
    <3> QED BY <1>8, <3>1, ProceedOK
  <2>3. CASE v # "allow"
    <3>1. PICK u : u = RowIf(k, ~W(c).mute, "deny") /\ View(k, u)
      BY <1>8, RowIfView
    <3>2. PICK r : r = W(c).onDeny
      OBVIOUS
    <3>3. t = Settled(k, "error") \/ t = Settled(u, r)
      BY <1>5, <2>3, <3>1, <3>2
    <3>4. View(k, Settled(k, "error")) /\ Settled(k, "error").phase = "done"
      BY <1>8, SettledView
    <3>5. View(u, Settled(u, r)) /\ Settled(u, r).phase = "done"
      BY <3>1, SettledView DEF View
    <3>6. t.phase = "done" /\ ~t.governed
      BY <1>8, <3>1, <3>3, <3>4, <3>5 DEF View
    <3> QED BY <3>6, UngovernedOK
  <2> QED BY <2>1, <2>2, <2>3
<1> QED BY <1>6, <1>9, ReplaySets

LEMMA ToolRunsReplays ==
    ASSUME ToolsInv, ReplayInv, NEW c \in Calls, ToolRuns(c)
    PROVE  ReplayInv'
<1>1. PICK k : k = call[c] /\ k.phase = "tool"
  BY DEF ToolRuns
<1>2. IsRun(k) /\ ~k.governed
  BY <1>1, ReplayOf DEF ReplayOK
<1>3. PICK u : u = RowIf(k, W(c).ok, "ok") /\ View(k, u)
  BY <1>2, RowIfView
<1>4. PICK t : Set(c, t) /\ (t = Settled(u, "ran") \/ t = Settled(k, "error"))
  BY <1>1, <1>3 DEF ToolRuns
<1>5. View(u, Settled(u, "ran")) /\ Settled(u, "ran").phase = "done"
  BY <1>3, SettledView DEF View
<1>6. View(k, Settled(k, "error")) /\ Settled(k, "error").phase = "done"
  BY <1>2, SettledView
<1>7. t.phase = "done" /\ ~t.governed
  BY <1>2, <1>3, <1>4, <1>5, <1>6 DEF View
<1>8. ReplayOK(t)
  BY <1>7, UngovernedOK
<1> QED BY <1>4, <1>8, ReplaySets

LEMMA waitForCompletionReplays ==
    ASSUME ToolsInv, ReplayInv, NEW c \in Calls, waitForCompletion(c)
    PROVE  ReplayInv'
<1>1. PICK k : k = call[c] /\ k.phase = "poll"
  BY DEF waitForCompletion
<1>2. IsRun(k) /\ ~k.governed
  BY <1>1, ReplayOf DEF ReplayOK
<1>3. CASE Set(c, Settled(k, "timeout"))
  <2>1. PICK t : t = Settled(k, "timeout") /\ View(k, t) /\ t.phase = "done"
    BY <1>2, SettledView
  <2>2. ReplayOK(t)
    BY <1>2, <2>1, UngovernedOK DEF View
  <2> QED BY <1>3, <2>1, <2>2, ReplaySets
<1>4. CASE \E status \in RunOver \cup {"in_progress", "requires_action", "rejects"}, latency \in {0, 1} :
              LET p == [k EXCEPT !.clock = @ + PollInterval + latency, !.polls = @ + 1]
                  q == RowIf(Row(p, "poll"), status = "requires_action", "tool")
              IN  Set(c, CASE status = "rejects" -> Settled(p, "error")
                           [] status \in RunOver -> Settled(Row(q, "end"), "answer")
                           [] OTHER -> q)
  <2>1. PICK status \in RunOver \cup {"in_progress", "requires_action", "rejects"}, latency \in {0, 1} :
              LET p == [k EXCEPT !.clock = @ + PollInterval + latency, !.polls = @ + 1]
                  q == RowIf(Row(p, "poll"), status = "requires_action", "tool")
              IN  Set(c, CASE status = "rejects" -> Settled(p, "error")
                           [] status \in RunOver -> Settled(Row(q, "end"), "answer")
                           [] OTHER -> q)
    BY <1>4
  <2>2. PICK p : p = [k EXCEPT !.clock = @ + PollInterval + latency, !.polls = @ + 1]
    OBVIOUS
  <2>3. View(k, p) /\ p.phase = "poll"
    BY <1>1, <1>2, <2>2 DEF IsRun, ToolFields, View
  <2>4. PICK r : r = Row(p, "poll") /\ View(p, r) /\ SameEnd(p, r)
    BY <2>3, RowView DEF View
  <2>r. IsRun(r)
    BY <2>4 DEF View
  <2>5. PICK q : q = RowIf(r, status = "requires_action", "tool") /\ View(r, q) /\ SameEnd(r, q)
    BY <2>r, RowIfView
  <2>q. IsRun(q)
    BY <2>5 DEF View
  <2>6. PICK e : e = Row(q, "end") /\ View(q, e)
    BY <2>q, RowView
  <2>7. View(p, Settled(p, "error")) /\ Settled(p, "error").phase = "done"
    BY <2>3, SettledView DEF View
  <2>e. IsRun(e)
    BY <2>6 DEF View
  <2>8. View(e, Settled(e, "answer")) /\ Settled(e, "answer").phase = "done"
    BY <2>e, SettledView
  <2>9. PICK t : Set(c, t) /\ (t = Settled(p, "error") \/ t = Settled(e, "answer") \/ t = q)
    <3>1. PICK t : t = CASE status = "rejects" -> Settled(p, "error")
                         [] status \in RunOver -> Settled(e, "answer")
                         [] OTHER -> q
      OBVIOUS
    <3>2. Set(c, t)
      BY <2>1, <2>2, <2>4, <2>5, <2>6, <3>1
    <3>3. t = Settled(p, "error") \/ t = Settled(e, "answer") \/ t = q
      BY <3>1
    <3> QED BY <3>2, <3>3
  <2>10. ~t.governed /\ t.phase \in {"poll", "done"}
    BY <1>2, <2>3, <2>4, <2>5, <2>6, <2>7, <2>8, <2>9 DEF View, SameEnd
  <2> QED BY <2>9, <2>10, UngovernedOK, ReplaySets
<1> QED BY <1>1, <1>3, <1>4 DEF waitForCompletion

(* Nothing is read yet. *)
LEMMA NothingParts ==
    ASSUME NEW T
    PROVE  <<>> \in Seq(Chunks(T)) /\ \A t : Parts(<<>>, t) = <<>>
<1>1. PICK e : e = <<>>
  OBVIOUS
<1>2. e \in Seq(Chunks(T)) /\ Len(e) = 0
  BY <1>1
<1>3. ASSUME NEW t PROVE Parts(e, t) = <<>>
  <2>1. \A i \in 1 .. Len(e) : t \notin e[i].tools
    BY <1>2
  <2> QED BY <1>2, <2>1, PartsNone
<1> QED BY <1>1, <1>2, <1>3

(* Before the first chunk. *)
LEMMA GatheredStart ==
    ASSUME NEW j \in Jobs
    PROVE  Gathered(j, newStreamState, j.answer)
<1>1. PICK T : T = ToolsOf(j.answer) /\ ChunksOf(j) = Chunks(T)
  BY DEF ChunksOf
<1>2. PICK a \in Seq(Chunks(T)) : a = j.answer
  BY <1>1, AnswerType
<1>3. PICK st, e : st = newStreamState /\ e = <<>>
  OBVIOUS
<1>4. st.buf = e /\ st.tools = {} /\ st.fin = "none" /\ Len(e) = 0
  BY <1>3 DEF newStreamState
<1>5. st \in StreamState(j)
  BY <1>3, NewStreamState
<1>6. Granted(e, {}) /\ Reasoned(e) /\ Blockwise(e)
  BY <1>4 DEF Granted, Reasoned, Blockwise
<1>7. ASSUME NEW t PROVE Parts(a, t) = Parts(e, t) \o Parts(a, t)
  <2>1. PICK p \in Seq(ChunkTypes) : p = Parts(a, t)
    BY PartsType
  <2>2. Parts(e, t) = <<>>
    BY <1>3, NothingParts
  <2>3. <<>> \o p = p
    OBVIOUS
  <2> QED BY <2>1, <2>2, <2>3
<1>8. Follows(j, st, a, 0)
  <2>1. Len(a) \in Nat
    BY ChunksAt
  <2>2. \A i \in 1 .. Len(a) : 0 + i = i
    BY <2>1
  <2>3. Len(a) = 0 + Len(a)
    BY <2>1
  <2>4. \A i \in 1 .. 0 : FALSE
    OBVIOUS
  <2> QED BY <1>2, <1>4, <2>2, <2>3, <2>4 DEF Follows
<1>9. 0 \in Nat
  OBVIOUS
<1> QED BY <1>1, <1>2, <1>3, <1>4, <1>5, <1>6, <1>7, <1>8, <1>9 DEF Gathered

LEMMA SilentNothing ==
    ASSUME NEW j, NEW s, s = <<>>
    PROVE  s \in Seq(ChunksOf(j)) /\ Silent(s)
<1>1. s \in Seq(ChunksOf(j)) /\ Len(s) = 0
  OBVIOUS
<1> QED BY <1>1 DEF Silent

LEMMA ToldToolsOf ==
    ASSUME NEW C, NEW s \in Seq(C), Told(s), \E i \in DOMAIN s : s[i].fin = "tool"
    PROVE  ToolsOf(s) # {}
<1>1. DOMAIN s = 1 .. Len(s)
  BY ChunksAt
<1>2. PICK j \in DOMAIN s : s[j].tools # {}
  BY <1>1 DEF Told, HasPart
<1> QED BY <1>2 DEF ToolsOf

(* t is k after the complete answer msg was returned. *)
Returns(k, msg, t) ==
    /\ IsRun(t) /\ t.job = k.job /\ t.governed = k.governed
    /\ t.denied = k.denied /\ t.allowed = k.allowed
    /\ t.phase = "done" /\ t.result = "answer" /\ t.out = k.out \o msg

LEMMA ReturnedView ==
    ASSUME NEW k, IsRun(k), NEW msg
    PROVE  Returns(k, msg, Returned(k, msg))
<1>1. PICK d : d = Delivered(k, msg) /\ Given(k, msg, d)
  BY DeliveredView
<1>2. IsRun(d)
  BY <1>1 DEF Given
<1>3. PICK u : u = RowIf(d, k.job.wrap.ok, "end") /\ View(d, u)
  BY <1>2, RowIfView
<1>u. IsRun(u)
  BY <1>3 DEF View
<1>4. PICK t : t = Settled(u, "answer") /\ View(u, t) /\ t.phase = "done" /\ t.result = "answer"
  BY <1>u, SettledView
<1>5. Returned(k, msg) = t
  BY <1>1, <1>3, <1>4 DEF Returned
<1>6. Returns(k, msg, t)
  BY <1>1, <1>3, <1>4 DEF View, Given, Returns
<1> QED BY <1>5, <1>6

(* An answer that is rejected leaves its caller nothing. *)
LEMMA RejectedOK ==
    ASSUME NEW k, IsRun(k), NEW b, ReplayOK(b), b.governed = k.governed, k.job = b.job, k.out = <<>>, NEW t, t = Rejected(k)
    PROVE  ReplayOK(t)
<1>1. PICK u : u = RowIf(k, k.job.wrap.err, "error") /\ View(k, u)
  BY RowIfView
<1>2. t = Settled(u, "rejected")
  BY <1>1 DEF Rejected
<1>3. View(u, t) /\ t.phase = "done" /\ t.result = "rejected"
  BY <1>1, <1>2, SettledView DEF View
<1>4. t.job = b.job /\ t.governed = b.governed /\ t.out = <<>>
  BY <1>1, <1>3 DEF View
<1>5. SoundRun(t)
  BY <1>3, <1>4, NothingSound
<1> QED BY <1>3, <1>4, <1>5 DEF ReplayOK

(* An answer in which the patch reads no call is returned as it came.      *)
LEMMA PlainSound ==
    ASSUME NEW t, IsRun(t), t.job.prov \in Providers, ~t.job.stream, t.out = t.job.answer,
           IF t.job.prov = "openai" THEN extractOpenAIToolCalls(t.out) = {} ELSE ToolsOf(t.out) = {}
    PROVE  SoundRun(t)
<1>1. PICK j \in Jobs : j = t.job
  BY DEF IsRun
<1>2. PICK s \in Seq(ChunksOf(j)) : s = t.out /\ s = j.answer
  BY <1>1, AnswerType
<1>3. ASSUME NEW i \in DOMAIN s PROVE s[i].tools = {} \/ s[i].type = "custom"
  <2>1. CASE t.job.prov = "openai"
    BY <1>2, <2>1 DEF extractOpenAIToolCalls
  <2>2. CASE t.job.prov # "openai"
    BY <1>2, <2>2 DEF ToolsOf
  <2> QED BY <2>1, <2>2
<1>4. Told(s)
  BY <1>1, <1>2, AnswerReasoned, ReasonedIsTold DEF Providers
<1>5. (\E i \in DOMAIN s : s[i].fin = "tool") => ToolsOf(s) # {}
  BY <1>4, ToldToolsOf
<1> QED BY <1>1, <1>2, <1>3, <1>5 DEF SoundRun

(* A stream opens, a complete answer waits for its verdicts or is returned. *)
LEMMA ModelAnswersReplays ==
    ASSUME ToolsInv, ReplayInv, NEW c \in Calls, ModelAnswers(c)
    PROVE  ReplayInv'
<1>1. PICK k : k = call[c] /\ k.phase = "create"
  BY DEF ModelAnswers
<1>2. IsRun(k) /\ ReplayOK(k) /\ Unread(k) /\ (k.governed => k.job.prov \in Providers)
  BY <1>1, ReplayOf DEF ReplayOK
<1>j. PICK j \in Jobs : j = k.job
  BY <1>2 DEF IsRun
<1>3. PICK fine \in BOOLEAN :
         Set(c, CASE ~fine -> Rejected(k)
                  [] fine /\ k.job.stream /\ W(c).relay # "unknown" -> [k EXCEPT !.phase = "open"]
                  [] fine /\ ~k.job.stream /\ k.governed /\ Read(k) # {} -> [k EXCEPT !.phase = "verdicts"]
                  [] OTHER -> Returned(RowIf(k, k.governed /\ k.job.prov = "openai", "plaintext"), k.src))
  BY <1>1 DEF ModelAnswers
<1>4. PICK u : u = RowIf(k, k.governed /\ k.job.prov = "openai", "plaintext") /\ View(k, u)
  BY <1>2, RowIfView
<1>5. PICK t : t = CASE ~fine -> Rejected(k)
                  [] fine /\ k.job.stream /\ W(c).relay # "unknown" -> [k EXCEPT !.phase = "open"]
                  [] fine /\ ~k.job.stream /\ k.governed /\ Read(k) # {} -> [k EXCEPT !.phase = "verdicts"]
                  [] OTHER -> Returned(u, k.src)
  OBVIOUS
<1>6. Set(c, t)
  BY <1>3, <1>4, <1>5
<1>7. CASE ~fine
  <2>1. t = Rejected(k) /\ k.out = <<>>
    BY <1>2, <1>5, <1>7 DEF Unread
  <2>2. ReplayOK(t)
    BY <1>2, <2>1, RejectedOK
  <2> QED BY <1>6, <2>2, ReplaySets
<1>8. CASE fine /\ k.job.stream /\ W(c).relay # "unknown"
  <2>1. t = [k EXCEPT !.phase = "open"]
    BY <1>5, <1>8
  <2>2. View(k, t) /\ t.phase = "open" /\ t.result = k.result
    BY <1>2, <2>1, PhaseView
  <2>3. Unread(t) /\ t.job = j
    BY <1>2, <1>j, <2>2, UnreadView DEF View
  <2>4. Gathered(t.job, t.st, t.src)
    BY <2>3, GatheredStart DEF Unread
  <2>5. t.out \in Seq(ChunksOf(t.job)) /\ Silent(t.out) /\ t.queue \in Seq(ChunksOf(t.job)) /\ Silent(t.queue)
    BY <2>3, SilentNothing DEF Unread
  <2>6. Reading(t)
    BY <2>2, <2>3, <2>4, <2>5 DEF Reading, Unread
  <2>7. ReplayOK(t)
    BY <1>2, <1>8, <2>2, <2>6 DEF ReplayOK, View
  <2> QED BY <1>6, <2>7, ReplaySets
<1>9. CASE fine /\ ~k.job.stream /\ k.governed /\ Read(k) # {}
  <2>1. t = [k EXCEPT !.phase = "verdicts"]
    BY <1>5, <1>9
  <2>2. View(k, t) /\ t.phase = "verdicts" /\ t.result = k.result
    BY <1>2, <2>1, PhaseView
  <2>3. Unread(t)
    BY <1>2, <2>2, UnreadView
  <2>4. ReplayOK(t)
    BY <1>2, <1>9, <2>2, <2>3 DEF ReplayOK, View
  <2> QED BY <1>6, <2>4, ReplaySets
<1>10. CASE /\ fine /\ ~(k.job.stream /\ W(c).relay # "unknown")
            /\ ~(~k.job.stream /\ k.governed /\ Read(k) # {})
  <2>1. t = Returned(u, k.src)
    BY <1>5, <1>10
  <2>2. /\ IsRun(t) /\ t.job = k.job /\ t.governed = k.governed
        /\ t.denied = k.denied /\ t.allowed = k.allowed
        /\ t.phase = "done" /\ t.result = "answer" /\ t.out = k.out \o k.src
    <3>1. IsRun(u)
      BY <1>4 DEF View
    <3>2. PICK s : s = k.src
      OBVIOUS
    <3>3. Returns(u, s, t)
      BY <2>1, <3>1, <3>2, ReturnedView
    <3> QED BY <1>4, <3>2, <3>3 DEF View, Returns
  <2>3. t.governed => SoundRun(t)
    <3> SUFFICES ASSUME t.governed PROVE SoundRun(t)
      OBVIOUS
    <3>1. k.governed /\ j.prov \in Providers
      BY <1>2, <1>j, <2>2
    <3>2. j.wrap.relay # "unknown"
      BY <3>1, JobsAssumption DEF Providers
    <3>3. ~k.job.stream /\ Read(k) = {}
      BY <1>1, <1>10, <1>j, <3>1, <3>2 DEF W
    <3>4. t.out = j.answer /\ k.src = j.answer
      <4>1. PICK s \in Seq(ChunksOf(j)) : s = j.answer
        BY AnswerType
      <4>2. k.out = <<>> /\ k.src = s
        BY <1>2, <1>j, <4>1 DEF Unread
      <4>3. <<>> \o s = s
        OBVIOUS
      <4> QED BY <2>2, <4>1, <4>2, <4>3
    <3>5. IF t.job.prov = "openai" THEN extractOpenAIToolCalls(t.out) = {} ELSE ToolsOf(t.out) = {}
      BY <1>j, <2>2, <3>3, <3>4 DEF Read
    <3>6. t.job = j
      BY <1>j, <2>2
    <3> QED BY <1>j, <2>2, <3>1, <3>3, <3>4, <3>5, <3>6, PlainSound
  <2>4. ReplayOK(t)
    BY <1>2, <2>2, <2>3 DEF ReplayOK
  <2> QED BY <1>6, <2>4, ReplaySets
<1> QED BY <1>7, <1>8, <1>9, <1>10

(* What the caller has of a replay is sound before the rest comes.         *)
LEMMA PrefixSound ==
    ASSUME NEW C, NEW o \in Seq(C), NEW q \in Seq(C), NEW tools, Granted(o \o q, tools), Reasoned(o \o q)
    PROVE  Granted(o, tools) /\ Reasoned(o)
<1>1. PICK s : s = o \o q
  OBVIOUS
<1>2. Len(o) \in Nat /\ Len(s) \in Nat /\ Len(o) <= Len(s) /\ \A i \in 1 .. Len(o) : s[i] = o[i]
  BY <1>1
<1>3. \A i \in 1 .. Len(o) : i \in 1 .. Len(s) /\ o[i] = s[i] /\ \A m \in 1 .. i : m \in 1 .. Len(o) /\ o[m] = s[m]
  BY <1>2
<1>4. Granted(o, tools)
  BY <1>1, <1>3 DEF Granted
<1>5. Reasoned(o)
  <2> SUFFICES ASSUME NEW i \in 1 .. Len(o), o[i].fin = "tool" PROVE \E m \in 1 .. i : o[m].tools # {}
    BY DEF Reasoned
  <2>1. PICK m \in 1 .. i : s[m].tools # {}
    BY <1>1, <1>3 DEF Reasoned
  <2> QED BY <1>3, <2>1
<1> QED BY <1>4, <1>5

(* What a caller has of an answer without its denied calls is sound. *)
LEMMA StreamSound ==
    ASSUME NEW t, NEW C, NEW o \in Seq(C), o = t.out, NEW allowed, allowed = t.allowed,
           Granted(o, allowed), Reasoned(o),
           t.result \in {"stream", "answer"} =>
              \A u : u \notin t.denied \cup Late(t.job) => Parts(t.out, u) = Parts(t.job.answer, u)
    PROVE  SoundRun(t)
<1>1. DOMAIN o = 1 .. Len(o)
  BY ChunksAt
<1>2. \A i \in DOMAIN o : o[i].tools \subseteq allowed
  BY <1>1 DEF Granted
<1>3. Told(o)
  BY ReasonedIsTold
<1>4. (\E i \in DOMAIN o : o[i].fin = "tool") => ToolsOf(o) # {}
  BY <1>3, ToldToolsOf
<1> QED BY <1>2, <1>4 DEF SoundRun

LEMMA SilentSound ==
    ASSUME NEW C, NEW o \in Seq(C), Silent(o)
    PROVE  (\A tools : Granted(o, tools)) /\ Reasoned(o)
BY DEF Silent, Granted, Reasoned

(* What the caller has of a stream that is cut short is sound.             *)
LEMMA StoppedSound ==
    ASSUME NEW k, Reading(k) \/ Replaying(k), NEW t, View(k, t), t.result \notin {"stream", "answer"}
    PROVE  SoundRun(t)
<1>1. PICK j, o, q, a : j = k.job /\ o = k.out /\ q = k.queue /\ a = k.allowed
  OBVIOUS
<1>2. t.out = o /\ t.allowed = a
  BY <1>1 DEF View
<1>3. o \in Seq(ChunksOf(j)) /\ q \in Seq(ChunksOf(j))
  BY <1>1 DEF Reading, Replaying
<1>4. Granted(o, a) /\ Reasoned(o)
  <2>1. CASE Reading(k)
    <3>1. Silent(o)
      BY <1>1, <2>1 DEF Reading
    <3> QED BY <1>3, <3>1, SilentSound
  <2>2. CASE Replaying(k)
    <3>1. Granted(o \o q, a) /\ Reasoned(o \o q)
      BY <1>1, <2>2 DEF Replaying
    <3> QED BY <1>3, <3>1, PrefixSound
  <2> QED BY <2>1, <2>2
<1> QED BY <1>2, <1>3, <1>4, StreamSound

LEMMA returnReplays ==
    ASSUME ToolsInv, ReplayInv, NEW c \in Calls, return(c)
    PROVE  ReplayInv'
<1>1. PICK k : k = call[c] /\ k.phase = "open" /\ k.job.stream
  BY DEF return
<1>2. IsRun(k) /\ ReplayOK(k)
  BY <1>1, ReplayOf
<1>3. PICK u : u = IF W(c).relay = "readable" THEN k ELSE StreamDone(k)
  OBVIOUS
<1>4. View(k, u)
  BY <1>2, <1>3, StreamDoneView DEF View
<1>5. IsRun(u)
  BY <1>4 DEF View
<1>6. PICK t : t = Settled(u, "broken") /\ View(u, t) /\ t.phase = "done" /\ t.result = "broken"
  BY <1>5, SettledView
<1>7. Set(c, t)
  BY <1>1, <1>3, <1>6 DEF return
<1>8. View(k, t)
  BY <1>4, <1>6 DEF View
<1>9. k.governed => SoundRun(t)
  <2> SUFFICES ASSUME k.governed PROVE SoundRun(t)
    OBVIOUS
  <2>1. Reading(k) \/ Replaying(k)
    BY <1>1, <1>2 DEF ReplayOK
  <2> QED BY <1>6, <1>8, <2>1, StoppedSound
<1> QED BY <1>2, <1>6, <1>7, <1>8, <1>9, DoneSound, ReplaySets

LEMMA throwReplays ==
    ASSUME ToolsInv, ReplayInv, NEW c \in Calls, throw(c)
    PROVE  ReplayInv'
<1>1. PICK k : k = call[c] /\ k.phase = "open" /\ k.job.stream
  BY DEF throw
<1>2. IsRun(k) /\ ReplayOK(k)
  BY <1>1, ReplayOf
<1>3. PICK u : u = StreamThrows(k) /\ View(k, u)
  BY <1>2, StreamThrowsView
<1>5. IsRun(u)
  BY <1>3 DEF View
<1>6. PICK t : t = Settled(u, "error") /\ View(u, t) /\ t.phase = "done" /\ t.result = "error"
  BY <1>5, SettledView
<1>7. Set(c, t)
  BY <1>1, <1>3, <1>6 DEF throw
<1>8. View(k, t)
  BY <1>3, <1>6 DEF View
<1>9. k.governed => SoundRun(t)
  <2> SUFFICES ASSUME k.governed PROVE SoundRun(t)
    OBVIOUS
  <2>1. Reading(k) \/ Replaying(k)
    BY <1>1, <1>2 DEF ReplayOK
  <2> QED BY <1>6, <1>8, <2>1, StoppedSound
<1> QED BY <1>2, <1>6, <1>7, <1>8, <1>9, DoneSound, ReplaySets

LEMMA nextAfterEndReplays ==
    ASSUME ToolsInv, ReplayInv, NEW c \in Calls, nextAfterEnd(c)
    PROVE  ReplayInv'
<1>1. PICK k : k = call[c] /\ k.phase = "done"
  BY DEF nextAfterEnd
<1>2. IsRun(k) /\ ReplayOK(k)
  BY <1>1, ReplayOf
<1>3. PICK u : u = StreamDone(k) /\ View(k, u) /\ SameEnd(k, u)
  BY <1>2, StreamDoneView
<1>5. IsRun(u)
  BY <1>3 DEF View
<1>6. PICK t : t = [u EXCEPT !.phase = "over"]
  OBVIOUS
<1>v. View(u, t) /\ t.phase = "over" /\ t.result = u.result
  BY <1>5, <1>6, PhaseView
<1>7. Set(c, t)
  BY <1>1, <1>3, <1>6 DEF nextAfterEnd
<1>8. View(k, t) /\ t.result = k.result
  BY <1>3, <1>v DEF View, SameEnd
<1>9. k.governed => SoundRun(t)
  <2> SUFFICES ASSUME k.governed PROVE SoundRun(t)
    OBVIOUS
  <2>1. SoundRun(k)
    BY <1>1, <1>2 DEF ReplayOK
  <2> QED BY <1>8, <2>1 DEF SoundRun, View
<1> QED BY <1>2, <1>v, <1>7, <1>8, <1>9, DoneSound, ReplaySets

LEMMA StreamingOK ==
    ASSUME NEW t, ~t.governed, t.job.stream, t.phase \in {"open", "next", "verdicts", "done", "over"}
    PROVE  ReplayOK(t)
BY DEF ReplayOK

LEMMA ReadingOK ==
    ASSUME NEW t, t.job.stream, t.phase \in {"open", "next", "verdicts"}, t.job.prov \in Providers,
           Reading(t) \/ Replaying(t)
    PROVE  ReplayOK(t)
BY DEF ReplayOK

LEMMA SilentParts ==
    ASSUME NEW T, NEW s \in Seq(Chunks(T)), Silent(s), NEW t
    PROVE  Parts(s, t) = <<>>
BY PartsNone DEF Silent

LEMMA SilentThen ==
    ASSUME NEW T, NEW s \in Seq(Chunks(T)), Silent(s), NEW b \in Seq(Chunks(T)), NEW t
    PROVE  Parts(s \o b, t) = Parts(b, t)
<1>1. Parts(s \o b, t) = Parts(s, t) \o Parts(b, t)
  BY PartsConcat
<1>2. Parts(s, t) = <<>>
  BY SilentParts
<1>3. PICK p \in Seq(ChunkTypes) : p = Parts(b, t)
  BY PartsType
<1>4. <<>> \o p = p
  OBVIOUS
<1> QED BY <1>1, <1>2, <1>3, <1>4

(* All of a stream that was read is in the buffer. *)
LEMMA AllHeld ==
    ASSUME NEW j, NEW st, Gathered(j, st, <<>>)
    PROVE  /\ st.buf \in Seq(ChunksOf(j)) /\ Granted(st.buf, st.tools) /\ Reasoned(st.buf)
           /\ \A t : t \notin Late(j) => Parts(j.answer, t) = Parts(st.buf, t)
<1>1. PICK T : T = ToolsOf(j.answer) /\ ChunksOf(j) = Chunks(T)
  BY DEF ChunksOf
<1>2. PICK b \in Seq(Chunks(T)) : b = st.buf
  BY <1>1 DEF Gathered, StreamState
<1>3. ASSUME NEW t, t \notin Late(j) PROVE Parts(j.answer, t) = Parts(b, t)
  <2>1. Parts(j.answer, t) = Parts(b, t) \o Parts(<<>>, t)
    BY <1>2, <1>3 DEF Gathered
  <2>2. Parts(<<>>, t) = <<>>
    BY NothingParts
  <2>3. PICK p \in Seq(ChunkTypes) : p = Parts(b, t)
    BY PartsType
  <2>4. p \o <<>> = p
    OBVIOUS
  <2> QED BY <2>1, <2>2, <2>3, <2>4
<1>4. Granted(st.buf, st.tools) /\ Reasoned(st.buf)
  BY DEF Gathered
<1> QED BY <1>1, <1>2, <1>3, <1>4

(* The first chunk that waits is given. *)
LEMMA HeadMoves ==
    ASSUME NEW C, NEW o \in Seq(C), NEW q \in Seq(C), q # <<>>, NEW p, p = o \o <<Head(q)>>, NEW r, r = Tail(q)
    PROVE  /\ p \in Seq(C) /\ r \in Seq(C) /\ p \o r = o \o q
           /\ Silent(o) /\ Silent(q) => Silent(p) /\ Silent(r)
<1>1. Head(q) \in C /\ Len(q) \in Nat /\ Len(o) \in Nat /\ Len(q) > 0
  OBVIOUS
<1>2. p \in Seq(C) /\ r \in Seq(C)
  BY <1>1
<1>3. Len(p) = Len(o) + 1 /\ Len(r) = Len(q) - 1
  BY <1>1
<1>4. \A i \in 1 .. Len(p) : p[i] = IF i <= Len(o) THEN o[i] ELSE q[1]
  BY <1>1
<1>5. \A i \in 1 .. Len(r) : r[i] = q[i + 1] /\ i + 1 \in 1 .. Len(q)
  BY <1>1, <1>3
<1>6. p \o r = o \o q
  <2>1. PICK x, y : x = p \o r /\ y = o \o q
    OBVIOUS
  <2>2. x \in Seq(C) /\ y \in Seq(C) /\ Len(x) = Len(o) + Len(q) /\ Len(y) = Len(o) + Len(q)
    BY <1>1, <1>2, <1>3, <2>1
  <2>3. \A i \in 1 .. Len(o) : x[i] = y[i]
    BY <1>1, <1>2, <1>3, <1>4, <2>1
  <2>4. x[Len(o) + 1] = y[Len(o) + 1]
    BY <1>1, <1>2, <1>3, <1>4, <2>1
  <2>5. ASSUME NEW i \in Len(o) + 2 .. Len(o) + Len(q) PROVE x[i] = y[i]
    <3>1. PICK n : n = i - Len(p)
      OBVIOUS
    <3>2. n \in 1 .. Len(r) /\ i = Len(p) + n /\ i = Len(o) + (n + 1)
      BY <1>1, <1>3, <2>5, <3>1
    <3>3. x[i] = r[n]
      BY <1>2, <2>1, <3>2
    <3>4. y[i] = q[n + 1]
      BY <1>1, <1>5, <2>1, <3>2
    <3> QED BY <1>5, <3>2, <3>3, <3>4
  <2>6. \A i \in 1 .. Len(o) + Len(q) : x[i] = y[i]
    BY <1>1, <2>3, <2>4, <2>5
  <2> QED BY <2>1, <2>2, <2>6
<1>7. ASSUME Silent(o), Silent(q) PROVE Silent(p) /\ Silent(r)
  <2>1. \A i \in 1 .. Len(o) : o[i].tools = {} /\ o[i].fin # "tool"
    BY <1>7 DEF Silent
  <2>2. \A i \in 1 .. Len(q) : q[i].tools = {} /\ q[i].fin # "tool"
    BY <1>7 DEF Silent
  <2>3. 1 \in 1 .. Len(q)
    BY <1>1
  <2>4. \A i \in 1 .. Len(p) : p[i].tools = {} /\ p[i].fin # "tool"
    BY <1>1, <1>3, <1>4, <2>1, <2>2, <2>3
  <2>5. \A i \in 1 .. Len(r) : r[i].tools = {} /\ r[i].fin # "tool"
    BY <1>5, <2>2
  <2> QED BY <2>4, <2>5 DEF Silent
<1> QED BY <1>2, <1>6, <1>7

(* What a step of a stream leaves of its call. *)
Keeps(k, t) ==
    /\ t.job = k.job /\ t.governed = k.governed /\ t.denied = k.denied /\ t.allowed = k.allowed

(* The two steps of a stream: a chunk that waits is given, or one is read. *)
Gives(k, t) ==
    t = [Delivered(k, <<Head(k.queue)>>) EXCEPT !.queue = Tail(k.queue), !.phase = "open"]
Reads(k, in, t) ==
    t = [k EXCEPT !.st = in.st, !.queue = in.out, !.phase = "next",
                  !.src = IF in.last THEN <<>> ELSE Tail(k.src)]

LEMMA PullGives ==
    ASSUME NEW k, IsRun(k), NEW t, Gives(k, t)
    PROVE  /\ Keeps(k, t) /\ t.phase = "open" /\ t.result = k.result /\ t.src = k.src /\ t.st = k.st
           /\ t.queue = Tail(k.queue) /\ t.out = k.out \o <<Head(k.queue)>>
<1>r. PICK r : r = Tail(k.queue)
  OBVIOUS
<1>1. PICK s : s = <<Head(k.queue)>>
  OBVIOUS
<1>2. PICK d : d = Delivered(k, s) /\ Given(k, s, d)
  BY <1>1, DeliveredView
<1>3. IsRun(d)
  BY <1>2 DEF Given
<1>4. t = [d EXCEPT !.queue = r, !.phase = "open"]
  BY <1>r, <1>1, <1>2 DEF Gives
<1>5. /\ t.job = d.job /\ t.governed = d.governed /\ t.denied = d.denied /\ t.allowed = d.allowed
      /\ t.phase = "open" /\ t.result = d.result /\ t.src = d.src /\ t.st = d.st
      /\ t.queue = r /\ t.out = d.out
  BY <1>3, <1>4 DEF IsRun, ToolFields
<1> QED BY <1>r, <1>1, <1>2, <1>5 DEF Given, Keeps

(* A chunk that waits is given: a stream goes on reading, or replaying.    *)
LEMMA GivesReads ==
    ASSUME NEW k, Reading(k), k.queue # <<>>, k.phase # "verdicts", NEW t, Keeps(k, t), t.phase = "open",
           t.result = k.result, t.src = k.src, t.st = k.st,
           t.queue = Tail(k.queue), t.out = k.out \o <<Head(k.queue)>>
    PROVE  Reading(t)
<1>1. PICK j, o, q : j = k.job /\ o = k.out /\ q = k.queue
  OBVIOUS
<1>2. o \in Seq(ChunksOf(j)) /\ Silent(o) /\ q \in Seq(ChunksOf(j)) /\ Silent(q) /\ q # <<>>
  BY <1>1 DEF Reading
<1>3. PICK p, r : p = o \o <<Head(q)>> /\ r = Tail(q)
  OBVIOUS
<1>4. p \in Seq(ChunksOf(j)) /\ r \in Seq(ChunksOf(j)) /\ Silent(p) /\ Silent(r)
  BY <1>2, <1>3, HeadMoves
<1>5. t.out = p /\ t.queue = r
  BY <1>1, <1>3
<1>6. t.denied = {} /\ t.allowed = {} /\ t.result = "none" /\ Gathered(t.job, t.st, t.src) /\ t.job = j
  BY <1>1 DEF Reading, Keeps
<1> QED BY <1>4, <1>5, <1>6 DEF Reading

LEMMA GivesReplays ==
    ASSUME NEW k, Replaying(k), k.queue # <<>>, NEW t, Keeps(k, t), t.phase = "open",
           t.result = k.result, t.src = k.src, t.st = k.st,
           t.queue = Tail(k.queue), t.out = k.out \o <<Head(k.queue)>>
    PROVE  Replaying(t)
<1>1. PICK j, o, q : j = k.job /\ o = k.out /\ q = k.queue
  OBVIOUS
<1>2. o \in Seq(ChunksOf(j)) /\ q \in Seq(ChunksOf(j)) /\ q # <<>>
  BY <1>1 DEF Replaying
<1>3. PICK p, r : p = o \o <<Head(q)>> /\ r = Tail(q)
  OBVIOUS
<1>4. p \in Seq(ChunksOf(j)) /\ r \in Seq(ChunksOf(j)) /\ p \o r = o \o q
  BY <1>2, <1>3, HeadMoves, SMTT(60)
<1>5. t.out = p /\ t.queue = r
  BY <1>1, <1>3
<1>6. t.out \o t.queue = k.out \o k.queue
  BY <1>1, <1>4, <1>5
<1>7. /\ Granted(k.out \o k.queue, k.allowed) /\ Reasoned(k.out \o k.queue)
      /\ \A u : u \notin k.denied \cup Late(k.job) => Parts(k.out \o k.queue, u) = Parts(k.job.answer, u)
      /\ k.src = <<>> /\ k.st = newStreamState /\ k.result = "none"
  BY DEF Replaying
<1>8. t.job = j /\ t.job = k.job /\ t.denied = k.denied /\ t.allowed = k.allowed
  BY <1>1 DEF Keeps
<1>9. Granted(t.out \o t.queue, t.allowed) /\ Reasoned(t.out \o t.queue)
  BY <1>6, <1>7, <1>8
<1>10. \A u : u \notin t.denied \cup Late(t.job) => Parts(t.out \o t.queue, u) = Parts(t.job.answer, u)
  BY <1>6, <1>7, <1>8
<1>11. t.src = <<>> /\ t.st = newStreamState /\ t.phase # "verdicts" /\ t.result = "none"
  BY <1>7
<1>12. t.out \in Seq(ChunksOf(t.job)) /\ t.queue \in Seq(ChunksOf(t.job))
  BY <1>4, <1>5, <1>8
<1> QED BY <1>9, <1>10, <1>11, <1>12 DEF Replaying

(* The patch reads a chunk. *)
LEMMA IngestGathers ==
    ASSUME NEW k, IsRun(k), k.job.stream, k.job.prov \in Providers, k.src # <<>>, Gathered(k.job, k.st, k.src)
    PROVE  Gathers(k.job, Ingest(k), k.src)
<1>1. PICK j \in Jobs : j = k.job
  BY DEF IsRun
<1>2. PICK st, src : st = k.st /\ src = k.src
  OBVIOUS
<1>3. j.stream /\ src # <<>> /\ Gathered(j, st, src) /\ (j.prov = "openai" \/ j.prov = "anthropic")
  BY <1>1, <1>2 DEF Providers
<1>4. CASE j.prov = "openai"
  <2>1. Ingest(k) = wrapOpenAIStream(st, Head(src))
    BY <1>1, <1>2, <1>4 DEF Ingest
  <2>2. Gathers(j, wrapOpenAIStream(st, Head(src)), src)
    BY <1>3, <1>4, OpenAIGathers
  <2> QED BY <1>1, <1>2, <2>1, <2>2
<1>5. CASE j.prov = "anthropic"
  <2>1. Ingest(k) = wrapAnthropicStream(st, Head(src))
    BY <1>1, <1>2, <1>5 DEF Ingest
  <2>2. Gathers(j, wrapAnthropicStream(st, Head(src)), src)
    BY <1>3, <1>5, AnthropicGathers
  <2> QED BY <1>1, <1>2, <2>1, <2>2
<1> QED BY <1>3, <1>4, <1>5

LEMMA PullReads ==
    ASSUME NEW k, IsRun(k), k.job.stream, k.job.prov \in Providers, k.src # <<>>, Reading(k),
           NEW t, Reads(k, Ingest(k), t)
    PROVE  Keeps(k, t) /\ t.phase = "next" /\ Reading(t)
<1>a. PICK in : in = Ingest(k) /\ Reads(k, in, t)
  OBVIOUS
<1>b. PICK rest : rest = IF in.last THEN <<>> ELSE Tail(k.src)
  OBVIOUS
<1>1. Gathered(k.job, k.st, k.src)
  BY DEF Reading
<1>2. Gathers(k.job, in, k.src)
  BY <1>a, <1>1, IngestGathers
<1>3. PICK s, q : s = in.st /\ q = in.out
  OBVIOUS
<1>4. Gathered(k.job, s, rest) /\ q \in Seq(ChunksOf(k.job)) /\ Silent(q)
  BY <1>b, <1>2, <1>3 DEF Gathers
<1>5. t = [k EXCEPT !.st = s, !.queue = q, !.phase = "next", !.src = rest]
  BY <1>a, <1>b, <1>3 DEF Reads
<1>6. /\ Keeps(k, t) /\ t.phase = "next" /\ t.result = k.result /\ t.out = k.out
      /\ t.st = s /\ t.queue = q /\ t.src = rest /\ t.job = k.job
  BY <1>5 DEF IsRun, ToolFields, Keeps
<1>7. t.denied = {} /\ t.allowed = {} /\ t.result = "none" /\ t.out \in Seq(ChunksOf(t.job)) /\ Silent(t.out)
  BY <1>6 DEF Reading, Keeps
<1>8. Gathered(t.job, t.st, t.src) /\ t.queue \in Seq(ChunksOf(t.job)) /\ Silent(t.queue)
  BY <1>4, <1>6
<1> QED BY <1>6, <1>7, <1>8 DEF Reading

(* The stream ended without a tool call: what was held is given. *)
LEMMA PullFlushes ==
    ASSUME NEW k, IsRun(k), Reading(k), k.src = <<>>, k.queue = <<>>, k.st.tools = {}, NEW t,
           t = [k EXCEPT !.queue = k.st.buf, !.st = newStreamState, !.phase = "next"]
    PROVE  Keeps(k, t) /\ t.phase = "next" /\ Replaying(t)
<1>1. PICK j, b, o : j = k.job /\ b = k.st.buf /\ o = k.out
  OBVIOUS
<1>2. PICK T : T = ToolsOf(j.answer) /\ ChunksOf(j) = Chunks(T)
  BY DEF ChunksOf
<1>3. Gathered(j, k.st, <<>>) /\ o \in Seq(Chunks(T)) /\ Silent(o) /\ k.allowed = {} /\ k.denied = {} /\ k.result = "none"
  BY <1>1, <1>2 DEF Reading
<1>4. b \in Seq(Chunks(T)) /\ Granted(b, {}) /\ Reasoned(b) /\ \A u : u \notin Late(j) => Parts(j.answer, u) = Parts(b, u)
  BY <1>1, <1>2, <1>3, AllHeld, ZenonT(60)
<1>5. Granted(o \o b, {}) /\ Reasoned(o \o b)
  BY <1>3, <1>4, SilentConcat
<1>6. \A u : Parts(o \o b, u) = Parts(b, u)
  BY <1>3, <1>4, SilentThen
<1>7. PICK s : s = newStreamState
  OBVIOUS
<1>8. t = [k EXCEPT !.queue = b, !.st = s, !.phase = "next"]
  BY <1>1, <1>7
<1>9. /\ Keeps(k, t) /\ t.phase = "next" /\ t.result = k.result /\ t.out = o
      /\ t.st = s /\ t.queue = b /\ t.src = k.src /\ t.job = j /\ t.allowed = k.allowed
  BY <1>1, <1>8 DEF IsRun, ToolFields, Keeps
<1>10. t.out \in Seq(ChunksOf(t.job)) /\ t.queue \in Seq(ChunksOf(t.job))
  BY <1>2, <1>3, <1>4, <1>9
<1>11. Granted(t.out \o t.queue, t.allowed) /\ Reasoned(t.out \o t.queue)
  BY <1>3, <1>5, <1>9
<1>12. \A u : u \notin t.denied \cup Late(t.job) => Parts(t.out \o t.queue, u) = Parts(t.job.answer, u)
  BY <1>4, <1>6, <1>9
<1>13. t.src = <<>> /\ t.st = newStreamState /\ t.phase # "verdicts" /\ t.result = "none"
  BY <1>3, <1>7, <1>9
<1> QED BY <1>9, <1>10, <1>11, <1>12, <1>13 DEF Replaying

(* The stream ended, and nothing waits: the caller has all it is due. *)
LEMMA PullEnds ==
    ASSUME NEW k, IsRun(k), Reading(k) \/ Replaying(k), k.src = <<>>, k.queue = <<>>, k.st.tools = {}, k.st.buf = <<>>,
           NEW t, View(k, t)
    PROVE  SoundRun(t)
<1>1. PICK j, o, a : j = k.job /\ o = k.out /\ a = k.allowed
  OBVIOUS
<1>2. PICK T : T = ToolsOf(j.answer) /\ ChunksOf(j) = Chunks(T)
  BY DEF ChunksOf
<1>3. o \in Seq(Chunks(T))
  BY <1>1, <1>2 DEF Reading, Replaying
<1>4. Granted(o, a) /\ Reasoned(o) /\ \A u : u \notin k.denied \cup Late(j) => Parts(o, u) = Parts(j.answer, u)
  <2>1. CASE Reading(k)
    <3>1. Silent(o) /\ Gathered(j, k.st, <<>>)
      BY <1>1, <2>1 DEF Reading
    <3>2. ASSUME NEW u, u \notin Late(j) PROVE Parts(o, u) = Parts(j.answer, u)
      <4>1. Parts(j.answer, u) = Parts(<<>>, u)
        BY <3>1, <3>2, AllHeld
      <4>2. Parts(<<>>, u) = <<>>
        BY NothingParts
      <4>3. Parts(o, u) = <<>>
        BY <1>3, <3>1, SilentParts
      <4> QED BY <4>1, <4>2, <4>3
    <3>3. Granted(o, a) /\ Reasoned(o)
      BY <1>3, <3>1, SilentSound
    <3> QED BY <3>2, <3>3
  <2>2. CASE Replaying(k)
    <3>1. o \o <<>> = o
      BY <1>3
    <3>2. /\ Granted(o \o <<>>, a) /\ Reasoned(o \o <<>>)
          /\ \A u : u \notin k.denied \cup Late(j) => Parts(o \o <<>>, u) = Parts(j.answer, u)
      BY <1>1, <2>2 DEF Replaying
    <3> QED BY <3>1, <3>2
  <2> QED BY <2>1, <2>2
<1>5. t.out = o /\ t.allowed = a /\ t.job = j /\ t.denied = k.denied
  BY <1>1 DEF View
<1>6. \A u : u \notin t.denied \cup Late(t.job) => Parts(t.out, u) = Parts(t.job.answer, u)
  BY <1>4, <1>5
<1> QED BY <1>3, <1>4, <1>5, <1>6, StreamSound

(* One step of a stream, of the call k. *)
Pulls(k, t) ==
    t = CASE k.queue # <<>> ->
               [Delivered(k, <<Head(k.queue)>>) EXCEPT !.queue = Tail(@), !.phase = "open"]
          [] k.queue = <<>> /\ k.src # <<>> /\ Head(k.src).type = "cut" -> Settled(StreamThrows(k), "error")
          [] k.queue = <<>> /\ k.src # <<>> /\ Head(k.src).type # "cut" ->
               LET in == IF k.governed THEN Ingest(k) ELSE Ingested(k.st, <<Head(k.src)>>, FALSE)
               IN  [k EXCEPT !.st = in.st, !.queue = in.out, !.phase = "next",
                             !.src = IF in.last THEN <<>> ELSE Tail(@)]
          [] k.queue = <<>> /\ k.src = <<>> /\ k.st.tools # {} -> [k EXCEPT !.phase = "verdicts"]
          [] k.queue = <<>> /\ k.src = <<>> /\ k.st.tools = {} /\ k.st.buf # <<>> ->
               [k EXCEPT !.queue = k.st.buf, !.st = newStreamState, !.phase = "next"]
          [] OTHER -> Settled(StreamDone(k), "stream")

LEMMA DeliveredQueue ==
    ASSUME NEW k, IsRun(k), NEW s
    PROVE  Delivered(k, s).queue = k.queue
BY DEF IsRun, ToolFields, Delivered

(* A step of a stream keeps what its caller is owed. *)
LEMMA PullsOK ==
    ASSUME NEW k, IsRun(k), ReplayOK(k), k.phase \in {"open", "next"}, NEW t, Pulls(k, t)
    PROVE  ReplayOK(t)
<1>1. k.job.stream /\ (k.governed => k.job.prov \in Providers /\ (Reading(k) \/ Replaying(k)))
  BY DEF ReplayOK
<1>2. CASE k.queue # <<>>
  <2>2. Gives(k, t)
    <3>1. PICK d : d = Delivered(k, <<Head(k.queue)>>) /\ d.queue = k.queue
      BY DeliveredQueue
    <3>2. t = [d EXCEPT !.queue = Tail(@), !.phase = "open"]
      BY <1>2, <3>1 DEF Pulls
    <3> QED BY <3>1, <3>2 DEF Gives
  <2>3. /\ Keeps(k, t) /\ t.phase = "open" /\ t.result = k.result /\ t.src = k.src /\ t.st = k.st
        /\ t.queue = Tail(k.queue) /\ t.out = k.out \o <<Head(k.queue)>>
    BY <2>2, PullGives
  <2>4. CASE k.governed
    <3>1. Reading(t) \/ Replaying(t)
      BY <1>1, <1>2, <2>3, <2>4, GivesReads, GivesReplays
    <3>2. t.job.stream /\ t.job.prov \in Providers
      BY <1>1, <2>3, <2>4 DEF Keeps
    <3> QED BY <2>3, <3>1, <3>2, ReadingOK
  <2>5. CASE ~k.governed
    BY <1>1, <2>3, <2>5, StreamingOK DEF Keeps
  <2> QED BY <2>4, <2>5
<1>3. CASE k.queue = <<>> /\ k.src # <<>> /\ Head(k.src).type = "cut"
  <2>1. PICK u : u = StreamThrows(k) /\ View(k, u)
    BY StreamThrowsView
  <2>2. IsRun(u)
    BY <2>1 DEF View
  <2>3. t = Settled(u, "error")
    BY <1>3, <2>1 DEF Pulls
  <2>4. View(u, t) /\ t.phase = "done" /\ t.result = "error"
    BY <2>2, <2>3, SettledView
  <2>5. View(k, t)
    BY <2>1, <2>4 DEF View
  <2>6. k.governed => SoundRun(t)
    BY <1>1, <2>4, <2>5, StoppedSound
  <2> QED BY <2>4, <2>5, <2>6, DoneSound
<1>4. CASE k.queue = <<>> /\ k.src # <<>> /\ Head(k.src).type # "cut"
  <2>1. PICK in : in = IF k.governed THEN Ingest(k) ELSE Ingested(k.st, <<Head(k.src)>>, FALSE)
    OBVIOUS
  <2>3. Reads(k, in, t)
    BY <1>4, <2>1 DEF Pulls, Reads
  <2>4. CASE k.governed
    <3>1. Reading(k) /\ in = Ingest(k)
      BY <1>1, <1>4, <2>1, <2>4 DEF Replaying
    <3>2. Keeps(k, t) /\ t.phase = "next" /\ Reading(t)
      BY <1>1, <1>4, <2>3, <2>4, <3>1, PullReads
    <3>3. t.job.stream /\ t.job.prov \in Providers
      BY <1>1, <2>4, <3>2 DEF Keeps
    <3> QED BY <3>2, <3>3, ReadingOK
  <2>5. CASE ~k.governed
    <3>1. PICK s, q, rest : s = in.st /\ q = in.out /\ rest = IF in.last THEN <<>> ELSE Tail(k.src)
      OBVIOUS
    <3>2. t = [k EXCEPT !.st = s, !.queue = q, !.phase = "next", !.src = rest]
      BY <2>3, <3>1 DEF Reads
    <3>3. t.job = k.job /\ t.governed = k.governed /\ t.phase = "next"
      BY <3>2 DEF IsRun, ToolFields
    <3> QED BY <1>1, <2>5, <3>3, StreamingOK
  <2> QED BY <2>4, <2>5
<1>5. CASE k.queue = <<>> /\ k.src = <<>> /\ k.st.tools # {}
  <2>1. t = [k EXCEPT !.phase = "verdicts"]
    BY <1>5 DEF Pulls
  <2>2. View(k, t) /\ t.phase = "verdicts" /\ t.result = k.result
    BY <2>1, PhaseView
  <2>3. t.job = k.job /\ t.governed = k.governed
    BY <2>2 DEF View
  <2>4. CASE k.governed
    <3>1. Reading(k)
      BY <1>1, <1>5, <2>4 DEF Replaying, newStreamState
    <3>2. Reading(t)
      BY <1>5, <2>2, <3>1 DEF Reading, View
    <3> QED BY <1>1, <2>2, <2>3, <2>4, <3>2, ReadingOK
  <2>5. CASE ~k.governed
    BY <1>1, <2>2, <2>3, <2>5, StreamingOK
  <2> QED BY <2>4, <2>5
<1>6. CASE k.queue = <<>> /\ k.src = <<>> /\ k.st.tools = {} /\ k.st.buf # <<>>
  <2>1. t = [k EXCEPT !.queue = k.st.buf, !.st = newStreamState, !.phase = "next"]
    BY <1>6 DEF Pulls
  <2>4. CASE k.governed
    <3>1. Reading(k)
      BY <1>1, <1>6, <2>4 DEF Replaying, newStreamState
    <3>2. Keeps(k, t) /\ t.phase = "next" /\ Replaying(t)
      BY <1>6, <2>1, <3>1, PullFlushes
    <3>3. t.job.stream /\ t.job.prov \in Providers
      BY <1>1, <2>4, <3>2 DEF Keeps
    <3> QED BY <3>2, <3>3, ReadingOK
  <2>5. CASE ~k.governed
    <3>1. PICK s, q : s = newStreamState /\ q = k.st.buf
      OBVIOUS
    <3>2. t = [k EXCEPT !.queue = q, !.st = s, !.phase = "next"]
      BY <2>1, <3>1
    <3>3. t.job = k.job /\ t.governed = k.governed /\ t.phase = "next"
      BY <3>2 DEF IsRun, ToolFields
    <3> QED BY <1>1, <2>5, <3>3, StreamingOK
  <2> QED BY <2>4, <2>5
<1>7. CASE k.queue = <<>> /\ k.src = <<>> /\ k.st.tools = {} /\ k.st.buf = <<>>
  <2>1. PICK u : u = StreamDone(k) /\ View(k, u)
    BY StreamDoneView
  <2>2. IsRun(u)
    BY <2>1 DEF View
  <2>3. t = Settled(u, "stream")
    BY <1>7, <2>1 DEF Pulls
  <2>4. View(u, t) /\ t.phase = "done"
    BY <2>2, <2>3, SettledView
  <2>5. View(k, t)
    BY <2>1, <2>4 DEF View
  <2>6. k.governed => SoundRun(t)
    BY <1>1, <1>7, <2>5, PullEnds
  <2> QED BY <2>4, <2>5, <2>6, DoneSound
<1> QED BY <1>2, <1>3, <1>4, <1>5, <1>6, <1>7

LEMMA pullReplays ==
    ASSUME ToolsInv, ReplayInv, NEW c \in Calls, pull(c)
    PROVE  ReplayInv'
<1>1. PICK k : k = call[c] /\ k.phase \in {"open", "next"}
  BY DEF pull
<1>2. IsRun(k) /\ ReplayOK(k)
  BY <1>1, ReplayOf
<1>3. PICK t : Pulls(k, t)
  BY DEF Pulls
<1>4. Set(c, t)
  BY <1>1, <1>3 DEF pull, Pulls
<1>5. ReplayOK(t)
  BY <1>1, <1>2, <1>3, PullsOK
<1> QED BY <1>4, <1>5, ReplaySets

-----------------------------------------------------------------------------
(* The verdicts on the calls of an answer. *)

(* k with its calls decided. *)
Decides(k, denied, allowed, d) ==
    /\ IsRun(d) /\ d.job = k.job /\ d.governed = k.governed
    /\ d.src = k.src /\ d.st = k.st /\ d.queue = k.queue /\ d.out = k.out
    /\ d.phase = k.phase /\ d.result = k.result
    /\ d.denied = denied /\ d.allowed = allowed

LEMMA DecidesRun ==
    ASSUME NEW k, IsRun(k), NEW denied, NEW allowed, NEW d, d = [k EXCEPT !.denied = denied, !.allowed = allowed]
    PROVE  Decides(k, denied, allowed, d)
BY DEF IsRun, ToolFields, Decides

LEMMA RejectedView ==
    ASSUME NEW k, IsRun(k)
    PROVE  View(k, Rejected(k)) /\ Rejected(k).phase = "done" /\ Rejected(k).result = "rejected"
<1>1. PICK u : u = RowIf(k, k.job.wrap.err, "error") /\ View(k, u)
  BY RowIfView
<1>2. IsRun(u)
  BY <1>1 DEF View
<1>3. PICK t : t = Settled(u, "rejected") /\ View(u, t) /\ t.phase = "done" /\ t.result = "rejected"
  BY <1>2, SettledView
<1>4. Rejected(k) = t
  BY <1>1, <1>3 DEF Rejected
<1> QED BY <1>1, <1>3, <1>4 DEF View

(* t is k with the replay q before it. *)
Resumes(k, denied, allowed, q, t) ==
    /\ t.job = k.job /\ t.governed = k.governed /\ t.src = k.src /\ t.st = newStreamState
    /\ t.queue = q /\ t.out = k.out /\ t.denied = denied /\ t.allowed = allowed
    /\ t.phase = "next" /\ t.result = k.result

LEMMA Resuming ==
    ASSUME NEW k, IsRun(k), NEW denied, NEW allowed, NEW q, NEW d, d = [k EXCEPT !.denied = denied, !.allowed = allowed],
           NEW t, t = [d EXCEPT !.phase = "next", !.queue = q, !.st = newStreamState]
    PROVE  Resumes(k, denied, allowed, q, t)
<1>1. Decides(k, denied, allowed, d)
  BY DecidesRun
<1>2. PICK s : s = newStreamState
  OBVIOUS
<1>3. IsRun(d)
  BY <1>1 DEF Decides
<1>4. t = [d EXCEPT !.phase = "next", !.queue = q, !.st = s]
  BY <1>2
<1>5. /\ t.job = d.job /\ t.governed = d.governed /\ t.src = d.src /\ t.st = s
      /\ t.queue = q /\ t.out = d.out /\ t.denied = d.denied /\ t.allowed = d.allowed
      /\ t.phase = "next" /\ t.result = d.result
  BY <1>3, <1>4 DEF IsRun, ToolFields
<1> QED BY <1>1, <1>2, <1>5 DEF Decides, Resumes

(* What the replay of a buffer that holds the whole answer gives. *)
Replays(k, denied) ==
    /\ Replayed(k, denied) \in Seq(ChunksOf(k.job)) /\ Granted(Replayed(k, denied), k.st.tools \ denied)
    /\ Reasoned(Replayed(k, denied))
    /\ \A t : t \notin denied \cup Late(k.job) => Parts(Replayed(k, denied), t) = Parts(k.job.answer, t)

HoldsAll(k) ==
    IsRun(k) /\ k.job.prov \in Providers /\ Gathered(k.job, k.st, <<>>)

LEMMA ReplaysAll ==
    ASSUME NEW k, HoldsAll(k), NEW denied \in SUBSET k.st.tools
    PROVE  Replays(k, denied)
<1>0. IsRun(k) /\ k.job.prov \in Providers /\ Gathered(k.job, k.st, <<>>)
  BY DEF HoldsAll
<1>q. PICK q : q = Replayed(k, denied)
  OBVIOUS
<1>1. PICK j \in Jobs : j = k.job
  BY <1>0 DEF IsRun
<1>2. PICK T : T = ToolsOf(j.answer) /\ ChunksOf(j) = Chunks(T)
  BY DEF ChunksOf
<1>3. PICK b, tools : b = k.st.buf /\ tools = k.st.tools
  OBVIOUS
<1>4. /\ b \in Seq(Chunks(T)) /\ Granted(b, tools) /\ Reasoned(b)
      /\ \A t : t \notin Late(j) => Parts(j.answer, t) = Parts(b, t)
  BY <1>0, <1>1, <1>2, <1>3, AllHeld
<1>5. tools \subseteq T
  BY <1>0, <1>1, <1>2, <1>3 DEF Gathered, StreamState
<1>6. IsFiniteSet(T)
  BY <1>2, AnswerType
<1>7. IsFiniteSet(denied)
  BY <1>3, <1>5, <1>6, FS_Subset
<1>8. /\ q \in Seq(Chunks(T)) /\ Granted(q, tools \ denied) /\ Reasoned(q)
      /\ \A t : t \notin denied => Parts(q, t) = Parts(b, t)
  <2>1. CASE j.prov = "openai"
    <3>1. q = replayOpenAI(b, denied)
      BY <1>q, <1>1, <1>3, <2>1 DEF Replayed
    <3> QED BY <1>4, <1>7, <3>1, OpenAIReplay
  <2>2. CASE j.prov = "anthropic"
    <3>1. q = replayAnthropic(b, denied)
      BY <1>q, <1>1, <1>3, <2>2 DEF Replayed
    <3>2. Blockwise(b)
      BY <1>0, <1>1, <1>3, <2>2 DEF Gathered
    <3> QED BY <1>4, <3>1, <3>2, AnthropicReplay
  <2> QED BY <1>0, <1>1, <2>1, <2>2 DEF Providers
<1> QED BY <1>q, <1>1, <1>2, <1>3, <1>4, <1>8 DEF Replays

LEMMA ResumesReplaying ==
    ASSUME NEW k, IsRun(k), k.job.prov \in Providers, Reading(k), k.src = <<>>,
           NEW denied, denied \subseteq k.st.tools, NEW q, q = Replayed(k, denied),
           NEW t, Resumes(k, denied, k.st.tools \ denied, q, t)
    PROVE  Replaying(t)
<1>1. PICK j, o, a : j = k.job /\ o = k.out /\ a = k.st.tools \ denied
  OBVIOUS
<1>2. PICK T : T = ToolsOf(j.answer) /\ ChunksOf(j) = Chunks(T)
  BY DEF ChunksOf
<1>3. Gathered(k.job, k.st, <<>>) /\ o \in Seq(Chunks(T)) /\ Silent(o) /\ k.result = "none"
  BY <1>1, <1>2 DEF Reading
<1>4. /\ q \in Seq(Chunks(T)) /\ Granted(q, a) /\ Reasoned(q)
      /\ \A u : u \notin denied \cup Late(j) => Parts(q, u) = Parts(j.answer, u)
  <2>0. HoldsAll(k) /\ denied \in SUBSET k.st.tools
    BY <1>1, <1>3 DEF HoldsAll
  <2>1. Replays(k, denied)
    BY <2>0, ReplaysAll
  <2> QED BY <1>1, <1>2, <2>1 DEF Replays
<1>5. Granted(o \o q, a) /\ Reasoned(o \o q)
  BY <1>3, <1>4, SilentConcat
<1>6. \A u : Parts(o \o q, u) = Parts(q, u)
  BY <1>3, <1>4, SilentThen
<1>7. /\ t.job = j /\ t.out = o /\ t.queue = q /\ t.allowed = a /\ t.denied = denied
      /\ t.src = <<>> /\ t.st = newStreamState /\ t.phase = "next" /\ t.result = "none"
  BY <1>1, <1>3 DEF Resumes
<1>8. t.out \in Seq(ChunksOf(t.job)) /\ t.queue \in Seq(ChunksOf(t.job))
  BY <1>2, <1>3, <1>4, <1>7
<1>9. Granted(t.out \o t.queue, t.allowed) /\ Reasoned(t.out \o t.queue)
  BY <1>5, <1>7
<1>10. \A u : u \notin t.denied \cup Late(t.job) => Parts(t.out \o t.queue, u) = Parts(t.job.answer, u)
  BY <1>4, <1>6, <1>7
<1> QED BY <1>7, <1>8, <1>9, <1>10 DEF Replaying

(* A complete answer without its denied calls. *)
LEMMA AnsweredSound ==
    ASSUME NEW t, NEW j, j = t.job, NEW o, o = t.out, NEW a, a = t.allowed, NEW denied, denied = t.denied,
           Answers(j, o, a, denied)
    PROVE  SoundRun(t)
<1>1. o \in Seq(ChunksOf(j)) /\ Granted(o, a) /\ Told(o) /\ \A u : u \notin denied => Parts(o, u) = Parts(j.answer, u)
  BY DEF Answers
<1>2. DOMAIN o = 1 .. Len(o)
  BY <1>1, ChunksAt
<1>3. \A i \in DOMAIN o : o[i].tools \subseteq a
  BY <1>1, <1>2 DEF Granted
<1>4. (\E i \in DOMAIN o : o[i].fin = "tool") => ToolsOf(o) # {}
  BY <1>1, ToldToolsOf
<1> QED BY <1>1, <1>3, <1>4 DEF SoundRun

LEMMA GrantedAll ==
    ASSUME NEW C, NEW s \in Seq(C)
    PROVE  Granted(s, ToolsOf(s))
<1>1. DOMAIN s = 1 .. Len(s)
  BY ChunksAt
<1> QED BY <1>1 DEF Granted, ToolsOf

(* A complete answer without its denied calls is sound. *)
LEMMA EnforcedSound ==
    ASSUME NEW k, IsRun(k), Unread(k), k.job.prov \in Providers, ~k.job.stream,
           NEW denied, denied \subseteq Read(k), ~(k.job.prov = "openai" /\ FilterThrows(k.src)),
           NEW msg, msg = Enforced(k, denied),
           NEW t, IsRun(t), t.job = k.job, t.denied = denied, t.allowed = Read(k) \ denied, t.out = msg
    PROVE  SoundRun(t)
<1>1. PICK j \in Jobs : j = k.job
  BY DEF IsRun
<1>2. PICK s \in Seq(ChunksOf(j)) : s = j.answer /\ IsFiniteSet(ToolsOf(s))
  BY AnswerType
<1>3. k.src = s
  BY <1>1, <1>2 DEF Unread
<1>4. PICK R : R = Read(k)
  OBVIOUS
<1>5. CASE j.prov = "openai" /\ R = {}
  <2>1. denied = {}
    BY <1>4, <1>5
  <2>2. msg = s
    BY <1>1, <1>3, <1>5, <2>1 DEF Enforced, enforceNonStreamingOpenAI
  <2>3. extractOpenAIToolCalls(s) = {}
    BY <1>1, <1>3, <1>4, <1>5 DEF Read
  <2>4. t.out = s /\ t.job = j /\ j.prov = "openai" /\ s = t.job.answer
    BY <1>1, <1>2, <1>5, <2>2
  <2> QED BY <1>1, <2>3, <2>4, PlainSound
<1>6. CASE ~(j.prov = "openai" /\ R = {})
  <2>1. R = ToolsOf(s)
    BY <1>1, <1>3, <1>4, <1>6 DEF Read, FilterThrows
  <2>2. Granted(s, R) /\ IsFiniteSet(R)
    BY <1>2, <2>1, GrantedAll
  <2>3. IsFiniteSet(denied)
    BY <1>4, <2>2, FS_Subset
  <2>4. Answers(j, msg, R \ denied, denied)
    <3>1. CASE j.prov = "openai"
      <4>1. msg = enforceNonStreamingOpenAI(s, denied)
        BY <1>1, <1>3, <3>1 DEF Enforced
      <4> QED BY <1>1, <1>2, <2>2, <2>3, <3>1, <4>1, OpenAIAnswers
    <3>2. CASE j.prov = "anthropic"
      <4>1. msg = enforceNonStreamingAnthropic(s, denied)
        BY <1>1, <1>3, <3>2 DEF Enforced
      <4> QED BY <1>1, <1>2, <2>2, <3>2, <4>1, AnthropicAnswers
    <3> QED BY <1>1, <3>1, <3>2 DEF Providers
  <2>5. t.job = j /\ t.out = msg /\ t.allowed = R \ denied /\ t.denied = denied
    BY <1>1, <1>4
  <2> QED BY <2>4, <2>5, AnsweredSound
<1> QED BY <1>5, <1>6

(* After the verdicts the replay waits, or the complete answer is returned. *)
LEMMA ToolVerdictsReplays ==
    ASSUME ToolsInv, ReplayInv, NEW c \in Calls, ToolVerdicts(c)
    PROVE  ReplayInv'
<1>1. PICK k : k = call[c] /\ k.phase = "verdicts"
  BY DEF ToolVerdicts
<1>2. IsRun(k) /\ ReplayOK(k) /\ (k.governed => k.job.prov \in Providers)
  BY <1>1, ReplayOf DEF ReplayOK
<1>3. k.governed => IF k.job.stream THEN Reading(k) /\ k.src = <<>> ELSE Unread(k)
  BY <1>1, <1>2 DEF ReplayOK, Replaying, Reading
<1>4. PICK tools : tools = IF k.job.stream THEN k.st.tools ELSE Read(k)
  OBVIOUS
<1>5. PICK f \in [tools -> {"allow", "deny", "hitl", "fails"}] :
        LET denied == {t \in tools : f[t] \in {"deny", "hitl"}}
            d      == [k EXCEPT !.denied = denied, !.allowed = tools \ denied]
            fails  == \E t \in tools : f[t] = "fails"
        IN  Set(c, CASE fails /\ k.job.stream -> Settled(StreamThrows(k), "error")
                     [] fails /\ ~k.job.stream -> Rejected(k)
                     [] ~fails /\ k.job.stream ->
                          [d EXCEPT !.phase = "next", !.queue = Replayed(k, denied), !.st = newStreamState]
                     [] OTHER -> IF k.job.prov = "openai" /\ FilterThrows(k.src) THEN Rejected(d)
                                 ELSE Returned(d, Enforced(k, denied)))
  BY <1>1, <1>4, ZenonT(60) DEF ToolVerdicts
<1>6. PICK denied : denied = {t \in tools : f[t] \in {"deny", "hitl"}}
  OBVIOUS
<1>7. PICK allowed : allowed = tools \ denied
  OBVIOUS
<1>8. PICK d : d = [k EXCEPT !.denied = denied, !.allowed = allowed] /\ Decides(k, denied, allowed, d)
  BY <1>2, DecidesRun
<1>9. PICK fails \in BOOLEAN : fails = \E t \in tools : f[t] = "fails"
  OBVIOUS
<1>10. PICK t : t = CASE fails /\ k.job.stream -> Settled(StreamThrows(k), "error")
                     [] fails /\ ~k.job.stream -> Rejected(k)
                     [] ~fails /\ k.job.stream ->
                          [d EXCEPT !.phase = "next", !.queue = Replayed(k, denied), !.st = newStreamState]
                     [] OTHER -> IF k.job.prov = "openai" /\ FilterThrows(k.src) THEN Rejected(d)
                                 ELSE Returned(d, Enforced(k, denied))
  OBVIOUS
<1>11. Set(c, t)
  BY <1>5, <1>6, <1>7, <1>8, <1>9, <1>10
<1>12. denied \subseteq tools
  BY <1>6
<1>d. IsRun(d)
  BY <1>8 DEF Decides
<1>13. ReplayOK(t)
  <2>1. CASE fails /\ k.job.stream
    <3>1. PICK u : u = StreamThrows(k) /\ View(k, u)
      BY <1>2, StreamThrowsView
    <3>2. IsRun(u)
      BY <3>1 DEF View
    <3>3. t = Settled(u, "error")
      BY <1>10, <2>1, <3>1
    <3>4. View(u, t) /\ t.phase = "done" /\ t.result = "error"
      BY <3>2, <3>3, SettledView
    <3>5. View(k, t)
      BY <3>1, <3>4 DEF View
    <3>6. k.governed => SoundRun(t)
      BY <1>3, <2>1, <3>4, <3>5, StoppedSound
    <3> QED BY <1>2, <3>4, <3>5, <3>6, DoneSound
  <2>2. CASE fails /\ ~k.job.stream
    <3>1. t = Rejected(k)
      BY <1>10, <2>2
    <3>2. View(k, t) /\ t.phase = "done" /\ t.result = "rejected"
      BY <1>2, <3>1, RejectedView
    <3>3. k.governed => SoundRun(t)
      BY <1>3, <2>2, <3>2, NothingSound DEF Unread, View
    <3> QED BY <1>2, <3>2, <3>3, DoneSound
  <2>3. CASE ~fails /\ k.job.stream
    <3>1. PICK q : q = Replayed(k, denied)
      OBVIOUS
    <3>2. t = [d EXCEPT !.phase = "next", !.queue = q, !.st = newStreamState]
      BY <1>10, <2>3, <3>1
    <3>3. Resumes(k, denied, allowed, q, t)
      BY <1>2, <1>8, <3>2, Resuming
    <3>4. t.job = k.job /\ t.governed = k.governed /\ t.phase = "next"
      BY <3>3 DEF Resumes
    <3>5. CASE k.governed
      <4>1. Resumes(k, denied, k.st.tools \ denied, q, t)
        BY <1>4, <1>7, <2>3, <3>3
      <4>2. denied \subseteq k.st.tools
        BY <1>4, <1>12, <2>3
      <4>3. Replaying(t)
        BY <1>2, <1>3, <2>3, <3>1, <3>5, <4>1, <4>2, ResumesReplaying
      <4> QED BY <1>2, <2>3, <3>4, <3>5, <4>3, ReadingOK
    <3>6. CASE ~k.governed
      BY <2>3, <3>4, <3>6, StreamingOK
    <3> QED BY <3>5, <3>6
  <2>4. CASE ~fails /\ ~k.job.stream /\ k.job.prov = "openai" /\ FilterThrows(k.src)
    <3>1. t = Rejected(d)
      BY <1>10, <2>4
    <3>2. View(d, t) /\ t.phase = "done" /\ t.result = "rejected"
      BY <1>d, <3>1, RejectedView
    <3>3. t.job = k.job /\ t.governed = k.governed /\ t.out = k.out
      BY <1>8, <3>2 DEF Decides, View
    <3>4. k.governed => SoundRun(t)
      BY <1>3, <2>4, <3>2, <3>3, NothingSound DEF Unread
    <3> QED BY <1>2, <3>2, <3>3, <3>4 DEF ReplayOK
  <2>5. CASE ~fails /\ ~k.job.stream /\ ~(k.job.prov = "openai" /\ FilterThrows(k.src))
    <3>1. PICK msg : msg = Enforced(k, denied)
      OBVIOUS
    <3>2. t = Returned(d, msg)
      BY <1>10, <2>5, <3>1
    <3>3. Returns(d, msg, t)
      BY <1>d, <3>2, ReturnedView
    <3>4. /\ IsRun(t) /\ t.job = k.job /\ t.governed = k.governed /\ t.denied = denied /\ t.allowed = allowed
          /\ t.phase = "done" /\ t.out = k.out \o msg
      BY <1>8, <3>3 DEF Returns, Decides
    <3>5. k.governed => SoundRun(t)
      <4> SUFFICES ASSUME k.governed PROVE SoundRun(t)
        OBVIOUS
      <4>1. Unread(k) /\ k.out = <<>>
        BY <1>3, <2>5 DEF Unread
      <4>2. denied \subseteq Read(k) /\ allowed = Read(k) \ denied
        BY <1>4, <1>7, <1>12, <2>5
      <4>3. t.out = msg
        BY <3>4, <4>1
      <4> QED BY <1>2, <2>5, <3>1, <3>4, <4>1, <4>2, <4>3, EnforcedSound
    <3> QED BY <1>2, <3>4, <3>5 DEF ReplayOK
  <2> QED BY <2>1, <2>2, <2>3, <2>4, <2>5
<1> QED BY <1>11, <1>13, ReplaySets

(* Every step keeps ReplayInv. *)
LEMMA ReplayStep ==
    ASSUME ToolsInv, ReplayInv, [ToolsNext]_toolsVars
    PROVE  ReplayInv'
<1>1. ASSUME call' = call PROVE ReplayInv'
  BY <1>1 DEF ReplayInv
<1>2. ASSUME NEW p \in Providers, installPatch(p) \/ uninstallPatch(p) PROVE ReplayInv'
  BY <1>1, <1>2 DEF installPatch, uninstallPatch
<1>3. CASE InitFinishes
  BY <1>1, <1>3 DEF InitFinishes
<1>4. CASE enforceAllTools
  BY <1>1, <1>4 DEF enforceAllTools
<1>5. ASSUME NEW c \in Calls, Begin(c) \/ Steps(c) \/ return(c) \/ throw(c) \/ nextAfterEnd(c)
      PROVE  ReplayInv'
  BY <1>5, BeginReplays, evaluateToolCallReplays, isAllowedReplays, ToolRunsReplays, ModelAnswersReplays,
     ToolVerdictsReplays, pullReplays, returnReplays, throwReplays, nextAfterEndReplays,
     waitForCompletionReplays DEF Steps
<1>6. CASE UNCHANGED toolsVars
  BY <1>1, <1>6 DEF toolsVars
<1> QED BY <1>2, <1>3, <1>4, <1>5, <1>6 DEF ToolsNext

(* An answer that is on its way to its caller is one part of ReplaySound. *)
LEMMA ReplayOKSound ==
    ASSUME NEW k, IsRun(k), ReplayOK(k), k.governed,
           k.phase \in {"gate", "fallback", "tool", "poll", "create", "open", "next", "verdicts", "done", "over"}
    PROVE  SoundRun(k)
<1>1. CASE k.phase \in {"done", "over"}
  BY <1>1 DEF ReplayOK
<1>2. CASE k.phase \in {"gate", "fallback", "tool", "poll"}
  BY <1>2 DEF ReplayOK
<1>3. CASE Unread(k)
  BY <1>3, NothingSound DEF Unread
<1>4. CASE Reading(k) \/ Replaying(k)
  <2>1. View(k, k) /\ k.result \notin {"stream", "answer"}
    BY <1>4 DEF View, Reading, Replaying
  <2> QED BY <1>4, <2>1, StoppedSound
<1> QED BY <1>1, <1>2, <1>3, <1>4 DEF ReplayOK

(* The caller of a patched SDK, streaming or not, never gets in choices[0]   *)
(* a part of a tool call that was not allowed; at the end of an answer it    *)
(* has every part of the others, in order, but for what an OpenAI stream     *)
(* sends after a "tool" stop reason; and such a reason is not given to it    *)
(* without a call (wrapOpenAIStream, wrapAnthropicStream, the replays and    *)
(* the enforceNonStreaming functions).                                       *)
THEOREM RepliesAreSound == ToolsSpec => []ReplaySound
<1>1. ToolsInit => ReplayInv
  <2> SUFFICES ASSUME ToolsInit, NEW c \in Calls PROVE call[c].phase = "idle"
    BY DEF ReplayInv
  <2> QED BY DEF ToolsInit, NoCall
<1>2. ToolsInv /\ ReplayInv => ReplaySound
  <2> SUFFICES ASSUME ToolsInv, ReplayInv, NEW c \in Calls, call[c].phase # "idle", call[c].governed
               PROVE  SoundRun(call[c])
    BY DEF ReplaySound, Started, SoundRun
  <2>1. PICK k : k = call[c] /\ IsRun(k) /\ ReplayOK(k)
    BY ReplayOf
  <2>2. (k.phase \in {"gate", "fallback"} /\ Held(k)) \/ Running(k) \/ Finished(k)
    BY <2>1 DEF ToolsInv, RunOK
  <2>3. k.phase \in {"gate", "fallback", "tool", "poll", "create", "open", "next", "verdicts", "done", "over"}
    BY <2>2 DEF Running, Finished
  <2> QED BY <2>1, <2>3, ReplayOKSound
<1>3. ToolsSpec => []ReplayInv
  <2>1. ToolsInv /\ ReplayInv /\ [ToolsNext]_toolsVars => ReplayInv'
    BY ReplayStep
  <2> QED BY <1>1, <2>1, ToolsInvariant, PTL DEF ToolsSpec
<1> QED BY <1>2, <1>3, ToolsInvariant, PTL

-----------------------------------------------------------------------------
(* The guards of the routes. *)

FreshEntry == [key : Key, val : Outcome, left : 0..CacheTtl]
StaleEntry == [key : Key, val : Outcome, left : {0}]

USE BreakerAssumption, GuardAssumption

(* A get on the fresh store and a put on both keep their types. *)
LEMMA StoreTypes ==
    ASSUME TypeOK, NEW k \in Key, NEW o \in Outcome
    PROVE  /\ AfterGet(fresh, k) \in Seq(FreshEntry)
           /\ PutInPlace(fresh, CacheMax, Entry(k, o, CacheTtl)) \in Seq(FreshEntry)
           /\ PutInPlace(stale, 2 * CacheMax, Entry(k, o, 0)) \in Seq(StaleEntry)
  <1>1. fresh \in Seq(FreshEntry) /\ stale \in Seq(StaleEntry)
    BY DEF TypeOK, FreshEntry, StaleEntry
  <1>2. Entry(k, o, CacheTtl) \in FreshEntry /\ Entry(k, o, 0) \in StaleEntry
    BY DEF Entry, FreshEntry, StaleEntry
  <1>3. CacheMax \in Nat \ {0} /\ 2 * CacheMax \in Nat \ {0}
    OBVIOUS
  <1> QED BY <1>1, <1>2, <1>3, AfterGetFacts, PutInPlaceFacts

(* Time shortens lives and changes nothing else of the fresh store. *)
LEMMA ElapseFacts ==
    ASSUME TypeOK
    PROVE  /\ Elapse(fresh) \in Seq(FreshEntry)
           /\ Len(Elapse(fresh)) = Len(fresh) /\ DOMAIN Elapse(fresh) = DOMAIN fresh
           /\ \A i \in DOMAIN fresh : /\ Elapse(fresh)[i].key = fresh[i].key
                                      /\ Elapse(fresh)[i].val = fresh[i].val
  <1>1. fresh \in Seq(FreshEntry) /\ Len(fresh) \in Nat /\ DOMAIN fresh = 1..Len(fresh)
    BY DEF TypeOK, FreshEntry
  <1>2. \A i \in DOMAIN fresh : fresh[i] \in FreshEntry
    BY <1>1
  <1>3. \A i \in DOMAIN fresh :
           /\ Elapse(fresh)[i] \in FreshEntry
           /\ Elapse(fresh)[i].key = fresh[i].key /\ Elapse(fresh)[i].val = fresh[i].val
    BY <1>2 DEF FreshEntry, Elapse, Countdown
  <1>4. Elapse(fresh) \in [1..Len(fresh) -> FreshEntry]
    BY <1>1, <1>3 DEF Elapse
  <1> QED BY <1>1, <1>3, <1>4, FunctionIsSeq

(* Whatever a guard hands to dispatch is a decision. *)
LEMMA DecisionTypes ==
    ASSUME NEW k, NEW o, NEW src \in Origin
    PROVE  /\ Made(FALSE, src) \in Decision
           /\ toDecision(o, src) \in Decision
           /\ fallback(k, src) \in Decision
           /\ Made(src = "hitl-approved", src) \in Decision
  <1>1. \A b \in BOOLEAN : Made(b, src) \in Decision
    BY DEF Made, Decision
  <1>2. (o = "allow") \in BOOLEAN /\ (src = "hitl-approved") \in BOOLEAN
    OBVIOUS
  <1>3. ( \/ FailMode = "open"
          \/ /\ FailMode = "cached" /\ k \notin Anonymous /\ Has(stale, k)
             /\ Lookup(stale, k).val = "allow") \in BOOLEAN
    OBVIOUS
  <1> QED BY <1>1, <1>2, <1>3, Zenon DEF toDecision, fallback

(* A new guard is well-formed. *)
LEMMA TypeInit == Init => TypeOK
  <1> SUFFICES ASSUME Init PROVE TypeOK
    OBVIOUS
  <1>1. Made(FALSE, "none") \in Decision
    BY DecisionTypes DEF Origin
  <1>2. fresh \in Seq(FreshEntry) /\ stale \in Seq(StaleEntry)
    BY DEF Init
  <1>3. /\ decision \in [Request -> Decision] /\ lost \in [Request -> BOOLEAN]
        /\ pc \in [Request -> {"idle", "simulate", "hook", "approval"}]
        /\ checks \in [Checks -> {"none", "good", "lost"}]
    BY <1>1 DEF Init
  <1>4. /\ bState \in {"closed", "open", "half-open"} /\ failures \in 0..Threshold
        /\ openLeft \in 0..ResetTimeout
    BY DEF Init, BreakerInit
  <1>7. probing \in BOOLEAN
    BY Zenon DEF Init, BreakerInit
  <1>5. /\ key \in [Request -> Key] /\ reachable \in BOOLEAN /\ up \in BOOLEAN
        /\ policy \in [Key -> Verdicts] /\ said \subseteq Key \X Outcome
        /\ cancelled \subseteq Key \X Outcome /\ probers \subseteq Request
    BY DEF Init
  <1>6. flips \in 0..MaxFlips /\ edits \in 0..MaxEdits
    BY DEF Init
  <1>8. asked \in [Request -> Outcome]
    BY DEF Init, Outcome
  <1> QED BY <1>2, <1>3, <1>4, <1>5, <1>6, <1>7, <1>8 DEF TypeOK, FreshEntry, StaleEntry

(* The breaker's methods keep its type. *)
BreakerType ==
    /\ bState \in {"closed", "open", "half-open"} /\ failures \in 0..Threshold
    /\ openLeft \in 0..ResetTimeout /\ probing \in BOOLEAN

(* Each method of the breaker keeps the types of its fields. *)
LEMMA BreakerTypeStep ==
    ASSUME BreakerType,
           Admit \/ recordSuccess \/ recordFailure \/ BreakerTick \/ UNCHANGED breakerVars
    PROVE  BreakerType'
  <1>1. CASE Admit
    BY <1>1 DEF BreakerType, Admit, MayProbe
  <1>2. CASE recordSuccess
    <2>1. probing' \in BOOLEAN
      BY <1>2, Zenon DEF recordSuccess
    <2> QED BY <1>2, <2>1 DEF BreakerType, recordSuccess
  <1>3. CASE ProbeFailed
    <2>1. probing' \in BOOLEAN
      BY <1>3, Zenon DEF ProbeFailed
    <2> QED BY <1>3, <2>1 DEF BreakerType, ProbeFailed
  <1>4. CASE CallFailed
    BY <1>4 DEF BreakerType, CallFailed
  <1>5. CASE BreakerTick
    BY <1>5 DEF BreakerType, BreakerTick
  <1>6. CASE UNCHANGED breakerVars
    BY <1>6 DEF BreakerType, breakerVars
  <1> QED BY <1>1, <1>2, <1>3, <1>4, <1>5, <1>6 DEF recordFailure

(* The end of a guard that does not escalate keeps the types. *)
LEMMA ConcludeTypes ==
    ASSUME TypeOK, NEW r \in Request, NEW k \in Key, NEW o \in Outcome, Conclude(r, k, o)
    PROVE  /\ fresh' \in Seq(FreshEntry) /\ stale' \in Seq(StaleEntry)
           /\ decision' \in [Request -> Decision]
           /\ pc' \in [Request -> {"idle", "simulate", "hook", "approval"}]
  <1>1. Put(k, o) => fresh' \in Seq(FreshEntry) /\ stale' \in Seq(StaleEntry)
    BY StoreTypes DEF Put
  <1>2. UNCHANGED <<fresh, stale>> => fresh' \in Seq(FreshEntry) /\ stale' \in Seq(StaleEntry)
    BY DEF TypeOK, FreshEntry, StaleEntry
  <1>3. toDecision(o, "network") \in Decision
    BY DecisionTypes DEF Origin
  <1>4. decision' \in [Request -> Decision] /\ pc' \in [Request -> {"idle", "simulate", "hook", "approval"}]
    BY <1>3 DEF Conclude, dispatch, Goto, TypeOK
  <1> QED BY <1>1, <1>2, <1>4 DEF Conclude

(* Every step of the guard keeps the type invariant. *)
LEMMA TypeStep == TypeOK /\ [Next]_vars => TypeOK'
  <1> SUFFICES ASSUME TypeOK, [Next]_vars PROVE TypeOK'
    OBVIOUS
  <1> DEFINE Pcs == {"idle", "simulate", "hook", "approval"}
  <1>a. BreakerType
    BY DEF TypeOK, BreakerType
  <1>1. ASSUME NEW r \in Request, NEW k \in Key, NEW s \in BOOLEAN, agentumGuard(r, k, s)
        PROVE  TypeOK'
    <2>1. fresh' \in Seq(FreshEntry)
      BY <1>1, StoreTypes DEF agentumGuard, TypeOK, FreshEntry, Outcome
    <2>2. decision' \in [Request -> Decision] /\ pc' \in [Request -> Pcs]
      <3>1. \E d \in Decision, l \in Pcs :
               /\ decision' = [decision EXCEPT ![r] = d] /\ pc' = [pc EXCEPT ![r] = l]
        BY <1>1, DecisionTypes DEF agentumGuard, dispatch, Goto, Origin
      <3> QED BY <3>1 DEF TypeOK
    <2>3. BreakerType'
      BY <1>1, <1>a, BreakerTypeStep DEF agentumGuard
    <2>4. lost' \in [Request -> BOOLEAN] /\ key' \in [Request -> Key] /\ probers' \subseteq Request
      BY <1>1 DEF agentumGuard, TypeOK
    <2> QED BY <1>1, <2>1, <2>2, <2>3, <2>4
         DEF agentumGuard, TypeOK, FreshEntry, BreakerType, serverVars
  <1>2. ASSUME NEW r \in Request, SimulateFails(r)
        PROVE  TypeOK'
    <2>1. /\ decision' \in [Request -> Decision] /\ pc' \in [Request -> Pcs]
          /\ lost' \in [Request -> BOOLEAN]
      BY <1>2, DecisionTypes DEF SimulateFails, dispatch, Goto, Origin, TypeOK
    <2>2. BreakerType'
      BY <1>2, <1>a, BreakerTypeStep DEF SimulateFails
    <2> QED BY <1>2, <2>1, <2>2 DEF SimulateFails, TypeOK, BreakerType, serverVars
  <1>3. ASSUME NEW r \in Request, SimulateAnswers(r)
        PROVE  TypeOK'
    <2>1. key[r] \in Key /\ policy[key[r]] \in Outcome
      BY DEF TypeOK, GuardAssumption
    <2>2. /\ fresh' \in Seq(FreshEntry) /\ stale' \in Seq(StaleEntry)
          /\ decision' \in [Request -> Decision] /\ pc' \in [Request -> Pcs]
          /\ asked' \in [Request -> Outcome]
      <3>1. CASE Conclude(r, key[r], policy[key[r]]) /\ UNCHANGED asked
        BY <3>1, <2>1, ConcludeTypes DEF TypeOK
      <3>2. CASE /\ Goto(r, IF HasHook THEN "hook" ELSE "approval")
                 /\ asked' = [asked EXCEPT ![r] = policy[key[r]]]
                 /\ UNCHANGED <<decision, fresh, stale>>
        BY <3>2, <2>1 DEF Goto, TypeOK, FreshEntry, StaleEntry
      <3> QED BY <1>3, <3>1, <3>2 DEF SimulateAnswers
    <2>4. BreakerType'
      BY <1>3, <1>a, BreakerTypeStep DEF SimulateAnswers
    <2>5. said' \subseteq Key \X Outcome /\ probers' \subseteq Request
      BY <1>3, <2>1 DEF SimulateAnswers, TypeOK
    <2> QED BY <1>3, <2>2, <2>4, <2>5
         DEF SimulateAnswers, TypeOK, FreshEntry, StaleEntry, BreakerType, serverVars
  <1>4. ASSUME NEW r \in Request, NEW b \in BOOLEAN, HookSettles(r, b)
        PROVE  TypeOK'
    <2>1. key[r] \in Key /\ asked[r] \in Outcome /\ "deny" \in Outcome
      BY DEF TypeOK, Outcome
    <2>2. /\ fresh' \in Seq(FreshEntry) /\ stale' \in Seq(StaleEntry)
          /\ decision' \in [Request -> Decision] /\ pc' \in [Request -> Pcs]
          /\ asked' \in [Request -> Outcome] /\ cancelled' \subseteq Key \X Outcome
      <3>1. CASE /\ Conclude(r, key[r], asked[r])
                 /\ cancelled' = cancelled \cup {<<key[r], asked[r]>>}
                 /\ asked' = [asked EXCEPT ![r] = "deny"]
        BY <3>1, <2>1, ConcludeTypes DEF TypeOK
      <3>2. CASE Goto(r, "approval") /\ UNCHANGED <<decision, asked, fresh, stale, cancelled>>
        BY <3>2 DEF Goto, TypeOK, FreshEntry, StaleEntry
      <3> QED BY <1>4, <3>1, <3>2 DEF HookSettles
    <2> QED BY <1>4, <2>2
         DEF HookSettles, TypeOK, FreshEntry, StaleEntry, breakerVars, serverVars
  <1>5. ASSUME NEW r \in Request, NEW s \in {"hitl-approved", "hitl-denied", "hitl-timeout"},
               ApprovalSettles(r, s)
        PROVE  TypeOK'
    <2>1. /\ decision' \in [Request -> Decision] /\ pc' \in [Request -> Pcs]
          /\ asked' \in [Request -> Outcome]
      BY <1>5, DecisionTypes DEF ApprovalSettles, dispatch, Goto, Origin, TypeOK, Outcome
    <2> QED BY <1>5, <2>1 DEF ApprovalSettles, TypeOK, breakerVars, serverVars
  <1>6. ASSUME NEW i \in Checks, HealthTick(i) \/ HealthSettles(i)
        PROVE  TypeOK'
    BY <1>6 DEF HealthTick, HealthSettles, TypeOK, breakerVars, requestVars, serverVars
  <1>7. CASE ServerDown
    <2>1. lost' \in [Request -> BOOLEAN] /\ checks' \in [Checks -> {"none", "good", "lost"}]
      BY <1>7 DEF ServerDown, TypeOK
    <2>2. up' \in BOOLEAN
      BY <1>7, Zenon DEF ServerDown
    <2>3. flips' \in 0..MaxFlips
      BY <1>7 DEF ServerDown, TypeOK
    <2> QED BY <1>7, <2>1, <2>2, <2>3 DEF ServerDown, TypeOK, breakerVars
  <1>8. CASE ServerUp
    BY <1>8 DEF ServerUp, TypeOK, breakerVars, requestVars
  <1>9. CASE Tick
    <2>1. BreakerType'
      BY <1>9, <1>a, BreakerTypeStep DEF Tick
    <2> QED BY <1>9, <2>1, ElapseFacts
         DEF Tick, BreakerType, TypeOK, FreshEntry, requestVars, serverVars
  <1>10. ASSUME NEW k \in Key, NEW o \in Verdicts, EditPolicy(k, o)
        PROVE  TypeOK'
    BY <1>10 DEF EditPolicy, TypeOK, breakerVars, requestVars
  <1>11. CASE UNCHANGED vars
    BY <1>11 DEF vars, TypeOK, breakerVars, requestVars, serverVars
  <1> QED BY <1>1, <1>2, <1>3, <1>4, <1>5, <1>6, <1>7, <1>8, <1>9, <1>10, <1>11
       DEF Next, Arrive, Settling

(* The state of the guard keeps its type. *)
THEOREM TypeCorrect == Spec => []TypeOK
  BY TypeInit, TypeStep, PTL DEF Spec

-----------------------------------------------------------------------------
(* The fields of the breaker agree from one call of its methods to the next. *)
LEMMA BreakerStep ==
    ASSUME BreakerType, BreakerConsistent,
           Admit \/ recordSuccess \/ recordFailure \/ BreakerTick \/ UNCHANGED breakerVars
    PROVE  BreakerConsistent'
  <1>1. CASE Admit
    BY <1>1 DEF BreakerType, BreakerConsistent, Admit, MayProbe
  <1>2. CASE recordSuccess
    <2>1. ~probing' /\ bState' = "closed"
      BY <1>2, Zenon DEF recordSuccess
    <2>2. failures' < Threshold
      BY <1>2 DEF recordSuccess
    <2> QED BY <2>1, <2>2 DEF BreakerConsistent
  <1>3. CASE ProbeFailed
    <2>1. ~probing' /\ bState' = "open" /\ bState = "half-open" /\ failures' = failures
      BY <1>3, Zenon DEF ProbeFailed
    <2> QED BY <2>1 DEF BreakerConsistent
  <1>4. CASE CallFailed
    BY <1>4 DEF BreakerType, BreakerConsistent, CallFailed
  <1>5. CASE BreakerTick
    BY <1>5 DEF BreakerConsistent, BreakerTick
  <1>6. CASE UNCHANGED breakerVars
    BY <1>6 DEF BreakerConsistent, breakerVars
  <1> QED BY <1>1, <1>2, <1>3, <1>4, <1>5, <1>6 DEF recordFailure

(* Which of the breaker's methods a step of the guard calls. *)
LEMMA BreakerMoves ==
    ASSUME [Next]_vars
    PROVE  Admit \/ recordSuccess \/ recordFailure \/ BreakerTick \/ UNCHANGED breakerVars
  <1>1. ASSUME NEW r \in Request, Arrive(r) \/ Settling(r)
        PROVE  Admit \/ recordSuccess \/ recordFailure \/ UNCHANGED breakerVars
    BY <1>1 DEF Arrive, Settling, agentumGuard, SimulateFails, SimulateAnswers,
         HookSettles, ApprovalSettles
  <1>2. ASSUME NEW i \in Checks, HealthTick(i) \/ HealthSettles(i)
        PROVE  UNCHANGED breakerVars
    BY <1>2 DEF HealthTick, HealthSettles
  <1>3. ASSUME NEW k \in Key, NEW o \in Verdicts, EditPolicy(k, o)
        PROVE  UNCHANGED breakerVars
    BY <1>3 DEF EditPolicy
  <1> QED BY <1>1, <1>2, <1>3 DEF Next, ServerDown, ServerUp, Tick, vars

(* For every threshold, timeout and interleaving of late successes and     *)
(* failures: the probe slot of the circuit breaker is taken exactly in     *)
(* half-open and the circuit is closed exactly below the threshold.        *)
THEOREM BreakerCorrect == Spec => []BreakerConsistent
  <1>1. Init => BreakerConsistent
    <2> SUFFICES ASSUME Init PROVE BreakerConsistent
      OBVIOUS
    <2>1. ~probing /\ bState = "closed"
      BY Zenon DEF Init, BreakerInit
    <2>2. failures < Threshold
      BY DEF Init, BreakerInit
    <2> QED BY <2>1, <2>2 DEF BreakerConsistent
  <1>2. TypeOK /\ BreakerConsistent /\ [Next]_vars => BreakerConsistent'
    BY BreakerMoves, BreakerStep DEF TypeOK, BreakerType
  <1> QED BY <1>1, <1>2, TypeCorrect, PTL DEF Spec

(* A prober is waiting for simulatePolicy, and half-open has a prober. *)
ProbeInFlight ==
    /\ \A r \in probers : pc[r] = "simulate"
    /\ bState = "half-open" => probers # {}

(* Without a HealthMonitor, half-open means a probe is in flight: the      *)
(* circuit cannot be left waiting for nobody.                              *)
THEOREM ProbeCorrect == ASSUME ~HasHealth PROVE Spec => []HalfOpenHasProbe
  <1>1. Init => ProbeInFlight
    BY DEF Init, BreakerInit, ProbeInFlight
  <1>2. TypeOK /\ ProbeInFlight /\ [Next]_vars => ProbeInFlight'
    <2> SUFFICES ASSUME TypeOK, ProbeInFlight, [Next]_vars PROVE ProbeInFlight'
      OBVIOUS
    <2>1. ASSUME NEW r \in Request, NEW k \in Key, NEW s \in BOOLEAN, agentumGuard(r, k, s)
          PROVE  ProbeInFlight'
      <3>1. pc[r] = "idle" /\ r \notin probers
        BY <2>1 DEF agentumGuard, ProbeInFlight
      <3>2. CASE UNCHANGED <<breakerVars, probers>> /\ Goto(r, "idle")
        BY <3>1, <3>2 DEF TypeOK, ProbeInFlight, Goto, breakerVars
      <3>3. CASE /\ Admit /\ Goto(r, "simulate")
                 /\ probers' = IF MayProbe THEN probers \cup {r} ELSE probers
        <4>1. \A q \in probers' : pc'[q] = "simulate"
          BY <3>3 DEF TypeOK, ProbeInFlight, Goto
        <4>2. bState' = "half-open" => probers' # {}
          BY <3>3 DEF ProbeInFlight, Admit
        <4> QED BY <4>1, <4>2 DEF ProbeInFlight
      <3> QED BY <2>1, <3>2, <3>3 DEF agentumGuard, dispatch
    <2>2. ASSUME NEW r \in Request, SimulateFails(r)
          PROVE  ProbeInFlight'
      BY <2>2 DEF TypeOK, ProbeInFlight, SimulateFails, dispatch, Goto, recordFailure,
           ProbeFailed, CallFailed
    <2>3. ASSUME NEW r \in Request, SimulateAnswers(r)
          PROVE  ProbeInFlight'
      <3>1. bState' = "closed" /\ probers' = probers \ {r}
        BY <2>3 DEF SimulateAnswers, recordSuccess
      <3>2. \A q \in Request \ {r} : pc'[q] = pc[q]
        BY <2>3 DEF TypeOK, SimulateAnswers, Conclude, dispatch, Goto
      <3> QED BY <3>1, <3>2 DEF TypeOK, ProbeInFlight
    <2>4. ASSUME NEW r \in Request, NEW b \in BOOLEAN, HookSettles(r, b)
          PROVE  ProbeInFlight'
      BY <2>4 DEF TypeOK, ProbeInFlight, HookSettles, Conclude, dispatch, Goto, breakerVars
    <2>5. ASSUME NEW r \in Request, NEW s, ApprovalSettles(r, s)
          PROVE  ProbeInFlight'
      BY <2>5 DEF TypeOK, ProbeInFlight, ApprovalSettles, dispatch, Goto, breakerVars
    <2>6. ASSUME NEW i \in Checks, HealthTick(i) \/ HealthSettles(i)
          PROVE  ProbeInFlight'
      BY <2>6 DEF HealthTick, HealthSettles, ProbeInFlight, breakerVars, requestVars
    <2>7. ASSUME NEW k \in Key, NEW o \in Verdicts, EditPolicy(k, o)
          PROVE  ProbeInFlight'
      BY <2>7 DEF EditPolicy, ProbeInFlight, breakerVars, requestVars
    <2>8. CASE ServerDown \/ ServerUp \/ Tick \/ UNCHANGED vars
      BY <2>8 DEF ServerDown, ServerUp, Tick, BreakerTick, ProbeInFlight, breakerVars,
           requestVars, vars
    <2> QED BY <2>1, <2>2, <2>3, <2>4, <2>5, <2>6, <2>7, <2>8 DEF Next, Arrive, Settling
  <1>3. ProbeInFlight => HalfOpenHasProbe
    BY DEF ProbeInFlight, HalfOpenHasProbe
  <1> QED BY <1>1, <1>2, <1>3, TypeCorrect, PTL DEF Spec

-----------------------------------------------------------------------------
(* EscalationsUncached, one store at a time. *)
Backed(m, facts, gone) ==
    \A i \in DOMAIN m :
        /\ <<m[i].key, m[i].val>> \in facts
        /\ m[i].val \in Advised => Framework = "nextjs"
        /\ Escalates(m[i].val) => <<m[i].key, m[i].val>> \in gone

(* EscalationsUncached, stated one store at a time. *)
LEMMA BackedStores ==
    EscalationsUncached <=> Backed(fresh, said, cancelled) /\ Backed(stale, said, cancelled)
  BY DEF EscalationsUncached, Backed

(* What a human is asked about is a Deny of the server that the adapter    *)
(* escalates.                                                              *)
EscalationSaid ==
    \A r \in Request : pc[r] \in {"hook", "approval"} =>
        Escalates(asked[r]) /\ <<key[r], asked[r]>> \in said

Vouching == EscalationsUncached /\ EscalationSaid /\ AllowIsVouched

(* A request that did not move keeps its backing: facts only accumulate. *)
LEMMA OthersVouched ==
    ASSUME TypeOK, EscalationSaid, AllowIsVouched, said \subseteq said', NEW r \in Request,
           \A q \in Request \ {r} :
              pc'[q] = pc[q] /\ key'[q] = key[q] /\ decision'[q] = decision[q]
              /\ asked'[q] = asked[q],
           pc'[r] \in {"hook", "approval"} =>
              Escalates(asked'[r]) /\ <<key'[r], asked'[r]>> \in said',
           FailMode # "open" /\ decision'[r].allowed =>
              \/ <<key'[r], "allow">> \in said'
              \/ /\ decision'[r].source = "hitl-approved"
                 /\ \E o \in Outcome : Escalates(o) /\ <<key'[r], o>> \in said'
    PROVE  EscalationSaid' /\ AllowIsVouched'
  <1>1. EscalationSaid'
    BY DEF EscalationSaid, Escalates, AsksHuman
  <1>2. AllowIsVouched'
    BY DEF AllowIsVouched, Escalates, AsksHuman
  <1> QED BY <1>1, <1>2

(* The fallback passes a request only in mode open, or on a stale Allow. *)
LEMMA FallbackVouched ==
    ASSUME EscalationsUncached, FailMode # "open", NEW k, NEW src, fallback(k, src).allowed
    PROVE  <<k, "allow">> \in said
  <1>1. Has(stale, k) /\ Lookup(stale, k).val = "allow"
    BY Zenon DEF fallback, Made
  <1>2. IndexOf(stale, k) \in DOMAIN stale /\ stale[IndexOf(stale, k)].key = k
    BY <1>1, IndexOfHas
  <1> QED BY <1>1, <1>2 DEF EscalationsUncached, Lookup

(* Putting a decision of the server keeps both stores backed. *)
LEMMA PutBacked ==
    ASSUME TypeOK, EscalationsUncached, NEW k \in Key, NEW o \in Outcome, Put(k, o),
           said \subseteq said', <<k, o>> \in said', cancelled \subseteq cancelled',
           o \in Advised => Framework = "nextjs",
           Escalates(o) => <<k, o>> \in cancelled'
    PROVE  EscalationsUncached'
  <1> DEFINE e == Entry(k, o, CacheTtl)
             d == Entry(k, o, 0)
  <1>1. fresh \in Seq(FreshEntry) /\ stale \in Seq(StaleEntry)
    BY DEF TypeOK, FreshEntry, StaleEntry
  <1>2. e \in FreshEntry /\ d \in StaleEntry
    BY DEF Entry, FreshEntry, StaleEntry
  <1>3. e.key = k /\ e.val = o /\ d.key = k /\ d.val = o
    BY DEF Entry
  <1>4. CacheMax \in Nat \ {0} /\ 2 * CacheMax \in Nat \ {0}
    OBVIOUS
  <1>5. fresh' = PutInPlace(fresh, CacheMax, e) /\ stale' = PutInPlace(stale, 2 * CacheMax, d)
    BY DEF Put
  <1> HIDE DEF e, d
  <1>6. WithinOr(fresh', fresh, e) /\ WithinOr(stale', stale, d)
    BY <1>1, <1>2, <1>4, <1>5, PutInPlaceFacts
  <1>7. Backed(fresh, said, cancelled) /\ Backed(stale, said, cancelled)
    BY BackedStores
  <1>8. Backed(fresh', said', cancelled')
    BY <1>3, <1>6, <1>7 DEF Backed, WithinOr
  <1>9. Backed(stale', said', cancelled')
    BY <1>3, <1>6, <1>7 DEF Backed, WithinOr
  <1> QED BY <1>8, <1>9 DEF Backed, EscalationsUncached, Escalates, AsksHuman, Advised

(* The end of a guard that does not escalate. *)
LEMMA ConcludeVouched ==
    ASSUME TypeOK, Vouching, NEW r \in Request, NEW k \in Key, NEW o \in Outcome,
           Conclude(r, k, o), key[r] = k, UNCHANGED key,
           \A q \in Request \ {r} : asked'[q] = asked[q],
           said \subseteq said', <<k, o>> \in said', cancelled \subseteq cancelled',
           Escalates(o) => <<k, o>> \in cancelled'
    PROVE  Vouching'
  <1>1. EscalationsUncached'
    <2>1. CASE Cacheable(k, o) /\ Put(k, o)
      BY <2>1, PutBacked DEF Vouching, Cacheable
    <2>2. CASE UNCHANGED <<fresh, stale>>
      BY <2>2 DEF Vouching, EscalationsUncached, Escalates, AsksHuman, Advised
    <2> QED BY <2>1, <2>2 DEF Conclude
  <1>2. /\ pc' = [pc EXCEPT ![r] = "idle"]
        /\ decision' = [decision EXCEPT ![r] = toDecision(o, "network")]
    BY DEF Conclude, dispatch, Goto
  <1>3. toDecision(o, "network").allowed => o = "allow"
    BY Zenon DEF toDecision, Made
  <1>4. pc'[r] = "idle" /\ decision'[r] = toDecision(o, "network")
    BY <1>2 DEF TypeOK
  <1>5. \A q \in Request \ {r} : pc'[q] = pc[q] /\ key'[q] = key[q] /\ decision'[q] = decision[q]
    BY <1>2 DEF TypeOK
  <1>6. EscalationSaid' /\ AllowIsVouched'
    <2>1. pc'[r] \notin {"hook", "approval"} /\ key'[r] = k
      BY <1>4
    <2>2. decision'[r].allowed => <<key'[r], "allow">> \in said'
      BY <1>3, <1>4, <2>1
    <2> QED BY <1>5, <2>1, <2>2, OthersVouched DEF Vouching
  <1> QED BY <1>1, <1>6 DEF Vouching

(* Every step of the guard keeps the inductive invariant Vouching. *)
LEMMA VouchingStep == TypeOK /\ Vouching /\ [Next]_vars => Vouching'
  <1> SUFFICES ASSUME TypeOK, Vouching, [Next]_vars PROVE Vouching'
    OBVIOUS
  <1> USE DEF Vouching
  <1>1. ASSUME NEW r \in Request, NEW k \in Key, NEW s \in BOOLEAN, agentumGuard(r, k, s)
        PROVE  Vouching'
    <2>1. /\ said' = said /\ cancelled' = cancelled /\ asked' = asked
          /\ stale' = stale /\ key' = [key EXCEPT ![r] = k]
      BY <1>1 DEF agentumGuard
    <2>2. EscalationsUncached'
      <3>1. fresh \in Seq(FreshEntry)
        BY DEF TypeOK, FreshEntry
      <3>2. Within(fresh', fresh)
        BY <1>1, <3>1, AfterGetFacts DEF agentumGuard, Within
      <3> QED BY <2>1, <3>2 DEF EscalationsUncached, Within, Escalates, AsksHuman, Advised
    <2>0. PICK l \in {"idle", "simulate"} : pc' = [pc EXCEPT ![r] = l]
      BY <1>1 DEF agentumGuard, dispatch, Goto
    <2>3. PICK d :
             /\ decision' = [decision EXCEPT ![r] = d]
             /\ \/ Live(fresh, k) /\ d = toDecision(Lookup(fresh, k).val, "cache")
                \/ d = fallback(k, "breaker-open") \/ d = fallback(k, "health-down")
                \/ d = Made(FALSE, "none")
      BY <1>1 DEF agentumGuard, dispatch, Goto
    <2>4. FailMode # "open" /\ d.allowed => <<k, "allow">> \in said
      <3>1. CASE Live(fresh, k) /\ d = toDecision(Lookup(fresh, k).val, "cache")
        <4>1. d.allowed => Lookup(fresh, k).val = "allow"
          BY <3>1, Zenon DEF toDecision, Made
        <4>2. IndexOf(fresh, k) \in DOMAIN fresh /\ fresh[IndexOf(fresh, k)].key = k
          BY <3>1, IndexOfHas DEF Live
        <4> QED BY <4>1, <4>2 DEF EscalationsUncached, Lookup
      <3>2. CASE d = fallback(k, "breaker-open") \/ d = fallback(k, "health-down")
        BY <3>2, FallbackVouched
      <3>3. CASE d = Made(FALSE, "none")
        BY <3>3, Zenon DEF Made
      <3> QED BY <2>3, <3>1, <3>2, <3>3
    <2>5. /\ pc'[r] = l /\ decision'[r] = d /\ key'[r] = k
          /\ \A q \in Request \ {r} :
                pc'[q] = pc[q] /\ key'[q] = key[q] /\ decision'[q] = decision[q]
                /\ asked'[q] = asked[q]
      BY <2>0, <2>1, <2>3 DEF TypeOK
    <2>6. EscalationSaid' /\ AllowIsVouched'
      <3>1. pc'[r] \notin {"hook", "approval"}
        BY <2>5
      <3>2. FailMode # "open" /\ decision'[r].allowed => <<key'[r], "allow">> \in said'
        BY <2>1, <2>4, <2>5
      <3> QED BY <2>1, <2>5, <3>1, <3>2, OthersVouched
    <2> QED BY <2>2, <2>6
  <1>2. ASSUME NEW r \in Request, SimulateFails(r)
        PROVE  Vouching'
    <2>1. /\ said' = said /\ UNCHANGED <<fresh, stale, key, asked, cancelled>>
          /\ pc' = [pc EXCEPT ![r] = "idle"]
          /\ decision' = [decision EXCEPT ![r] = fallback(key[r], "fail")]
      BY <1>2 DEF SimulateFails, dispatch, Goto
    <2>2. EscalationsUncached'
      BY <2>1 DEF EscalationsUncached, Escalates, AsksHuman, Advised
    <2>3. /\ pc'[r] = "idle" /\ decision'[r] = fallback(key[r], "fail") /\ key'[r] = key[r]
          /\ \A q \in Request \ {r} :
                pc'[q] = pc[q] /\ key'[q] = key[q] /\ decision'[q] = decision[q]
                /\ asked'[q] = asked[q]
      BY <2>1 DEF TypeOK
    <2>4. FailMode # "open" /\ decision'[r].allowed => <<key'[r], "allow">> \in said'
      BY <2>1, <2>3, FallbackVouched
    <2>5. EscalationSaid' /\ AllowIsVouched'
      BY <2>1, <2>3, <2>4, OthersVouched
    <2> QED BY <2>2, <2>5
  <1>3. ASSUME NEW r \in Request, SimulateAnswers(r)
        PROVE  Vouching'
    <2>1. key[r] \in Key /\ policy[key[r]] \in Outcome
      BY DEF TypeOK, GuardAssumption
    <2>2. /\ said' = said \cup {<<key[r], policy[key[r]]>>} /\ key' = key
          /\ cancelled' = cancelled
      BY <1>3 DEF SimulateAnswers
    <2>3. CASE /\ ~Escalates(policy[key[r]]) /\ UNCHANGED asked
               /\ Conclude(r, key[r], policy[key[r]])
      BY <2>1, <2>2, <2>3, ConcludeVouched
    <2>4. CASE /\ Escalates(policy[key[r]]) /\ UNCHANGED <<decision, fresh, stale>>
               /\ asked' = [asked EXCEPT ![r] = policy[key[r]]]
               /\ Goto(r, IF HasHook THEN "hook" ELSE "approval")
      <3>1. EscalationsUncached'
        BY <2>2, <2>4 DEF EscalationsUncached, Escalates, AsksHuman, Advised
      <3>2. /\ asked'[r] = policy[key[r]]
            /\ \A q \in Request \ {r} : pc'[q] = pc[q] /\ asked'[q] = asked[q]
        BY <2>4 DEF Goto, TypeOK
      <3>3. EscalationSaid'
        BY <2>2, <2>4, <3>2 DEF EscalationSaid, Escalates, AsksHuman
      <3>4. AllowIsVouched'
        BY <2>2, <2>4 DEF AllowIsVouched, Escalates, AsksHuman
      <3> QED BY <3>1, <3>3, <3>4
    <2> QED BY <1>3, <2>3, <2>4 DEF SimulateAnswers
  <1>4. ASSUME NEW r \in Request, NEW b \in BOOLEAN, HookSettles(r, b)
        PROVE  Vouching'
    <2>1. /\ key[r] \in Key /\ asked[r] \in Outcome
          /\ Escalates(asked[r]) /\ <<key[r], asked[r]>> \in said
      BY <1>4 DEF TypeOK, EscalationSaid, HookSettles
    <2>2. said' = said /\ key' = key
      BY <1>4 DEF HookSettles
    <2>3. CASE /\ Conclude(r, key[r], asked[r])
               /\ cancelled' = cancelled \cup {<<key[r], asked[r]>>}
               /\ asked' = [asked EXCEPT ![r] = "deny"]
      <3>1. \A q \in Request \ {r} : asked'[q] = asked[q]
        BY <2>3 DEF TypeOK
      <3> QED BY <2>1, <2>2, <2>3, <3>1, ConcludeVouched
    <2>4. CASE Goto(r, "approval") /\ UNCHANGED <<decision, asked, fresh, stale, cancelled>>
      <3>1. EscalationsUncached'
        BY <2>2, <2>4 DEF EscalationsUncached, Escalates, AsksHuman, Advised
      <3>2. \A q \in Request \ {r} : pc'[q] = pc[q]
        BY <2>4 DEF Goto, TypeOK
      <3>3. EscalationSaid'
        BY <2>1, <2>2, <2>4, <3>2 DEF EscalationSaid, Escalates, AsksHuman
      <3>4. AllowIsVouched'
        BY <2>2, <2>4 DEF AllowIsVouched, Escalates, AsksHuman
      <3> QED BY <3>1, <3>3, <3>4
    <2> QED BY <1>4, <2>3, <2>4 DEF HookSettles
  <1>5. ASSUME NEW r \in Request, NEW s \in {"hitl-approved", "hitl-denied", "hitl-timeout"},
               ApprovalSettles(r, s)
        PROVE  Vouching'
    <2>0. \E o \in Outcome : Escalates(o) /\ <<key[r], o>> \in said
      BY <1>5 DEF ApprovalSettles, EscalationSaid, TypeOK
    <2>1. /\ said' = said /\ UNCHANGED <<fresh, stale, key, cancelled>>
          /\ pc' = [pc EXCEPT ![r] = "idle"]
          /\ asked' = [asked EXCEPT ![r] = "deny"]
          /\ decision' = [decision EXCEPT ![r] = Made(s = "hitl-approved", s)]
      BY <1>5 DEF ApprovalSettles, dispatch, Goto
    <2>2. EscalationsUncached'
      BY <2>1 DEF EscalationsUncached, Escalates, AsksHuman, Advised
    <2>3. /\ pc'[r] = "idle" /\ decision'[r] = Made(s = "hitl-approved", s) /\ key'[r] = key[r]
          /\ \A q \in Request \ {r} :
                pc'[q] = pc[q] /\ key'[q] = key[q] /\ decision'[q] = decision[q]
                /\ asked'[q] = asked[q]
      BY <2>1 DEF TypeOK
    <2>4. decision'[r].allowed => decision'[r].source = "hitl-approved"
      <3>1. Made(s = "hitl-approved", s).allowed => Made(s = "hitl-approved", s).source = "hitl-approved"
        BY Zenon DEF Made
      <3> QED BY <3>1, <2>3
    <2>5. EscalationSaid' /\ AllowIsVouched'
      BY <2>0, <2>1, <2>3, <2>4, OthersVouched
    <2> QED BY <2>2, <2>5
  <1>6. ASSUME NEW i \in Checks, HealthTick(i) \/ HealthSettles(i)
        PROVE  Vouching'
    BY <1>6 DEF HealthTick, HealthSettles, requestVars, EscalationsUncached, EscalationSaid,
         AllowIsVouched, Escalates, AsksHuman, Advised
  <1>7. ASSUME NEW k \in Key, NEW o \in Verdicts, EditPolicy(k, o)
        PROVE  Vouching'
    BY <1>7 DEF EditPolicy, requestVars, EscalationsUncached, EscalationSaid,
         AllowIsVouched, Escalates, AsksHuman, Advised
  <1>8. CASE Tick
    <2>1. Backed(fresh', said', cancelled')
      BY <1>8, ElapseFacts, BackedStores DEF Tick, Backed
    <2>2. Backed(stale', said', cancelled')
      BY <1>8, BackedStores DEF Tick, Backed
    <2>3. EscalationsUncached'
      BY <2>1, <2>2 DEF EscalationsUncached, Backed, Escalates, AsksHuman, Advised
    <2> QED BY <1>8, <2>3 DEF Tick, requestVars, EscalationSaid, AllowIsVouched, Escalates, AsksHuman
  <1>9. CASE ServerDown \/ ServerUp \/ UNCHANGED vars
    BY <1>9 DEF ServerDown, ServerUp, vars, requestVars, EscalationsUncached, EscalationSaid,
         AllowIsVouched, Escalates, AsksHuman, Advised
  <1> QED BY <1>1, <1>2, <1>3, <1>4, <1>5, <1>6, <1>7, <1>8, <1>9
       DEF Next, Arrive, Settling

(* Vouching holds in every reachable state. *)
LEMMA VouchingAlways == Spec => []Vouching
  <1>1. Init => Vouching
    <2> SUFFICES ASSUME Init PROVE Vouching
      OBVIOUS
    <2>1. EscalationsUncached /\ EscalationSaid
      BY DEF Init, EscalationsUncached, EscalationSaid
    <2>2. \A r \in Request : ~decision[r].allowed
      BY Zenon DEF Init, Made
    <2> QED BY <2>1, <2>2 DEF Vouching, AllowIsVouched
  <1> QED BY <1>1, VouchingStep, TypeCorrect, PTL DEF Spec

(* Unless it fails open, a guard passes a request only on an Allow of the  *)
(* server for that key or on a human approval of a Deny that its adapter   *)
(* escalates.                                                              *)
THEOREM AllowCorrect == Spec => []AllowIsVouched
  <1>1. Vouching => AllowIsVouched
    BY DEF Vouching
  <1> QED BY <1>1, VouchingAlways, PTL

(* For each of the four adapters: the stores hold nothing the server did   *)
(* not say, no Deny with advice (but on Next.js), and a Deny the adapter   *)
(* escalates only once a hook cancelled that escalation.                   *)
THEOREM CacheCorrect == Spec => []EscalationsUncached
  <1>1. Vouching => EscalationsUncached
    BY DEF Vouching
  <1> QED BY <1>1, VouchingAlways, PTL

-----------------------------------------------------------------------------
(* A put keeps the stores bounded, unique and in agreement. *)
LEMMA PutAgrees ==
    ASSUME TypeOK, StoresAgree, NEW k \in Key, NEW o \in Outcome, Put(k, o)
    PROVE  StoresAgree'
  <1> DEFINE e == Entry(k, o, CacheTtl)
             d == Entry(k, o, 0)
  <1>1. fresh \in Seq(FreshEntry) /\ stale \in Seq(StaleEntry)
    BY DEF TypeOK, FreshEntry, StaleEntry
  <1>2. e \in FreshEntry /\ d \in StaleEntry
    BY DEF Entry, FreshEntry, StaleEntry
  <1>3. e.key = d.key /\ e.val = d.val
    BY DEF Entry
  <1>4. CacheMax \in Nat \ {0} /\ 2 * CacheMax \in Nat \ {0}
    OBVIOUS
  <1>5. fresh' = PutInPlace(fresh, CacheMax, e) /\ stale' = PutInPlace(stale, 2 * CacheMax, d)
    BY DEF Put
  <1> HIDE DEF e, d
  <1>6. /\ Len(fresh') <= CacheMax /\ Unique(fresh') /\ WithinOr(fresh', fresh, e)
        /\ Len(stale') <= 2 * CacheMax /\ Unique(stale') /\ WithinOr(stale', stale, d)
    BY <1>1, <1>2, <1>4, <1>5, PutInPlaceFacts DEF StoresAgree
  <1>7. /\ \A i \in DOMAIN fresh' : fresh'[i].key = e.key => fresh'[i] = e
        /\ \A j \in DOMAIN stale' : stale'[j].key = d.key => stale'[j] = d
    BY <1>1, <1>2, <1>4, <1>5, PutInPlaceReplaces DEF StoresAgree
  <1>8. ASSUME NEW i \in DOMAIN fresh', NEW j \in DOMAIN stale', fresh'[i].key = stale'[j].key
        PROVE  fresh'[i].val = stale'[j].val
    <2>1. CASE fresh'[i].key = e.key
      BY <1>3, <1>7, <1>8, <2>1
    <2>2. CASE fresh'[i].key # e.key
      BY <1>3, <1>6, <1>8, <2>2 DEF WithinOr, StoresAgree
    <2> QED BY <2>1, <2>2
  <1> QED BY <1>6, <1>8 DEF StoresAgree

(* For every cache size: the fresh and the stale store keep their bounds,  *)
(* hold a key once and never disagree on a key both hold.                  *)
THEOREM StoresCorrect == Spec => []StoresAgree
  <1>1. Init => StoresAgree
    <2> SUFFICES ASSUME Init PROVE StoresAgree
      OBVIOUS
    <2>1. fresh = <<>> /\ stale = <<>>
      BY DEF Init
    <2> QED BY <2>1 DEF StoresAgree, Unique
  <1>2. TypeOK /\ StoresAgree /\ [Next]_vars => StoresAgree'
    <2> SUFFICES ASSUME TypeOK, StoresAgree, [Next]_vars PROVE StoresAgree'
      OBVIOUS
    <2>0. UNCHANGED <<fresh, stale>> => StoresAgree'
      BY DEF StoresAgree
    <2>1. ASSUME NEW r \in Request, NEW k \in Key, NEW s \in BOOLEAN, agentumGuard(r, k, s)
          PROVE  StoresAgree'
      <3>1. fresh \in Seq(FreshEntry) /\ stale' = stale
        BY <2>1 DEF TypeOK, FreshEntry, agentumGuard
      <3>2. Within(fresh', fresh) /\ Len(fresh') <= Len(fresh) /\ Unique(fresh')
            /\ Len(fresh') \in Nat
        BY <2>1, <3>1, AfterGetFacts DEF agentumGuard, Within, StoresAgree
      <3>3. Len(fresh') <= CacheMax
        BY <3>1, <3>2 DEF StoresAgree
      <3> QED BY <3>1, <3>2, <3>3 DEF StoresAgree, Within
    <2>2. ASSUME NEW r \in Request, SimulateAnswers(r)
          PROVE  StoresAgree'
      <3>1. key[r] \in Key /\ policy[key[r]] \in Outcome
        BY DEF TypeOK
      <3> QED BY <2>0, <2>2, <3>1, PutAgrees DEF SimulateAnswers, Conclude
    <2>3. ASSUME NEW r \in Request, NEW b \in BOOLEAN, HookSettles(r, b)
          PROVE  StoresAgree'
      <3>1. key[r] \in Key /\ asked[r] \in Outcome
        BY DEF TypeOK
      <3> QED BY <2>0, <2>3, <3>1, PutAgrees DEF HookSettles, Conclude
    <2>4. CASE Tick
      <3>1. fresh' = Elapse(fresh) /\ stale' = stale
        BY <2>4 DEF Tick
      <3> QED BY <3>1, ElapseFacts DEF StoresAgree, Unique
    <2> QED BY <2>0, <2>1, <2>2, <2>3, <2>4
         DEF Next, Arrive, Settling, SimulateFails, ApprovalSettles, HealthTick, HealthSettles,
             ServerDown, ServerUp, EditPolicy, vars
  <1> QED BY <1>1, <1>2, TypeCorrect, PTL DEF Spec
=============================================================================
