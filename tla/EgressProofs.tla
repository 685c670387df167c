---------------------------- MODULE EgressProofs ----------------------------
(***************************************************************************)
(* The traffic of an agent.  First the egress planes of HttpEgress, for    *)
(* any number of requests under way at once, any workload, answers and     *)
(* configurations.  Then the MCP calls of McpEgress, for any number of     *)
(* jobs under way at once, any workload, endpoints and limits of its maps. *)
(***************************************************************************)
EXTENDS HttpEgress, McpEgress, LruMapProofs, FiniteSetTheorems

Fields == {"pc", "w", "taken", "hdr", "post", "asked", "sends", "todo", "answer", "rulings",
           "wrapped", "unenforced", "out", "heard"}
SendType == [hdr : {"none", "placeholder", "secret"}, marker : BOOLEAN, to : {"proxy", "upstream"}]

(* The part of a request's record that the argument needs the types of. *)
ReqType(q) ==
    /\ q = [f \in Fields |-> q[f]]
    /\ q.taken \in Planes \cup {"none"} /\ (q.taken # "none" => q.w.plane = q.taken /\ q.w \in Workload)
    /\ q.hdr \in {"none", "placeholder", "secret"}
    /\ q.sends \in Seq(SendType) /\ q.todo \in Seq(Planes)

AllAllow(n) == [i \in 1..n |-> "allow"]

(* The request has not left, no call of it was denied, and nobody was told *)
(* anything.                                                               *)
Untold(q) == q.out = "none" /\ q.rulings = {} /\ q.wrapped = {} /\ q.unenforced = {}
Fresh(q) ==
    /\ Untold(q) /\ q.sends = <<>>
    /\ \E n \in 0 .. Len(RequestCalls(q)) : q.asked = AllAllow(n)

(* The request is past the gate for placeholders. *)
Gated(q) ==
    q.taken = "fetch" =>
        /\ ~bodyContainsPlaceholder(q.w)
        /\ q.hdr = "placeholder" => q.w.kind = "proxy" \/ q.w.vault = "request"
        /\ q.hdr = "secret" => q.w.kind # "proxy"

(* The request is at its upstream: at most one plane waits for the answer, *)
(* and it is the one that took the request unless the fetch plane failed.  *)
Dispatched(q) ==
    /\ Untold(q) /\ q.sends # <<>> /\ Len(q.todo) <= 1
    /\ Owned(q) /\ Len(q.sends) = 1 /\ ~GaveUp(q) => q.todo = <<q.taken>>

(* The verdicts are about calls of the answer, one for each. *)
Sound(q) ==
    /\ \A x \in q.rulings : /\ x.at \in AnswerCalls(q) /\ x.verdict \in {"allow", "deny"}
                            /\ x.call = q.answer.blocks[x.at]
    /\ \A x, y \in q.rulings : x.at = y.at => x = y

(* One plane awaits the verdicts on the calls of an answer. *)
Enforcing(q) ==
    /\ q.out = "none" /\ q.sends # <<>> /\ q.wrapped = {} /\ q.unenforced = {}
    /\ Len(q.todo) = 1 /\ (\A x \in q.rulings : x.plane = q.todo[1])
    /\ q.answer \in Answers /\ q.answer.type # "stream" /\ Sound(q)

(* The claims, for one request. *)
Governed(q) == Owned(q) /\ q.sends # <<>> => Cleared(q)

Kept(q) ==
    q.taken = "fetch" =>
        /\ \A i \in DOMAIN q.sends :
              /\ q.sends[i].hdr = "placeholder" => q.w.kind = "proxy" \/ q.w.vault = "request"
              /\ q.sends[i].hdr = "secret" => q.w.kind # "proxy"
        /\ q.w.vault = "body" /\ readRequestBody(q.w) => q.sends = <<>>

Once(q) ==
    /\ \E p \in Planes : q.wrapped \subseteq {p}
    /\ \A x, y \in q.rulings : x.plane = y.plane
    /\ q.out \in {"answer", "stream"} /\ Enforceable(q) /\ q.answer.type = "stream" =>
          q.wrapped \cup q.unenforced # {}

(* What is read out of an answer is what the rewriter visits: the formats  *)
(* that disagree about calls without a name get none.                      *)
NamedCalls ==
    \A w \in Workload, a \in Answers :
        \/ w.shape \in {"openai-chat", "bedrock-converse"} \/ ~Readable(w.shape)
        \/ \A n \in DOMAIN a.blocks : a.blocks[n] # Nameless

(* The answer carries what was allowed, and notices for what was denied. *)
Faithful(q) ==
    /\ \A x \in q.rulings : q.answer.blocks[x.at] = IF x.verdict = "deny" THEN Notice ELSE x.call
    /\ Readable(q.w.shape) =>
          \A n \in DOMAIN q.answer.blocks :
              IsNamed(q.answer.blocks[n]) => \E x \in q.rulings : x.at = n
    /\ (\E x \in q.rulings : x.verdict = "deny") /\ q.answer.reason = "tool" =>
          \E n \in DOMAIN q.answer.blocks : IsCall(q.answer.blocks[n])

ToEnforce(q) == NamedCalls /\ Enforceable(q) /\ q.answer.type = "json"
Honest(q) == q.out = "answer" /\ ToEnforce(q) => Faithful(q)

Early == {"vault", "open", "observe", "eval"}

ReqOK(q) ==
    /\ ReqType(q)
    /\ q.pc \in Early \cup {"idle", "sent", "enforce", "done"}
    /\ q.pc \in Early => Fresh(q)
    /\ q.pc = "vault" => q.taken = "fetch" /\ headersContainPlaceholder(q.w)
    /\ q.pc = "open" => q.taken = "node"
    /\ q.pc \in {"observe", "eval"} => q.taken # "none"
    /\ q.pc = "eval" => NextCall(q)
    /\ q.pc \in {"observe", "eval", "sent", "enforce"} => Gated(q)
    /\ q.pc = "sent" => Dispatched(q)
    /\ q.pc = "enforce" => Enforcing(q)
    /\ Governed(q) /\ Kept(q) /\ Once(q) /\ Honest(q)

EgressInv ==
    /\ conf \in Configs /\ installed \in [Planes -> BOOLEAN]
    /\ req = [r \in Reqs |-> req[r]] /\ \A r \in Reqs : ReqOK(req[r])
-----------------------------------------------------------------------------
(* The planes agree on the claims. *)
LEMMA Claims ==
    EgressInv => CallsGoverned /\ PlaceholderKept /\ OneEnforcer /\ (NamedCalls => AnswerGoverned)
<1> SUFFICES ASSUME EgressInv, NEW r \in Reqs
             PROVE  /\ Governed(req[r]) /\ Kept(req[r]) /\ Once(req[r]) /\ Honest(req[r])
                    /\ Cardinality(req[r].wrapped) <= 1
  BY DEF CallsGoverned, PlaceholderKept, OneEnforcer, AnswerGoverned, Governed, Kept, Once,
         Honest, ToEnforce, Faithful
<1>1. Governed(req[r]) /\ Kept(req[r]) /\ Once(req[r]) /\ Honest(req[r])
  BY DEF EgressInv, ReqOK
<1>2. PICK p \in Planes : req[r].wrapped \subseteq {p}
  BY <1>1 DEF Once
<1>3. IsFiniteSet({p}) /\ Cardinality({p}) = 1
  BY FS_Singleton
<1>4. Cardinality(req[r].wrapped) <= Cardinality({p})
  BY <1>2, <1>3, FS_Subset
<1>5. Cardinality(req[r].wrapped) \in Nat
  BY <1>2, <1>3, FS_Subset, FS_CardinalityType
<1> QED BY <1>1, <1>3, <1>4, <1>5
-----------------------------------------------------------------------------
(* What the operators on a request do to its record. *)
Same(q, t) ==
    /\ t.w = q.w /\ t.taken = q.taken /\ t.asked = q.asked /\ t.rulings = q.rulings
    /\ t.wrapped = q.wrapped /\ t.unenforced = q.unenforced

(* What is read out of a request depends on what it is and who took it. *)
LEMMA Reads ==
    ASSUME NEW q, NEW t, t.w = q.w, t.taken = q.taken
    PROVE  /\ RequestCalls(t) = RequestCalls(q) /\ (Owned(t) <=> Owned(q))
           /\ GaveUp(t) <=> GaveUp(q)
           /\ t.asked = q.asked => (Cleared(t) <=> Cleared(q))
BY DEF RequestCalls, readRequestBody, Owned, rewriteToPdpProxy, GaveUp, Cleared

LEMMA OneMore == \A m, n : n \in Nat /\ m = n + 1 => (m = 1 <=> n = 0)
OBVIOUS

LEMMA CallCount == ASSUME NEW q PROVE Len(RequestCalls(q)) \in Nat
OBVIOUS

(* The caller is told something other than an answer. *)
LEMMA ToldOK ==
    ASSUME NEW q, ReqType(q), Governed(q), Kept(q), Once(q),
           NEW o \in {"threw", "denied", "error"}, NEW t, t = Told(q, o) \/ t = EmitResponse(q, o)
    PROVE  ReqOK(t)
<1>1. /\ Same(q, t) /\ ReqType(t) /\ t.pc = "done" /\ t.out = o /\ t.sends = q.sends
  BY DEF Told, EmitResponse, ReqType, Fields, Same
<1>2. Governed(t)
  BY <1>1, Reads DEF Governed, Same
<1>3. Kept(t) /\ Once(t) /\ Honest(t)
  BY <1>1 DEF Kept, Once, Honest, Same
<1> QED BY <1>1, <1>2, <1>3 DEF ReqOK, Early

(* The caller is given an answer that no plane has to wrap. *)
LEMMA GivenOK ==
    ASSUME NEW q, ReqType(q), Governed(q), Kept(q), Once(q), ~(Enforceable(q) /\ q.answer.type = "stream"),
           ToEnforce(q) => Faithful(q), NEW t, t = Told(q, "answer") \/ t = EmitResponse(q, "answer")
    PROVE  ReqOK(t)
<1>1. /\ Same(q, t) /\ ReqType(t) /\ t.pc = "done" /\ t.sends = q.sends /\ t.answer = q.answer
  BY DEF Told, EmitResponse, ReqType, Fields, Same
<1>2. Governed(t)
  BY <1>1, Reads DEF Governed, Same
<1>3. Kept(t)
  BY <1>1 DEF Kept, Same
<1>4. Enforceable(t) <=> Enforceable(q)
  BY <1>1, Reads DEF Enforceable, Same
<1>5. Once(t)
  BY <1>1, <1>4 DEF Once, Same
<1>6. Honest(t)
  BY <1>1, <1>4 DEF Honest, ToEnforce, Faithful, Same
<1> QED BY <1>1, <1>2, <1>3, <1>5, <1>6 DEF ReqOK, Early

(* The request is forwarded. *)
Rides(q) == q.w.plane = "fetch" /\ installed["undici"]

LEMMA ForwardShape ==
    ASSUME EgressInv, NEW q, ReqType(q), NEW by \in Seq(Planes), NEW stamped, NEW direct,
           NEW t, t = Forward(q, by, stamped, direct)
    PROVE  /\ Same(q, t) /\ ReqType(t) /\ t.pc = "sent" /\ t.out = q.out /\ t.hdr = q.hdr
           /\ t.todo = (IF Rides(q) THEN ridden(q, stamped) ELSE <<>>) \o by
           /\ \E m \in SendType : m.hdr = q.hdr /\ t.sends = Append(q.sends, m)
<1> DEFINE toProxy == q.w.kind = "proxy" \/ (rewriteToPdpProxy(q.w) /\ (Rides(q) \/ ~direct))
           m == [hdr |-> q.hdr, marker |-> stamped /\ ~Rides(q),
                 to |-> IF toProxy THEN "proxy" ELSE "upstream"]
           todo == (IF Rides(q) THEN ridden(q, stamped) ELSE <<>>) \o by
<1>1. t = [q EXCEPT !.pc = "sent", !.todo = todo, !.sends = Append(q.sends, m)]
  BY DEF Forward, Rides, ReqType, Fields
<1>2. Rides(q) \in BOOLEAN
  BY DEF Rides, EgressInv, Planes
<1>3. m \in SendType /\ m.hdr = q.hdr
  BY <1>2 DEF SendType, ReqType
<1>4. todo \in Seq(Planes)
  <2>1. ridden(q, stamped) \in Seq(Planes)
    <3>1. <<"undici">> \in Seq(Planes) /\ <<>> \in Seq(Planes)
      BY DEF Planes
    <3> QED BY <3>1 DEF ridden
  <2> QED BY <1>2, <2>1
<1>5. Append(q.sends, m) \in Seq(SendType)
  BY <1>3 DEF ReqType
<1> HIDE DEF m, todo
<1>6. /\ Same(q, t) /\ t = [f \in Fields |-> t[f]] /\ t.pc = "sent" /\ t.out = q.out /\ t.hdr = q.hdr
      /\ t.todo = todo /\ t.sends = Append(q.sends, m)
  BY <1>1 DEF ReqType, Fields, Same
<1>7. ReqType(t)
  BY <1>4, <1>5, <1>6 DEF ReqType, Same
<1> QED BY <1>3, <1>6, <1>7 DEF todo

LEMMA SentOK ==
    ASSUME EgressInv, NEW q, ReqType(q), Untold(q), Gated(q), Kept(q),
           Owned(q) => Cleared(q),
           NEW by \in Seq(Planes), NEW stamped, NEW direct,
           NEW t, t = Forward(q, by, stamped, direct),
           Len(t.todo) <= 1,
           Owned(q) /\ q.sends = <<>> /\ ~GaveUp(q) => t.todo = <<q.taken>>
    PROVE  ReqOK(t)
<1>1. /\ Same(q, t) /\ ReqType(t) /\ t.pc = "sent" /\ t.out = q.out /\ t.hdr = q.hdr
      /\ \E m \in SendType : m.hdr = q.hdr /\ t.sends = Append(q.sends, m)
  BY ForwardShape
<1>2. PICK m \in SendType : m.hdr = q.hdr /\ t.sends = Append(q.sends, m)
  BY <1>1
<1>3. q.sends \in Seq(SendType)
  BY DEF ReqType
<1>4. /\ t.sends # <<>> /\ Len(t.sends) = Len(q.sends) + 1
      /\ \A i \in DOMAIN t.sends : t.sends[i] = m \/ (i \in DOMAIN q.sends /\ t.sends[i] = q.sends[i])
  BY <1>2, <1>3
<1>5. Untold(t) /\ Gated(t)
  BY <1>1 DEF Same, Untold, Gated
<1>6. Len(t.sends) = 1 => q.sends = <<>>
  <2>1. Len(q.sends) \in Nat /\ (Len(q.sends) = 0 => q.sends = <<>>)
    BY <1>3, EmptySeq
  <2>2. Len(t.sends) = Len(q.sends) + 1
    BY <1>4
  <2> QED BY <2>1, <2>2, OneMore
<1>7. Dispatched(t)
  BY <1>1, <1>4, <1>5, <1>6, Reads DEF Dispatched, Same
<1>8. Governed(t)
  BY <1>1, Reads DEF Governed, Same
<1>9. Kept(t)
  <2>1. CASE q.taken = "fetch"
    <3>1. ~(q.w.vault = "body" /\ readRequestBody(q.w))
      BY <2>1 DEF Gated, bodyContainsPlaceholder
    <3>2. ASSUME NEW i \in DOMAIN t.sends
          PROVE  /\ t.sends[i].hdr = "placeholder" => t.w.kind = "proxy" \/ t.w.vault = "request"
                 /\ t.sends[i].hdr = "secret" => t.w.kind # "proxy"
      BY <1>1, <1>2, <1>4, <2>1 DEF Gated, Kept, Same
    <3> QED BY <1>1, <3>1, <3>2 DEF Kept, Same
  <2>2. CASE q.taken # "fetch"
    BY <1>1, <2>2 DEF Kept, Same
  <2> QED BY <2>1, <2>2
<1>10. Once(t) /\ Honest(t)
  BY <1>1, <1>5 DEF Once, Honest, Untold, Planes
<1> QED BY <1>1, <1>5, <1>7, <1>8, <1>9, <1>10 DEF ReqOK, Early

(* A request that waits for its prompt to be posted or for a verdict. *)
LEMMA HeldOK ==
    ASSUME NEW q, ReqType(q), Fresh(q), Gated(q), q.taken # "none", NEW pc \in {"observe", "eval"},
           pc = "eval" => NextCall(q), NEW t, t = [q EXCEPT !.pc = pc]
    PROVE  ReqOK(t)
<1>1. /\ Same(q, t) /\ ReqType(t) /\ t.pc = pc /\ t.out = q.out /\ t.hdr = q.hdr /\ t.sends = q.sends
  BY DEF ReqType, Fields, Same
<1>2. Fresh(t) /\ Gated(t) /\ (pc = "eval" => NextCall(t))
  BY <1>1, Reads DEF Fresh, Untold, Gated, NextCall, Same
<1>3. Governed(t) /\ Kept(t)
  BY <1>1, <1>2 DEF Governed, Kept, Fresh
<1>4. Once(t) /\ Honest(t)
  BY <1>2 DEF Once, Honest, Fresh, Untold, Planes
<1> QED BY <1>1, <1>2, <1>3, <1>4 DEF ReqOK, Early, Same

(* The declared calls that have been allowed are all of them. *)
LEMMA AllAsked ==
    ASSUME NEW q, Fresh(q), ~extractThrows(q.w), ~NextCall(q)
    PROVE  Cleared(q)
<1>1. PICK n \in 0 .. Len(RequestCalls(q)) : q.asked = AllAllow(n)
  BY DEF Fresh
<1>2. Len(q.asked) = n
  BY <1>1, CallCount DEF AllAllow
<1>3. n = Len(RequestCalls(q))
  BY <1>2, CallCount DEF NextCall
<1> QED BY <1>1, <1>3 DEF Cleared, AllAllow

LEMMA FreshClaims ==
    ASSUME NEW q, Fresh(q) PROVE Untold(q) /\ Governed(q) /\ Kept(q) /\ Once(q) /\ Honest(q)
<1>1. Untold(q) /\ q.sends = <<>>
  BY DEF Fresh
<1>2. Governed(q)
  BY <1>1 DEF Governed
<1>3. Kept(q)
  BY <1>1 DEF Kept
<1>4. Once(q) /\ Honest(q)
  BY <1>1 DEF Once, Honest, Untold, Planes
<1> QED BY <1>1, <1>2, <1>3, <1>4

(* What no plane has to enforce, or no longer has, is handed on. *)
LEMMA PassOK ==
    ASSUME EgressInv, NEW q, ReqType(q), Untold(q), Gated(q), Kept(q),
           Owned(q) => (q.sends # <<>> \/ GaveUp(q)) /\ Cleared(q),
           NEW t, t = passThrough(q)
    PROVE  ReqOK(t)
<1>1. t = Forward(q, <<>>, FALSE, TRUE)
  BY DEF passThrough
<1>2. t.todo = (IF Rides(q) THEN ridden(q, FALSE) ELSE <<>>) \o <<>>
  BY <1>1 DEF Forward, Rides, ReqType, Fields
<1>3. t.todo = <<>> \o <<>> \/ t.todo = <<"undici">> \o <<>>
  <2>1. ridden(q, FALSE) = <<>> \/ ridden(q, FALSE) = <<"undici">>
    BY DEF ridden
  <2>2. CASE Rides(q)
    BY <1>2, <2>1, <2>2
  <2>3. CASE ~Rides(q)
    BY <1>2, <2>3
  <2> QED BY <2>2, <2>3
<1>4. Len(t.todo) <= 1
  <2>1. <<>> \o <<>> = <<>> /\ <<"undici">> \o <<>> = <<"undici">>
    OBVIOUS
  <2>2. Len(<<>>) <= 1 /\ Len(<<"undici">>) <= 1
    OBVIOUS
  <2> QED BY <1>3, <2>1, <2>2
<1>5. <<>> \in Seq(Planes)
  OBVIOUS
<1> QED BY <1>1, <1>4, <1>5, SentOK

(* The dispatcher forwards, and waits for the answer. *)
LEMMA DispatchedOK ==
    ASSUME EgressInv, NEW q, ReqType(q), Fresh(q), Gated(q), q.taken = "undici", Cleared(q),
           NEW t, t = Forward(q, <<"undici">>, FALSE, TRUE)
    PROVE  ReqOK(t)
<1>1. Untold(q) /\ q.sends = <<>> /\ Kept(q)
  BY DEF Fresh, Kept
<1>2. <<"undici">> \in Seq(Planes)
  BY DEF Planes
<1>3. ~Rides(q)
  BY DEF ReqType, Rides
<1>4. t.todo = (IF Rides(q) THEN ridden(q, FALSE) ELSE <<>>) \o <<"undici">>
  BY DEF Forward, Rides, ReqType, Fields
<1>5. t.todo = <<"undici">> /\ Len(t.todo) <= 1
  <2>1. t.todo = <<>> \o <<"undici">>
    BY <1>3, <1>4
  <2>2. <<>> \o <<"undici">> = <<"undici">> /\ Len(<<"undici">>) <= 1
    OBVIOUS
  <2> QED BY <2>1, <2>2
<1> QED BY <1>1, <1>2, <1>5, SentOK

(* The calls of a held request cannot be read. *)
LEMMA ThrowsOK ==
    ASSUME EgressInv, NEW q, ReqType(q), Fresh(q), Gated(q), q.taken # "none", extractThrows(q.w),
           NEW t, t = PreflightThrows(q)
    PROVE  ReqOK(t)
<1>1. Untold(q) /\ Governed(q) /\ Kept(q) /\ Once(q)
  BY FreshClaims
<1>2. CASE q.taken = "fetch" /\ conf.failMode = "deny"
  <2>1. t = Told(q, "denied")
    BY <1>2 DEF PreflightThrows, fetchInternalError, shortCircuitDeny
  <2> QED BY <1>1, <2>1, ToldOK
<1>3. CASE q.taken = "fetch" /\ conf.failMode # "deny"
  <2> DEFINE p == [q EXCEPT !.rulings = {}]
  <2>1. t = passThrough(p)
    BY <1>3 DEF PreflightThrows, fetchInternalError
  <2>2. /\ ReqType(p) /\ p.w = q.w /\ p.taken = q.taken /\ p.asked = q.asked /\ p.rulings = {}
        /\ p.sends = q.sends /\ p.hdr = q.hdr /\ p.out = q.out
        /\ p.wrapped = q.wrapped /\ p.unenforced = q.unenforced
    BY DEF ReqType, Fields
  <2> HIDE DEF p
  <2>3. Untold(p) /\ Gated(p) /\ Kept(p)
    BY <1>1, <2>2 DEF Untold, Gated, Kept
  <2>4. conf.failMode = "allow"
    BY <1>3, EgressAssumption DEF EgressInv
  <2>5. GaveUp(p) /\ Cleared(p)
    BY <1>3, <2>2, <2>4 DEF GaveUp, Cleared
  <2> QED BY <2>1, <2>2, <2>3, <2>5, PassOK
<1>4. CASE q.taken = "node"
  <2>1. t = Told(q, "error")
    BY <1>4 DEF PreflightThrows, dispatchError
  <2> QED BY <1>1, <2>1, ToldOK
<1>5. CASE q.taken = "undici"
  <2>1. t = Forward(q, <<"undici">>, FALSE, TRUE)
    BY <1>5 DEF PreflightThrows, runPreflight, consumePlaneMarker
  <2>2. Cleared(q)
    BY <1>5 DEF Cleared
  <2> QED BY <1>5, <2>1, <2>2, DispatchedOK
<1> QED BY <1>2, <1>3, <1>4, <1>5 DEF ReqType, Planes

(* A held request is evaluated further, or sent. *)
LEMMA PreflightOK ==
    ASSUME EgressInv, NEW q, ReqType(q), Fresh(q), Gated(q), q.taken # "none", NEW t, t = Preflight(q)
    PROVE  ReqOK(t)
<1>0. CASE extractThrows(q.w)
  <2>1. t = PreflightThrows(q)
    BY <1>0 DEF Preflight
  <2> QED BY <1>0, <2>1, ThrowsOK
<1>1. CASE ~extractThrows(q.w) /\ NextCall(q)
  <2>1. t = [q EXCEPT !.pc = "eval"]
    BY <1>1 DEF Preflight
  <2> QED BY <1>1, <2>1, HeldOK
<1>2. CASE ~extractThrows(q.w) /\ ~NextCall(q)
  <2>1. Cleared(q)
    BY <1>2, AllAsked
  <2>2. Untold(q) /\ q.sends = <<>> /\ Kept(q)
    BY DEF Fresh, Kept
  <2>3. <<"fetch">> \in Seq(Planes) /\ <<"node">> \in Seq(Planes) /\ <<"undici">> \in Seq(Planes)
    BY DEF Planes
  <2>4. CASE q.taken = "fetch"
    <3>1. t = Forward(q, <<"fetch">>, TRUE, TRUE)
      BY <1>2, <2>4 DEF Preflight, stampPlaneMarker
    <3>2. ridden(q, TRUE) = <<>>
      BY DEF ridden, consumePlaneMarker
    <3>3. t.todo = (IF Rides(q) THEN ridden(q, TRUE) ELSE <<>>) \o <<"fetch">>
      BY <3>1 DEF Forward, Rides, ReqType, Fields
    <3>4. t.todo = <<>> \o <<"fetch">>
      BY <3>2, <3>3
    <3>5. t.todo = <<"fetch">> /\ Len(t.todo) <= 1
      BY <3>4
    <3> QED BY <2>1, <2>2, <2>3, <2>4, <3>1, <3>5, SentOK
  <2>5. CASE q.taken = "node"
    <3>1. t = Forward(q, <<"node">>, FALSE, TRUE)
      BY <1>2, <2>5 DEF Preflight, forwardUpstream
    <3>2. ~Rides(q)
      BY <2>5 DEF ReqType, Rides
    <3>3. t.todo = (IF Rides(q) THEN ridden(q, FALSE) ELSE <<>>) \o <<"node">>
      BY <3>1 DEF Forward, Rides, ReqType, Fields
    <3>4. t.todo = <<"node">> /\ Len(t.todo) <= 1
      BY <3>2, <3>3
    <3> QED BY <2>1, <2>2, <2>3, <2>5, <3>1, <3>4, SentOK
  <2>6. CASE q.taken = "undici"
    <3>1. t = Forward(q, <<"undici">>, FALSE, TRUE)
      BY <1>2, <2>6 DEF Preflight, runPreflight, consumePlaneMarker
    <3> QED BY <2>1, <2>6, <3>1, DispatchedOK
  <2> QED BY <2>4, <2>5, <2>6 DEF ReqType, Planes
<1> QED BY <1>0, <1>1, <1>2

LEMMA ObserveOK ==
    ASSUME EgressInv, NEW q, ReqType(q), Fresh(q), Gated(q), q.taken # "none", NEW maskFails,
           NEW t, t = Observe(q, maskFails)
    PROVE  ReqOK(t)
<1> DEFINE posts == /\ resolveMode # "off" /\ readRequestBody(q.w)
                    /\ maskObserveContent(resolveMode, maskFails)
           x == IF posts THEN [mode |-> resolveMode, posts |-> 1, state |-> "flight"] ELSE NoPost
           p == [q EXCEPT !.post = x]
<1>1. t = [p EXCEPT !.pc = "observe"] \/ t = Preflight(p)
  BY DEF Observe
<1> HIDE DEF x
<1>2. /\ ReqType(p) /\ p.w = q.w /\ p.taken = q.taken /\ p.asked = q.asked /\ p.sends = q.sends
      /\ p.hdr = q.hdr /\ p.out = q.out /\ p.rulings = q.rulings /\ p.wrapped = q.wrapped
      /\ p.unenforced = q.unenforced
  BY DEF ReqType, Fields
<1> HIDE DEF p
<1>3. Fresh(p) /\ Gated(p) /\ p.taken # "none"
  BY <1>2, Reads DEF Fresh, Untold, Gated
<1> QED BY <1>1, <1>2, <1>3, HeldOK, PreflightOK

(* The fetch plane, once the placeholders of the headers are dealt with. *)
HeadersClean(q) ==
    /\ q.hdr = "placeholder" => q.w.kind = "proxy" \/ q.w.vault = "request"
    /\ q.hdr = "secret" => q.w.kind # "proxy"

LEMMA FetchGateOK ==
    ASSUME EgressInv, NEW q, ReqType(q), Fresh(q), q.taken = "fetch", HeadersClean(q), NEW maskFails,
           NEW t, t = FetchGate(q, maskFails)
    PROVE  ReqOK(t)
<1>1. Untold(q) /\ Governed(q) /\ Kept(q) /\ Once(q)
  BY FreshClaims
<1>2. CASE bodyContainsPlaceholder(q.w)
  <2>1. t = Told(q, "threw")
    BY <1>2 DEF FetchGate
  <2> QED BY <1>1, <2>1, ToldOK
<1>3. CASE ~bodyContainsPlaceholder(q.w)
  <2>1. Gated(q)
    BY <1>3 DEF Gated, HeadersClean
  <2>2. CASE q.w.kind = "llm"
    <3>1. t = Observe(q, maskFails)
      BY <1>3, <2>2 DEF FetchGate, intercept
    <3> QED BY <2>1, <3>1, ObserveOK
  <2>3. CASE q.w.kind # "llm"
    <3>1. t = passThrough(q) /\ ~Owned(q)
      BY <1>3, <2>3 DEF FetchGate, Owned
    <3> QED BY <1>1, <2>1, <3>1, PassOK
  <2> QED BY <2>2, <2>3
<1> QED BY <1>2, <1>3
-----------------------------------------------------------------------------
(* The steps of a request, one by one: what a step makes of it is right. *)
LEMMA HeldEarlyOK ==
    ASSUME NEW q, ReqType(q), Fresh(q), NEW pc \in {"vault", "open"},
           pc = "vault" => q.taken = "fetch" /\ headersContainPlaceholder(q.w),
           pc = "open" => q.taken = "node", NEW t, t = [q EXCEPT !.pc = pc]
    PROVE  ReqOK(t)
<1>1. /\ Same(q, t) /\ ReqType(t) /\ t.pc = pc /\ t.out = q.out /\ t.sends = q.sends
  BY DEF ReqType, Fields, Same
<1>2. Fresh(t)
  BY <1>1, Reads DEF Fresh, Untold, Same
<1>3. Governed(t) /\ Kept(t) /\ Once(t) /\ Honest(t)
  BY <1>2, FreshClaims
<1> QED BY <1>1, <1>2, <1>3 DEF ReqOK, Early, Same

LEMMA SecretOK ==
    ASSUME NEW q, ReqType(q), Fresh(q), headersContainPlaceholder(q.w), NEW t, t = [q EXCEPT !.hdr = "secret"]
    PROVE  ReqType(t) /\ Fresh(t) /\ HeadersClean(t) /\ t.taken = q.taken
<1>1. /\ Same(q, t) /\ ReqType(t) /\ t.hdr = "secret" /\ t.out = q.out /\ t.sends = q.sends
  BY DEF ReqType, Fields, Same
<1>2. Fresh(t)
  BY <1>1, Reads DEF Fresh, Untold, Same
<1> QED BY <1>1, <1>2 DEF HeadersClean, headersContainPlaceholder, Same

LEMMA PatchedFetchOK ==
    ASSUME EgressInv, NEW q, ReqType(q), Fresh(q), q.taken = "fetch",
           q.hdr = IF q.w.vault \in {"init", "request"} THEN "placeholder" ELSE "none",
           NEW maskFails, NEW t, t = patchedFetch(q, maskFails)
    PROVE  ReqOK(t)
<1>1. CASE ~headersContainPlaceholder(q.w)
  <2>1. t = FetchGate(q, maskFails)
    BY <1>1 DEF patchedFetch
  <2>2. HeadersClean(q)
    BY <1>1 DEF HeadersClean, headersContainPlaceholder
  <2> QED BY <2>1, <2>2, FetchGateOK
<1>2. CASE headersContainPlaceholder(q.w) /\ cached
  <2> DEFINE p == [q EXCEPT !.hdr = "secret"]
  <2>1. t = FetchGate(p, maskFails)
    BY <1>2 DEF patchedFetch
  <2>2. ReqType(p) /\ Fresh(p) /\ HeadersClean(p) /\ p.taken = "fetch"
    BY <1>2, SecretOK
  <2> HIDE DEF p
  <2> QED BY <2>1, <2>2, FetchGateOK
<1>3. CASE headersContainPlaceholder(q.w) /\ ~cached
  <2>1. t = [q EXCEPT !.pc = "vault"]
    BY <1>3 DEF patchedFetch
  <2> QED BY <1>3, <2>1, HeldEarlyOK
<1> QED BY <1>1, <1>2, <1>3

LEMMA PatchedRequestOK ==
    ASSUME EgressInv, NEW q, ReqType(q), Fresh(q), q.taken = "node", NEW t, t = makePatchedRequest(q)
    PROVE  ReqOK(t)
<1>1. CASE q.w.kind = "llm"
  <2>1. t = [q EXCEPT !.pc = "open"]
    BY <1>1 DEF makePatchedRequest
  <2> QED BY <2>1, HeldEarlyOK
<1>2. CASE q.w.kind # "llm"
  <2>1. t = passThrough(q) /\ ~Owned(q) /\ Gated(q)
    BY <1>2 DEF makePatchedRequest, Owned, Gated
  <2> QED BY <2>1, FreshClaims, PassOK
<1> QED BY <1>1, <1>2

LEMMA PatchedDispatchOK ==
    ASSUME EgressInv, NEW q, ReqType(q), Fresh(q), q.taken = "undici", NEW t, t = patchedDispatch(q)
    PROVE  ReqOK(t)
<1>1. Gated(q)
  BY DEF Gated
<1>2. CASE q.w.kind = "llm" /\ ~rewriteToPdpProxy(q.w)
  <2>1. t = Preflight(q)
    BY <1>2 DEF patchedDispatch, Preflight, PreflightThrows, runPreflight
  <2> QED BY <1>1, <2>1, PreflightOK
<1>3. CASE ~(q.w.kind = "llm" /\ ~rewriteToPdpProxy(q.w))
  <2>1. t = Forward(q, <<>>, FALSE, FALSE)
    BY <1>3 DEF patchedDispatch
  <2>2. ~Rides(q) /\ ~Owned(q)
    BY <1>3 DEF ReqType, Rides, Owned
  <2>3. t.todo = (IF Rides(q) THEN ridden(q, FALSE) ELSE <<>>) \o <<>>
    BY <2>1 DEF Forward, Rides, ReqType, Fields
  <2>4. Len(t.todo) <= 1
    <3>1. t.todo = <<>> \o <<>>
      BY <2>2, <2>3
    <3>2. <<>> \o <<>> = <<>> /\ Len(<<>>) <= 1
      OBVIOUS
    <3> QED BY <3>1, <3>2
  <2>5. <<>> \in Seq(Planes)
    OBVIOUS
  <2> QED BY <1>1, <2>1, <2>2, <2>4, <2>5, FreshClaims, SentOK
<1> QED BY <1>2, <1>3

LEMMA IssueOK ==
    ASSUME EgressInv, NEW w \in Workload, NEW maskFails, NEW q,
           q = [Idle EXCEPT !.w = w, !.taken = IF installed[w.plane] THEN w.plane ELSE "none",
                            !.hdr = IF w.vault \in {"init", "request"} THEN "placeholder" ELSE "none"],
           NEW t, t = CASE q.taken = "none"  -> passThrough(q)
                        [] q.taken = "fetch" -> patchedFetch(q, maskFails)
                        [] q.taken = "node"  -> makePatchedRequest(q)
                        [] OTHER             -> patchedDispatch(q)
    PROVE  ReqOK(t)
<1>1. w.plane \in Planes
  BY EgressAssumption
<1>2. q.w = w /\ q.taken \in {w.plane, "none"}
  BY DEF Idle
<1>3. q.hdr = IF q.w.vault \in {"init", "request"} THEN "placeholder" ELSE "none"
  BY DEF Idle
<1>4. q = [f \in Fields |-> q[f]] /\ q.sends = <<>> /\ q.todo = <<>> /\ Untold(q) /\ q.asked = <<>>
  BY DEF Idle, Fields, Untold
<1>5. ReqType(q)
  <2>1. q.taken \in Planes \cup {"none"} /\ (q.taken # "none" => q.w.plane = q.taken /\ q.w \in Workload)
    BY <1>1, <1>2
  <2>2. q.hdr \in {"none", "placeholder", "secret"}
    BY <1>3
  <2>3. <<>> \in Seq(SendType) /\ <<>> \in Seq(Planes)
    OBVIOUS
  <2>4. q.sends \in Seq(SendType) /\ q.todo \in Seq(Planes)
    BY <1>4, <2>3
  <2> QED BY <1>4, <2>1, <2>2, <2>4 DEF ReqType
<1>6. Fresh(q)
  <2>1. <<>> = AllAllow(0)
    BY DEF AllAllow
  <2>2. 0 \in 0 .. Len(RequestCalls(q))
    BY CallCount
  <2> QED BY <1>4, <2>1, <2>2 DEF Fresh
<1>7. CASE q.taken = "none"
  <2>1. t = passThrough(q) /\ ~Owned(q) /\ Gated(q)
    BY <1>7 DEF Owned, Gated
  <2> QED BY <1>5, <1>6, <2>1, FreshClaims, PassOK
<1>8. CASE q.taken = "fetch"
  <2>1. t = patchedFetch(q, maskFails)
    BY <1>8
  <2> QED BY <1>3, <1>5, <1>6, <1>8, <2>1, PatchedFetchOK
<1>9. CASE q.taken = "node"
  <2>1. t = makePatchedRequest(q)
    BY <1>9
  <2> QED BY <1>5, <1>6, <1>9, <2>1, PatchedRequestOK
<1>10. CASE q.taken = "undici"
  <2>1. t = patchedDispatch(q)
    BY <1>10
  <2> QED BY <1>5, <1>6, <1>10, <2>1, PatchedDispatchOK
<1> QED BY <1>1, <1>2, <1>7, <1>8, <1>9, <1>10 DEF Planes

(* The vault answered, or did not. *)
LEMMA VaultOK ==
    ASSUME EgressInv, NEW q, ReqOK(q), q.pc = "vault", NEW maskFails,
           NEW t, t = FetchGate([q EXCEPT !.hdr = "secret"], maskFails) \/ t = Told(q, "threw")
    PROVE  ReqOK(t)
<1> DEFINE p == [q EXCEPT !.hdr = "secret"]
<1>1. ReqType(q) /\ Fresh(q) /\ q.taken = "fetch" /\ headersContainPlaceholder(q.w)
  BY DEF ReqOK, Early
<1>2. ReqType(p) /\ Fresh(p) /\ HeadersClean(p) /\ p.taken = "fetch"
  BY <1>1, SecretOK
<1> HIDE DEF p
<1>3. CASE t = FetchGate(p, maskFails)
  BY <1>2, <1>3, FetchGateOK
<1>4. CASE t = Told(q, "threw")
  BY <1>1, <1>4, FreshClaims, ToldOK
<1> QED BY <1>3, <1>4 DEF p

(* Where the posting of the prompt is matters to nothing else. *)
LEMMA PostIsApart ==
    ASSUME NEW q, ReqOK(q), NEW x, NEW t, t = [q EXCEPT !.post = x]
    PROVE  ReqOK(t) /\ t.pc = q.pc
<1>1. /\ Same(q, t) /\ ReqType(t) /\ t.pc = q.pc /\ t.out = q.out /\ t.hdr = q.hdr /\ t.sends = q.sends
      /\ t.todo = q.todo /\ t.answer = q.answer
  BY DEF ReqOK, ReqType, Fields, Same
<1>2. /\ RequestCalls(t) = RequestCalls(q) /\ (Owned(t) <=> Owned(q)) /\ (GaveUp(t) <=> GaveUp(q))
      /\ (Cleared(t) <=> Cleared(q)) /\ (Enforceable(t) <=> Enforceable(q))
  BY <1>1, Reads DEF Enforceable, Same
<1>3. (Fresh(t) <=> Fresh(q)) /\ (NextCall(t) <=> NextCall(q)) /\ (Gated(t) <=> Gated(q))
  BY <1>1, <1>2 DEF Fresh, Untold, NextCall, Gated, Same
<1>4. (Dispatched(t) <=> Dispatched(q)) /\ (Enforcing(t) <=> Enforcing(q))
  BY <1>1, <1>2 DEF Dispatched, Untold, Enforcing, Sound, AnswerCalls, Same
<1>5. (Governed(t) <=> Governed(q)) /\ (Kept(t) <=> Kept(q)) /\ (Once(t) <=> Once(q))
  BY <1>1, <1>2 DEF Governed, Kept, Once, Same
<1>6. Honest(t) <=> Honest(q)
  BY <1>1, <1>2 DEF Honest, ToEnforce, Faithful, Same
<1> QED BY <1>1, <1>3, <1>4, <1>5, <1>6 DEF ReqOK, Same

LEMMA PostedOK ==
    ASSUME EgressInv, NEW q, ReqOK(q), NEW fails, NEW t, t = Posted(q, fails)
    PROVE  ReqOK(t)
<1> DEFINE more == [q.post EXCEPT !.posts = @ + 1]
           over == [q.post EXCEPT !.state = "over"]
           done == [q EXCEPT !.post = over]
<1>1. t = [q EXCEPT !.post = more] \/ (q.pc = "observe" /\ t = Preflight(done)) \/ t = done
  BY DEF Posted
<1> HIDE DEF more, over
<1>2. CASE t = [q EXCEPT !.post = more]
  BY <1>2, PostIsApart
<1>3. ReqOK(done) /\ done.pc = q.pc
  BY PostIsApart
<1> HIDE DEF done
<1>4. CASE q.pc = "observe" /\ t = Preflight(done)
  <2>1. ReqType(done) /\ Fresh(done) /\ Gated(done) /\ done.taken # "none"
    BY <1>3, <1>4 DEF ReqOK, Early
  <2> QED BY <1>4, <2>1, PreflightOK
<1> QED BY <1>1, <1>2, <1>3, <1>4

(* One of the calls that a request repeats is ruled on. *)
LEMMA Ruling == ASSUME EgressInv, NEW v \in Verdicts PROVE Ruled(v) \in {"allow", "deny"}
BY EgressAssumption DEF Ruled, Verdicts, EgressInv

LEMMA OneMoreAllowed == ASSUME NEW n \in Nat PROVE Append(AllAllow(n), "allow") = AllAllow(n + 1)
BY DEF AllAllow

LEMMA VerdictOK ==
    ASSUME EgressInv, NEW q, ReqOK(q), q.pc = "eval", NEW v \in Verdicts,
           NEW p, p = [q EXCEPT !.asked = Append(@, Ruled(v))],
           NEW t, t = IF Ruled(v) = "deny" THEN Deny(p) ELSE Preflight(p)
    PROVE  ReqOK(t)
<1>1. ReqType(q) /\ Fresh(q) /\ Gated(q) /\ NextCall(q) /\ q.taken # "none"
  BY DEF ReqOK, Early
<1>2. /\ ReqType(p) /\ p.w = q.w /\ p.taken = q.taken /\ p.asked = Append(q.asked, Ruled(v))
      /\ p.sends = q.sends /\ p.hdr = q.hdr /\ p.out = q.out /\ p.rulings = q.rulings
      /\ p.wrapped = q.wrapped /\ p.unenforced = q.unenforced
  BY <1>1 DEF ReqType, Fields
<1>3. Untold(p) /\ p.sends = <<>> /\ Gated(p)
  BY <1>1, <1>2 DEF Fresh, Untold, Gated
<1>4. CASE Ruled(v) = "deny"
  <2>1. Governed(p) /\ Kept(p)
    BY <1>3 DEF Governed, Kept
  <2>2. Once(p)
    BY <1>3 DEF Once, Untold, Planes
  <2>3. t = Told(p, "denied") \/ t = EmitResponse(p, "denied")
    BY <1>4 DEF Deny, shortCircuitDeny, emitSyntheticDeny, synthesizeDeny
  <2> QED BY <1>2, <2>1, <2>2, <2>3, ToldOK
<1>5. CASE Ruled(v) # "deny"
  <2>1. Ruled(v) = "allow"
    BY <1>5, Ruling
  <2>2. PICK n \in 0 .. Len(RequestCalls(q)) : q.asked = AllAllow(n)
    BY <1>1 DEF Fresh
  <2>3. n \in Nat /\ Len(AllAllow(n)) = n
    BY <2>2, CallCount DEF AllAllow
  <2>4. n + 1 \in 0 .. Len(RequestCalls(q))
    BY <1>1, <2>2, <2>3, CallCount DEF NextCall
  <2>5. p.asked = AllAllow(n + 1)
    BY <1>2, <2>1, <2>2, <2>3, OneMoreAllowed
  <2>6. Fresh(p)
    BY <1>2, <1>3, <2>4, <2>5, Reads DEF Fresh
  <2>7. t = Preflight(p)
    BY <1>5
  <2> QED BY <1>1, <1>2, <1>3, <2>6, <2>7, PreflightOK
<1> QED BY <1>4, <1>5
-----------------------------------------------------------------------------
(* The answer. *)

(* A request at its upstream or under enforcement, whatever the answer. *)
Out(q) ==
    /\ ReqType(q) /\ Gated(q) /\ Governed(q) /\ Kept(q)
    /\ q.out = "none" /\ q.sends # <<>> /\ q.wrapped = {} /\ q.unenforced = {}
    /\ \A x, y \in q.rulings : x.plane = y.plane

LEMMA OutOnce == ASSUME NEW q, Out(q) PROVE Once(q)
BY DEF Out, Once, Planes

(* The fetch plane gives up on enforcing: it denies, or sends again. *)
LEMMA InternalErrorOK ==
    ASSUME EgressInv, NEW q, Out(q), NEW t, t = fetchInternalError(q)
    PROVE  ReqOK(t)
<1>1. CASE conf.failMode = "deny"
  <2>1. t = Told(q, "denied")
    BY <1>1 DEF fetchInternalError, shortCircuitDeny
  <2> QED BY <2>1, OutOnce, ToldOK DEF Out
<1>2. CASE conf.failMode # "deny"
  <2> DEFINE p == [q EXCEPT !.rulings = {}]
  <2>1. t = passThrough(p)
    BY <1>2 DEF fetchInternalError
  <2>2. /\ ReqType(p) /\ p.w = q.w /\ p.taken = q.taken /\ p.asked = q.asked /\ p.rulings = {}
        /\ p.sends = q.sends /\ p.hdr = q.hdr /\ p.out = q.out
        /\ p.wrapped = q.wrapped /\ p.unenforced = q.unenforced
    BY DEF Out, ReqType, Fields
  <2> HIDE DEF p
  <2>3. Untold(p) /\ Gated(p) /\ Kept(p)
    BY <2>2 DEF Out, Untold, Gated, Kept
  <2>4. Owned(p) => p.sends # <<>> /\ Cleared(p)
    BY <2>2, Reads DEF Out, Governed
  <2> QED BY <2>1, <2>2, <2>3, <2>4, PassOK
<1> QED BY <1>1, <1>2

LEMMA FaultOK ==
    ASSUME EgressInv, NEW q, Out(q), q.answer.type # "stream", ~ToEnforce(q), NEW p, NEW t, t = Fault(p, q)
    PROVE  ReqOK(t)
<1>1. t = fetchInternalError(q) \/ t = Told(q, "answer") \/ t = EmitResponse(q, "answer")
  BY DEF Fault, jsonWrapError, jsonEnforceError
<1>2. CASE t = fetchInternalError(q)
  BY <1>2, InternalErrorOK
<1>3. CASE t = Told(q, "answer") \/ t = EmitResponse(q, "answer")
  BY <1>3, OutOnce, GivenOK DEF Out
<1> QED BY <1>1, <1>2, <1>3

(* The planes hand the answer on: none of them had to wrap it. *)
LEMMA HandedOnOK ==
    ASSUME EgressInv, NEW q, Out(q), ~(Enforceable(q) /\ q.answer.type = "stream"),
           ToEnforce(q) => Faithful(q), NEW t, t = Deliver(q, "answer")
    PROVE  ReqOK(t)
<1>1. t = Told(q, "answer") \/ t = EmitResponse(q, "answer")
  BY DEF Deliver
<1> QED BY <1>1, OutOnce, GivenOK DEF Out

(* A stream goes to the caller, wrapped by the plane that waited for it. *)
Streamed(q, ws, us) == [Deliver(q, "stream") EXCEPT !.wrapped = ws, !.unenforced = us]

LEMMA StreamOK ==
    ASSUME NEW q, Out(q), NEW p \in Planes, NEW ws, NEW us, ws \subseteq {p}, ws \cup us # {},
           NEW t, t = Streamed(q, ws, us)
    PROVE  ReqOK(t)
<1> DEFINE d == Deliver(q, "stream")
<1>1. /\ Same(q, d) /\ ReqType(d) /\ d.pc = "done" /\ d.sends = q.sends /\ d.out = "stream"
  BY DEF Deliver, Told, EmitResponse, Out, ReqType, Fields, Same
<1>2. t = [d EXCEPT !.wrapped = ws, !.unenforced = us]
  BY DEF Streamed
<1> HIDE DEF d
<1>3. /\ ReqType(t) /\ t.w = q.w /\ t.taken = q.taken /\ t.asked = q.asked /\ t.rulings = q.rulings
      /\ t.pc = "done" /\ t.sends = q.sends /\ t.wrapped = ws /\ t.unenforced = us
  BY <1>1, <1>2 DEF ReqType, Fields, Same
<1>4. Governed(t)
  BY <1>3, Reads DEF Out, Governed
<1>5. Kept(t)
  BY <1>3 DEF Out, Kept
<1>6. Once(t)
  BY <1>3 DEF Out, Once
<1>7. Honest(t)
  <2>1. t.out = "stream"
    BY <1>1, <1>2 DEF ReqType, Fields
  <2> QED BY <2>1 DEF Honest
<1> QED BY <1>3, <1>4, <1>5, <1>6, <1>7 DEF ReqOK, Early

(* What a plane makes of a stream it should enforce. *)
LEMMA HandlingStream ==
    ASSUME NEW q, NEW p, q.answer \in Answers, q.answer.type = "stream"
    PROVE  /\ Handling(p, q) \in {"pass", "stream", "unenforced"}
           /\ Handling(p, q) = "pass" => ~Enforceable(q)
<1>1. q.answer.ok \in BOOLEAN /\ q.answer.gateway \in BOOLEAN
  BY EgressAssumption
<1>2. wrapStreamingResponse(q) \in {"stream", "unenforced"}
  BY DEF wrapStreamingResponse
<1>3. CASE p = "fetch"
  BY <1>1, <1>2, <1>3 DEF Handling, interceptAnswer, Enforceable
<1>4. CASE p = "node"
  BY <1>1, <1>4 DEF Handling, facadeAnswer, Enforceable
<1>5. CASE p # "fetch" /\ p # "node"
  BY <1>1, <1>5 DEF Handling, wrapResponseHandler, Enforceable
<1> QED BY <1>3, <1>4, <1>5

(* What a plane makes of a JSON answer it should enforce: it lets it pass  *)
(* only without a call, and fails on JSON's null alone.                    *)
LEMMA HandlingJson ==
    ASSUME NEW q, NEW p, q.answer \in Answers
    PROVE  /\ Handling(p, q) = "fault" => q.answer.type # "json"
           /\ Handling(p, q) = "pass" /\ Enforceable(q) /\ q.answer.type = "json" => AnswerCalls(q) = {}
<1>1. q.answer.ok \in BOOLEAN /\ q.answer.gateway \in BOOLEAN
  BY EgressAssumption
<1>2. CASE p = "fetch"
  BY <1>1, <1>2 DEF Handling, interceptAnswer, wrapNonStreamingResponse, wrapStreamingResponse, Enforceable
<1>3. CASE p = "node"
  BY <1>1, <1>3 DEF Handling, facadeAnswer, wrapJsonResponse, Enforceable
<1>4. CASE p # "fetch" /\ p # "node"
  BY <1>1, <1>4 DEF Handling, wrapResponseHandler, enforceNonStreamingBody, Enforceable
<1> QED BY <1>2, <1>3, <1>4

LEMMA JustOne ==
    ASSUME NEW s \in Seq(Planes), Len(s) <= 1, s # <<>>
    PROVE  DOMAIN s = {1} /\ s[1] \in Planes /\ Len(s) = 1
<1>1. Len(s) \in Nat /\ Len(s) # 0 /\ DOMAIN s = 1 .. Len(s)
  BY EmptySeq
<1>2. Len(s) = 1
  BY <1>1
<1> QED BY <1>1, <1>2

LEMMA EnforceOK ==
    ASSUME EgressInv, NEW q, Out(q), q.answer \in Answers, q.rulings = {}, Len(q.todo) <= 1,
           Owned(q) /\ Len(q.sends) = 1 /\ ~GaveUp(q) => q.todo = <<q.taken>>,
           NEW t, t = Enforce(q)
    PROVE  ReqOK(t)
<1> DEFINE at(h) == {i \in DOMAIN q.todo : Handling(q.todo[i], q) = h}
           next  == DOMAIN q.todo \ at("pass")
           first == CHOOSE i \in next : \A j \in next : i <= j
<1>0. q.todo \in Seq(Planes)
  BY DEF Out, ReqType
<1>1. CASE q.todo = <<>>
  <2>1. next = {}
    BY <1>1
  <2>2. t = Deliver(q, "answer")
    BY <2>1 DEF Enforce
  <2>3. ~Enforceable(q) /\ ~ToEnforce(q)
    BY <1>1 DEF Enforceable, ToEnforce
  <2> QED BY <2>2, <2>3, HandedOnOK
<1>2. CASE q.todo # <<>>
  <2> DEFINE p == q.todo[1]
  <2>1. DOMAIN q.todo = {1} /\ p \in Planes /\ Len(q.todo) = 1
    BY <1>0, <1>2, JustOne
  <2>2. CASE Handling(p, q) = "pass"
    <3>1. next = {}
      BY <2>1, <2>2
    <3>2. t = Deliver(q, "answer")
      BY <3>1 DEF Enforce
    <3>3. ~(Enforceable(q) /\ q.answer.type = "stream")
      BY <2>2, HandlingStream
    <3>4. ToEnforce(q) => Faithful(q)
      BY <2>2, HandlingJson DEF ToEnforce, Faithful, AnswerCalls, extractResponseToolCalls, IsCall, IsNamed
    <3> QED BY <3>2, <3>3, <3>4, HandedOnOK
  <2>3. CASE Handling(p, q) # "pass"
    <3>1. next = {1} /\ first = 1
      <4>1. next = {1}
        BY <2>1, <2>3
      <4>2. 1 \in next /\ \A j \in next : 1 <= j
        BY <4>1
      <4>3. first \in next
        BY <4>2
      <4> QED BY <4>1, <4>3
    <3>2. CASE q.answer.type = "stream"
      <4> DEFINE ws == {q.todo[i] : i \in at("stream")}
                 us == {q.todo[i] : i \in at("unenforced")}
      <4>1. t = Streamed(q, ws, us)
        BY <3>1, <3>2 DEF Enforce, Streamed
      <4>2. ws \subseteq {p}
        BY <2>1
      <4>3. Handling(p, q) = "stream" \/ Handling(p, q) = "unenforced"
        BY <2>3, <3>2, HandlingStream
      <4>4. p \in ws \cup us
        BY <2>1, <4>3
      <4>5. ws \cup us # {}
        BY <4>4
      <4> HIDE DEF ws, us, p
      <4> QED BY <2>1, <4>1, <4>2, <4>5, StreamOK
    <3>3. CASE q.answer.type # "stream" /\ Handling(p, q) = "fault"
      <4>1. t = Fault(p, q)
        BY <3>1, <3>3 DEF Enforce
      <4>2. ~ToEnforce(q)
        BY <3>3, HandlingJson DEF ToEnforce
      <4> QED BY <3>3, <4>1, <4>2, FaultOK
    <3>4. CASE q.answer.type # "stream" /\ Handling(p, q) # "fault"
      <4> DEFINE s == SubSeq(q.todo, 1, Len(q.todo))
      <4>1. t = [q EXCEPT !.pc = "enforce", !.todo = s]
        BY <3>1, <3>4 DEF Enforce
      <4>2. s = q.todo
        BY <1>0, <2>1
      <4>3. t = [q EXCEPT !.pc = "enforce", !.todo = q.todo]
        BY <4>1, <4>2
      <4>4. /\ Same(q, t) /\ ReqType(t) /\ t.pc = "enforce" /\ t.out = q.out /\ t.hdr = q.hdr
            /\ t.sends = q.sends /\ t.todo = q.todo /\ t.answer = q.answer
        BY <4>3 DEF Out, ReqType, Fields, Same
      <4>5. Gated(t) /\ Kept(t)
        BY <4>4 DEF Out, Gated, Kept, Same
      <4>6. Governed(t)
        BY <4>4, Reads DEF Out, Governed, Same
      <4>7. Enforcing(t)
        BY <2>1, <3>4, <4>4 DEF Out, Enforcing, Sound, Same
      <4>8. Once(t) /\ Honest(t)
        BY <4>4 DEF Out, Once, Honest, Same, Planes
      <4> QED BY <4>4, <4>5, <4>6, <4>7, <4>8 DEF ReqOK, Early
    <3> QED BY <3>2, <3>3, <3>4
  <2> QED BY <2>2, <2>3
<1> QED BY <1>1, <1>2

LEMMA AnswerOK ==
    ASSUME EgressInv, NEW q, ReqOK(q), q.pc = "sent", NEW a \in Answers,
           NEW p, p = [q EXCEPT !.answer = a], NEW t, t = Enforce(p)
    PROVE  ReqOK(t)
<1>1. ReqType(q) /\ Gated(q) /\ Dispatched(q) /\ Governed(q) /\ Kept(q)
  BY DEF ReqOK
<1>2. /\ Same(q, p) /\ ReqType(p) /\ p.out = q.out /\ p.hdr = q.hdr /\ p.sends = q.sends
      /\ p.todo = q.todo /\ p.answer = a
  BY <1>1 DEF ReqType, Fields, Same
<1>3. Out(p)
  <2>1. Gated(p) /\ Kept(p)
    BY <1>1, <1>2 DEF Gated, Kept, Same
  <2>2. Governed(p)
    BY <1>1, <1>2, Reads DEF Governed, Same
  <2> QED BY <1>1, <1>2, <2>1, <2>2 DEF Out, Dispatched, Untold, Same
<1>4. p.rulings = {} /\ Len(p.todo) <= 1
  BY <1>1, <1>2 DEF Dispatched, Untold, Same
<1>5. Owned(p) /\ Len(p.sends) = 1 /\ ~GaveUp(p) => p.todo = <<p.taken>>
  BY <1>1, <1>2, Reads DEF Dispatched, Same
<1> QED BY <1>2, <1>3, <1>4, <1>5, EnforceOK

LEMMA FailsOK ==
    ASSUME EgressInv, NEW q, ReqOK(q), q.pc = "sent",
           NEW t, t = fetchInternalError(q) \/ t = Told(q, "error")
    PROVE  ReqOK(t)
<1>1. ReqType(q) /\ Gated(q) /\ Dispatched(q) /\ Governed(q) /\ Kept(q) /\ Once(q)
  BY DEF ReqOK
<1>2. Out(q)
  BY <1>1 DEF Out, Dispatched, Untold
<1>3. CASE t = fetchInternalError(q)
  BY <1>2, <1>3, InternalErrorOK
<1>4. CASE t = Told(q, "error")
  BY <1>1, <1>4, ToldOK
<1> QED BY <1>3, <1>4

LEMMA TailOfOne == ASSUME NEW s \in Seq(Planes), Len(s) = 1 PROVE Tail(s) = <<>>
<1>1. s # <<>>
  BY EmptySeq
<1>2. Tail(s) \in Seq(Planes) /\ Len(Tail(s)) = Len(s) - 1
  BY <1>1
<1>3. Len(Tail(s)) = 0
  BY <1>2
<1> QED BY <1>2, <1>3, EmptySeq

(* The plane that enforces has all verdicts: no other plane is behind it. *)
LEMMA LastOK ==
    ASSUME EgressInv, NEW q, Out(q), Len(q.todo) = 1, NEW a, a.type # "stream",
           NEW p, p = [q EXCEPT !.todo = Tail(@), !.answer = a],
           ToEnforce(p) => Faithful(p), NEW t, t = Enforce(p)
    PROVE  ReqOK(t)
<1>1. q.todo \in Seq(Planes)
  BY DEF Out, ReqType
<1>2. Tail(q.todo) = <<>>
  BY <1>1, TailOfOne
<1>3. p = [q EXCEPT !.todo = <<>>, !.answer = a]
  BY <1>2 DEF Out, ReqType, Fields
<1>4. <<>> \in Seq(Planes)
  OBVIOUS
<1>5. /\ Same(q, p) /\ ReqType(p) /\ p.out = q.out /\ p.hdr = q.hdr /\ p.sends = q.sends
      /\ p.todo = <<>> /\ p.answer = a
  BY <1>3, <1>4 DEF Out, ReqType, Fields, Same
<1>6. Out(p)
  <2>1. Gated(p) /\ Kept(p)
    BY <1>5 DEF Out, Gated, Kept, Same
  <2>2. Governed(p)
    BY <1>5, Reads DEF Out, Governed, Same
  <2> QED BY <1>5, <2>1, <2>2 DEF Out, Same
<1>7. t = Deliver(p, "answer")
  <2>1. DOMAIN p.todo = {}
    BY <1>5
  <2> QED BY <2>1 DEF Enforce
<1> QED BY <1>5, <1>6, <1>7, HandedOnOK

(* The numbers of a finite set are told apart by their places in it. *)
LEMMA Places ==
    ASSUME NEW S \in SUBSET Int, IsFiniteSet(S), NEW n \in S
    PROVE  Rank(S, n) \in 1 .. Cardinality(S) /\ Nth(S, Rank(S, n)) = n
<1> DEFINE upto(k) == {m \in S : m <= k}
<1>0. \A m \in S : m \in Int
  OBVIOUS
<1>1. ASSUME NEW k \in S PROVE IsFiniteSet(upto(k)) /\ Cardinality(upto(k)) \in 1 .. Cardinality(S)
  <2>1. upto(k) \subseteq S /\ k \in upto(k)
    BY <1>1
  <2>2. IsFiniteSet(upto(k)) /\ Cardinality(upto(k)) <= Cardinality(S)
    BY <2>1, FS_Subset
  <2>3. Cardinality(upto(k)) \in Nat /\ Cardinality(S) \in Nat
    BY <2>2, FS_CardinalityType
  <2>4. Cardinality(upto(k)) # 0
    BY <2>1, <2>2, FS_EmptySet
  <2> QED BY <2>2, <2>3, <2>4
<1>2. ASSUME NEW k \in S, NEW l \in S, k < l PROVE Cardinality(upto(k)) # Cardinality(upto(l))
  <2>1. upto(k) \subseteq upto(l) /\ l \in upto(l) /\ l \notin upto(k)
    <3>1. l <= l /\ ~(l <= k) /\ \A m \in S : m <= k => m <= l
      BY <1>0, <1>2
    <3> QED BY <3>1
  <2>2. IsFiniteSet(upto(l))
    BY <1>1
  <2>3. Cardinality(upto(l)) = Cardinality(upto(k)) => upto(l) = upto(k)
    BY <2>1, <2>2, FS_Subset
  <2> QED BY <2>1, <2>3
<1>3. ASSUME NEW k \in S, Rank(S, k) = Rank(S, n) PROVE k = n
  <2>1. Cardinality(upto(k)) = Cardinality(upto(n))
    BY <1>3 DEF Rank
  <2>2. ~(k < n) /\ ~(n < k)
    BY <1>2, <2>1
  <2> QED BY <2>2
<1>4. Nth(S, Rank(S, n)) = n
  BY <1>3 DEF Nth
<1> QED BY <1>1, <1>4 DEF Rank

(* The verdict at the place of a call is the one that was given on it. *)
LEMMA VerdictPlaced ==
    ASSUME NEW q, Enforcing(q), NEW ds,
           ds = [i \in 1..Cardinality(AnswerCalls(q)) |-> RulingOf(q, Nth(AnswerCalls(q), i))],
           NEW x \in q.rulings
    PROVE  Rank(AnswerCalls(q), x.at) \in DOMAIN ds /\ ds[Rank(AnswerCalls(q), x.at)] = x.verdict
<1>1. q.answer.blocks \in Seq(Int)
  BY EgressAssumption DEF Enforcing
<1>2. AnswerCalls(q) \subseteq 1 .. Len(q.answer.blocks) /\ Len(q.answer.blocks) \in Nat
  BY <1>1 DEF AnswerCalls, extractResponseToolCalls
<1>3. AnswerCalls(q) \in SUBSET Int /\ IsFiniteSet(AnswerCalls(q))
  <2>1. IsFiniteSet(1 .. Len(q.answer.blocks))
    BY <1>2, FS_Interval
  <2> QED BY <1>2, <2>1, FS_Subset
<1>4. x.at \in AnswerCalls(q) /\ x.plane = q.todo[1]
  BY DEF Enforcing, Sound
<1>5. RulingOf(q, x.at) = x.verdict
  <2>1. \A y \in q.rulings : y.plane = q.todo[1] /\ y.at = x.at => y = x
    BY DEF Enforcing, Sound
  <2> QED BY <1>4, <2>1 DEF RulingOf
<1> QED BY <1>3, <1>4, <1>5, Places

(* Of the formats whose extractor and rewriter agree, the blocks that are  *)
(* visited are the calls that were read.                                   *)
LEMMA VisitsWhatIsRead ==
    ASSUME NEW q, ReqType(q), q.answer \in Answers, NamedCalls, Owned(q), AnswerCalls(q) # {}
    PROVE  Visited(q.w.shape, q.answer.blocks) = AnswerCalls(q)
<1>1. Readable(q.w.shape)
  BY DEF AnswerCalls, extractResponseToolCalls
<1>2. q.w \in Workload
  BY DEF Owned, ReqType
<1>3. \/ q.w.shape \in {"openai-chat", "bedrock-converse"}
      \/ \A n \in DOMAIN q.answer.blocks : q.answer.blocks[n] # Nameless
  BY <1>1, <1>2 DEF NamedCalls
<1> QED BY <1>1, <1>3 DEF Visited, AnswerCalls, extractResponseToolCalls, IsCall, IsNamed

(* Every call has its verdict. *)
LEMMA AllRuled ==
    ASSUME NEW q, Open(q) = {}, NEW n \in AnswerCalls(q) PROVE \E x \in q.rulings : x.at = n
BY DEF Open

(* No call was denied: the answer is as it was. *)
LEMMA AllowedFaithful ==
    ASSUME NEW q, Enforcing(q), Open(q) = {}, \A x \in q.rulings : x.verdict # "deny"
    PROVE  Faithful(q)
<1>1. ASSUME Readable(q.w.shape), NEW n \in DOMAIN q.answer.blocks, IsNamed(q.answer.blocks[n])
      PROVE  \E x \in q.rulings : x.at = n
  <2>1. n \in AnswerCalls(q)
    BY <1>1 DEF AnswerCalls, extractResponseToolCalls, IsCall, IsNamed
  <2> QED BY <2>1, AllRuled
<1> QED BY <1>1 DEF Faithful, Enforcing, Sound

(* A call was denied: the rewriter finds a verdict for every call it       *)
(* visits, and replaces those that were denied.                            *)
LEMMA RewriteIsFaithful ==
    ASSUME NEW q, ReqType(q), Enforcing(q), Open(q) = {}, NamedCalls, Owned(q), NEW ds,
           ds = [i \in 1..Cardinality(AnswerCalls(q)) |-> RulingOf(q, Nth(AnswerCalls(q), i))],
           AnswerCalls(q) # {}
    PROVE  /\ ~rewriteThrows(q.w.shape, q.answer.blocks, ds)
           /\ \A p : (/\ p.w = q.w /\ p.rulings = q.rulings
                      /\ p.answer = rewriteResponseBody(q.w.shape, q.answer, ds)) => Faithful(p)
<1> DEFINE ns     == AnswerCalls(q)
           blocks == q.answer.blocks
           rb     == rewriteBlocks(q.w.shape, blocks, ds)
<1>0. q.answer \in Answers
  BY DEF Enforcing
<1>1. Visited(q.w.shape, blocks) = ns
  BY <1>0, VisitsWhatIsRead
<1>2. ASSUME NEW n \in ns
      PROVE  \E x \in q.rulings : /\ x.at = n /\ Cursor(q.w.shape, blocks, n) \in DOMAIN ds
                                  /\ ds[Cursor(q.w.shape, blocks, n)] = x.verdict
  <2>1. PICK x \in q.rulings : x.at = n
    BY AllRuled
  <2>2. Rank(ns, n) \in DOMAIN ds /\ ds[Rank(ns, n)] = x.verdict
    BY <2>1, VerdictPlaced
  <2>3. Cursor(q.w.shape, blocks, n) = Rank(ns, n)
    BY <1>1 DEF Cursor
  <2> QED BY <2>1, <2>2, <2>3
<1>3. ~rewriteThrows(q.w.shape, blocks, ds)
  BY <1>1, <1>2 DEF rewriteThrows
<1>4. DOMAIN rb = DOMAIN blocks /\ \A n \in DOMAIN blocks : n \notin ns => rb[n] = blocks[n]
  BY <1>1 DEF rewriteBlocks
<1>5. ASSUME NEW x \in q.rulings
      PROVE  x.at \in ns /\ rb[x.at] = IF x.verdict = "deny" THEN Notice ELSE x.call
  <2>1. x.at \in ns /\ x.call = blocks[x.at]
    BY DEF Enforcing, Sound
  <2>2. \A y \in q.rulings : y.at = x.at => y = x
    BY DEF Enforcing, Sound
  <2>3. /\ Cursor(q.w.shape, blocks, x.at) \in DOMAIN ds
        /\ ds[Cursor(q.w.shape, blocks, x.at)] = x.verdict
    BY <1>2, <2>1, <2>2
  <2>4. x.at \in DOMAIN blocks /\ x.at \in Visited(q.w.shape, blocks)
    BY <1>1, <2>1 DEF AnswerCalls, extractResponseToolCalls
  <2> QED BY <2>1, <2>3, <2>4 DEF rewriteBlocks
<1>6. SUFFICES ASSUME NEW p, p.w = q.w, p.rulings = q.rulings,
                      p.answer = rewriteResponseBody(q.w.shape, q.answer, ds)
               PROVE  Faithful(p)
  BY <1>3
<1>7. Faithful(p)
  <2>1. q.answer \in [type : {"json", "stream", "null", "other"}, ok : BOOLEAN, gateway : BOOLEAN,
                      blocks : Seq(Int), others : Seq(Int), reason : STRING]
    BY <1>0, EgressAssumption
  <2>2. p.answer.blocks = rb /\ p.answer.reason = finishReason(q.w.shape, rb, q.answer.reason)
    BY <1>6, <2>1 DEF rewriteResponseBody
  <2>3. ASSUME Readable(q.w.shape), NEW n \in DOMAIN rb, IsNamed(rb[n])
        PROVE  \E x \in q.rulings : x.at = n
    <3>1. CASE n \in ns
      BY <3>1, AllRuled
    <3>2. CASE n \notin ns
      BY <1>4, <2>3, <3>2 DEF AnswerCalls, extractResponseToolCalls, IsCall, IsNamed
    <3> QED BY <3>1, <3>2
  <2>4. ASSUME p.answer.reason = "tool" PROVE \E n \in DOMAIN rb : IsCall(rb[n])
    <3>1. Visited(q.w.shape, rb) # {}
      BY <2>2, <2>4 DEF finishReason
    <3> QED BY <3>1 DEF Visited, IsCall, IsNamed
  <2> HIDE DEF rb
  <2> QED BY <1>5, <1>6, <2>2, <2>3, <2>4 DEF Faithful
<1> QED BY <1>7

LEMMA SettledOK ==
    ASSUME EgressInv, NEW q, Out(q), Enforcing(q), Open(q) = {}, NEW t, t = Settled(q)
    PROVE  ReqOK(t)
<1> DEFINE ns == AnswerCalls(q)
           ds == [i \in 1..Cardinality(ns) |-> RulingOf(q, Nth(ns, i))]
           b  == rewriteResponseBody(q.w.shape, q.answer, ds)
           p  == [q EXCEPT !.todo = Tail(@), !.answer = q.answer]
           pb == [q EXCEPT !.todo = Tail(@), !.answer = b]
           denied == \E i \in DOMAIN ds : ds[i] = "deny"
           thrown == rewriteThrows(q.w.shape, q.answer.blocks, ds)
<1>1. Len(q.todo) = 1 /\ q.answer.type # "stream"
  BY DEF Enforcing
<1>2. b.type = q.answer.type /\ b.ok = q.answer.ok /\ b.gateway = q.answer.gateway
  <2>1. q.answer \in [type : {"json", "stream", "null", "other"}, ok : BOOLEAN, gateway : BOOLEAN,
                      blocks : Seq(Int), others : Seq(Int), reason : STRING]
    BY EgressAssumption DEF Enforcing
  <2> QED BY <2>1 DEF rewriteResponseBody
<1>3. PICK es : es = ds
  OBVIOUS
<1>4. ~denied => \A x \in q.rulings : x.verdict # "deny"
  BY <1>3, VerdictPlaced
<1>5. denied => ns # {}
  BY FS_EmptySet
<1>6. Owned(q) /\ NamedCalls /\ denied =>
        /\ ~thrown
        /\ \A s : s.w = q.w /\ s.rulings = q.rulings /\ s.answer = b => Faithful(s)
  BY <1>3, <1>5, RewriteIsFaithful DEF Out
<1>7. /\ ~denied => t = Enforce([q EXCEPT !.todo = Tail(@)])
      /\ denied /\ thrown => t = Fault(q.todo[1], q)
      /\ denied /\ ~thrown => t = Enforce([[q EXCEPT !.todo = Tail(@)] EXCEPT !.answer = b])
  BY DEF Settled
<1> HIDE DEF b, ds, denied, thrown
<1>8. [q EXCEPT !.todo = Tail(@)] = p
  BY DEF Out, ReqType, Fields
<1>9. [[q EXCEPT !.todo = Tail(@)] EXCEPT !.answer = b] = pb
  BY DEF Out, ReqType, Fields
<1>10. /\ Same(q, p) /\ p.sends = q.sends /\ p.answer = q.answer
       /\ Same(q, pb) /\ pb.sends = q.sends /\ pb.answer = b
  BY DEF Out, ReqType, Fields, Same
<1> HIDE DEF p, pb
<1>11. CASE ~denied
  <2>1. Faithful(q)
    BY <1>4, <1>11, AllowedFaithful
  <2>2. Faithful(p)
    BY <1>10, <2>1 DEF Faithful, Same
  <2>3. t = Enforce(p)
    BY <1>7, <1>8, <1>11
  <2> QED BY <1>1, <2>2, <2>3, LastOK DEF p
<1>12. CASE denied /\ thrown
  <2>1. ~ToEnforce(q)
    BY <1>6, <1>12 DEF ToEnforce, Enforceable
  <2> QED BY <1>1, <1>7, <1>12, <2>1, FaultOK
<1>13. CASE denied /\ ~thrown
  <2>1. Owned(pb) <=> Owned(q)
    BY <1>10, Reads DEF Same
  <2>2. ToEnforce(pb) => Faithful(pb)
    BY <1>6, <1>10, <1>13, <2>1 DEF ToEnforce, Enforceable, Same
  <2>3. t = Enforce(pb)
    BY <1>7, <1>9, <1>13
  <2> QED BY <1>1, <1>2, <2>2, <2>3, LastOK DEF pb
<1> QED BY <1>11, <1>12, <1>13

(* A verdict on a call of the answer. *)
LEMMA RulingOK ==
    ASSUME EgressInv, NEW q, ReqOK(q), q.pc = "enforce", NEW x, x.plane = q.todo[1],
           x.at \in Open(q), x.verdict \in {"allow", "deny"}, x.call = q.answer.blocks[x.at],
           NEW p, p = [q EXCEPT !.rulings = @ \cup {x}],
           NEW t, t = IF Open(p) = {} THEN Settled(p) ELSE p
    PROVE  ReqOK(t)
<1>1. ReqType(q) /\ Gated(q) /\ Enforcing(q) /\ Governed(q) /\ Kept(q)
  BY DEF ReqOK
<1>2. /\ ReqType(p) /\ p.w = q.w /\ p.taken = q.taken /\ p.asked = q.asked /\ p.pc = "enforce"
      /\ p.rulings = q.rulings \cup {x} /\ p.sends = q.sends /\ p.hdr = q.hdr /\ p.out = q.out
      /\ p.wrapped = q.wrapped /\ p.unenforced = q.unenforced /\ p.todo = q.todo /\ p.answer = q.answer
  BY <1>1 DEF ReqType, Fields
<1>3. Enforcing(p)
  <2>1. AnswerCalls(p) = AnswerCalls(q)
    BY <1>2 DEF AnswerCalls
  <2>2. x.at \in AnswerCalls(q) /\ \A y \in q.rulings : y.at # x.at
    BY <1>1 DEF Open, Enforcing
  <2>3. Sound(p)
    BY <1>1, <1>2, <2>1, <2>2 DEF Enforcing, Sound
  <2> QED BY <1>1, <1>2, <2>3 DEF Enforcing
<1>4. Gated(p) /\ Kept(p)
  BY <1>1, <1>2 DEF Gated, Kept
<1>5. Governed(p)
  BY <1>1, <1>2, Reads DEF Governed
<1>6. Out(p) /\ Honest(p)
  BY <1>2, <1>3, <1>4, <1>5 DEF Out, Honest, Enforcing
<1>7. ReqOK(p)
  BY <1>2, <1>3, <1>4, <1>5, <1>6, OutOnce DEF ReqOK, Early
<1> QED BY <1>3, <1>6, <1>7, SettledOK
-----------------------------------------------------------------------------
(* A request is right whatever else happens to the configuration's state. *)
LEMMA Carried ==
    ASSUME conf' = conf, NEW s, NEW x, req'[s] = x, ReqOK(x) PROVE ReqOK(req[s])'
<1>1. /\ (Owned(req[s])' <=> Owned(x)) /\ (GaveUp(req[s])' <=> GaveUp(x))
      /\ (Cleared(req[s])' <=> Cleared(x)) /\ (Enforceable(req[s])' <=> Enforceable(x))
  BY DEF Enforceable, Owned, rewriteToPdpProxy, GaveUp, Cleared
<1>2. (Fresh(req[s])' <=> Fresh(x)) /\ (Gated(req[s])' <=> Gated(x)) /\ (ReqType(req[s])' <=> ReqType(x))
  BY DEF Fresh, Untold, Gated, ReqType
<1>3. Dispatched(req[s])' <=> Dispatched(x)
  BY <1>1 DEF Dispatched, Untold
<1>4. (Enforcing(req[s])' <=> Enforcing(x)) /\ (Kept(req[s])' <=> Kept(x))
  BY DEF Enforcing, Sound, AnswerCalls, Kept
<1>5. (Governed(req[s])' <=> Governed(x)) /\ (Once(req[s])' <=> Once(x)) /\ (Honest(req[s])' <=> Honest(x))
  BY <1>1 DEF Governed, Once, Honest, ToEnforce, Faithful
<1> QED BY <1>2, <1>3, <1>4, <1>5 DEF ReqOK

(* A step that makes one request right leaves the others alone. *)
LEMMA Frame ==
    ASSUME EgressInv, conf' = conf, installed' \in [Planes -> BOOLEAN],
           NEW r \in Reqs, NEW t, ReqOK(t), Set(r, t)
    PROVE  EgressInv'
<1>1. req' = [req EXCEPT ![r] = t] /\ req = [s \in Reqs |-> req[s]]
  BY DEF Set, EgressInv
<1>2. req' = [s \in Reqs |-> req'[s]] /\ \A s \in Reqs : req'[s] = IF s = r THEN t ELSE req[s]
  BY <1>1
<1>3. ASSUME NEW s \in Reqs PROVE ReqOK(req[s])'
  <2>1. PICK x : x = req'[s]
    OBVIOUS
  <2>2. ReqOK(x)
    BY <1>2, <2>1 DEF EgressInv
  <2> QED BY <2>1, <2>2, Carried
<1> QED BY <1>2, <1>3 DEF EgressInv

LEMMA Still ==
    ASSUME EgressInv, conf' = conf, req' = req, installed' \in [Planes -> BOOLEAN]
    PROVE  EgressInv'
<1>1. ASSUME NEW s \in Reqs PROVE ReqOK(req[s])'
  <2>1. PICK x : x = req[s]
    OBVIOUS
  <2>2. ReqOK(x) /\ req'[s] = x
    BY <2>1 DEF EgressInv
  <2> QED BY <2>2, Carried
<1> QED BY <1>1 DEF EgressInv

(* Every step, one by one. *)
LEMMA ReplyStep ==
    ASSUME EgressInv, NEW r \in Reqs, Reply(r) PROVE EgressInv'
<1>1. ReqOK(req[r]) /\ installed \in [Planes -> BOOLEAN]
  BY DEF EgressInv
<1>2. CASE FacadeEnd(r)
  <2>1. PICK maskFails \in BOOLEAN : Set(r, Observe(req[r], maskFails))
    BY <1>2 DEF FacadeEnd, facadeDispatch
  <2>2. /\ ReqType(req[r]) /\ Fresh(req[r]) /\ req[r].taken = "node" /\ Gated(req[r])
    BY <1>1, <1>2 DEF FacadeEnd, ReqOK, Early, Gated
  <2>3. ReqOK(Observe(req[r], maskFails))
    BY <2>2, ObserveOK
  <2>4. conf' = conf /\ installed' = installed
    BY <1>2 DEF FacadeEnd, env
  <2> QED BY <1>1, <2>1, <2>3, <2>4, Frame
<1>3. CASE resolvePlaceholder(r)
  <2>1. PICK t : \E maskFails \in BOOLEAN :
            /\ Set(r, t)
            /\ t = FetchGate([req[r] EXCEPT !.hdr = "secret"], maskFails) \/ t = Told(req[r], "threw")
    BY <1>3 DEF resolvePlaceholder
  <2>2. ReqOK(t)
    BY <1>1, <1>3, <2>1, VaultOK DEF resolvePlaceholder
  <2>3. conf' = conf /\ installed' = installed
    BY <1>3 DEF resolvePlaceholder
  <2> QED BY <1>1, <2>1, <2>2, <2>3, Frame
<1>4. CASE postObservePrompt(r) \/ postObservePromptNode(r)
  <2>1. PICK fails \in BOOLEAN : Set(r, Posted(req[r], fails))
    BY <1>4 DEF postObservePrompt, postObservePromptNode
  <2>2. ReqOK(Posted(req[r], fails))
    BY <1>1, PostedOK
  <2>3. conf' = conf /\ installed' = installed
    BY <1>4 DEF postObservePrompt, postObservePromptNode, env
  <2> QED BY <1>1, <2>1, <2>2, <2>3, Frame
<1>5. ASSUME NEW v \in Verdicts, PreflightVerdict(r, v) PROVE EgressInv'
  <2> DEFINE p == [req[r] EXCEPT !.asked = Append(@, Ruled(v))]
             t == IF Ruled(v) = "deny" THEN Deny(p) ELSE Preflight(p)
  <2>1. Set(r, t) /\ req[r].pc = "eval" /\ conf' = conf /\ installed' = installed
    BY <1>5 DEF PreflightVerdict, env
  <2>2. ReqOK(t)
    BY <1>1, <2>1, VerdictOK
  <2> HIDE DEF t
  <2> QED BY <1>1, <2>1, <2>2, Frame
<1>6. ASSUME NEW a \in Answers, Answer(r, a) PROVE EgressInv'
  <2> DEFINE p == [req[r] EXCEPT !.answer = a]
  <2>1. Set(r, Enforce(p)) /\ req[r].pc = "sent" /\ conf' = conf /\ installed' = installed
    BY <1>6 DEF Answer, env
  <2>2. ReqOK(Enforce(p))
    BY <1>1, <2>1, AnswerOK
  <2> HIDE DEF p
  <2> QED BY <1>1, <2>1, <2>2, Frame
<1>7. CASE UpstreamFails(r)
  <2>1. PICK t : Set(r, t) /\ (t = fetchInternalError(req[r]) \/ t = Told(req[r], "error"))
    BY <1>7 DEF UpstreamFails
  <2>2. req[r].pc = "sent" /\ conf' = conf /\ installed' = installed
    BY <1>7 DEF UpstreamFails, env
  <2>3. ReqOK(t)
    BY <1>1, <2>1, <2>2, FailsOK
  <2> QED BY <1>1, <2>1, <2>2, <2>3, Frame
<1>8. ASSUME NEW p, NEW n, NEW v \in Verdicts, EnforceVerdict(p, r, n, v) PROVE EgressInv'
  <2> DEFINE x == [plane |-> p, at |-> n, verdict |-> Ruled(v), call |-> req[r].answer.blocks[n]]
             q == [req[r] EXCEPT !.rulings = @ \cup {x}]
             t == IF Open(q) = {} THEN Settled(q) ELSE q
  <2>1. Set(r, t) /\ req[r].pc = "enforce" /\ req[r].todo[1] = p /\ conf' = conf /\ installed' = installed
    BY <1>8 DEF EnforceVerdict, env
  <2>2. /\ x.plane = req[r].todo[1] /\ x.at \in Open(req[r]) /\ x.verdict \in {"allow", "deny"}
        /\ x.call = req[r].answer.blocks[x.at]
    BY <1>8, <2>1, Ruling DEF EnforceVerdict
  <2> HIDE DEF x
  <2>3. ReqOK(t)
    BY <1>1, <2>1, <2>2, RulingOK
  <2> HIDE DEF t
  <2> QED BY <1>1, <2>1, <2>3, Frame
<1> QED BY <1>2, <1>3, <1>4, <1>5, <1>6, <1>7, <1>8
     DEF Reply, evaluateAll, evaluateJson, evalResponseCall

LEMMA IssueStep ==
    ASSUME EgressInv, NEW r \in Reqs, NEW w \in Workload, Issue(r, w) PROVE EgressInv'
<1> DEFINE q == [Idle EXCEPT !.w = w, !.taken = IF installed[w.plane] THEN w.plane ELSE "none",
                             !.hdr = IF w.vault \in {"init", "request"} THEN "placeholder" ELSE "none"]
           t(maskFails) == CASE q.taken = "none"  -> passThrough(q)
                             [] q.taken = "fetch" -> patchedFetch(q, maskFails)
                             [] q.taken = "node"  -> makePatchedRequest(q)
                             [] OTHER             -> patchedDispatch(q)
<1>1. PICK maskFails \in BOOLEAN : Set(r, t(maskFails))
  BY DEF Issue
<1>2. conf' = conf /\ installed' = installed /\ installed \in [Planes -> BOOLEAN]
  BY DEF Issue, env, EgressInv
<1>3. ReqOK(t(maskFails))
  BY IssueOK
<1> HIDE DEF t
<1> QED BY <1>1, <1>2, <1>3, Frame

LEMMA EgressStart == Init => EgressInv
<1> SUFFICES ASSUME Init PROVE EgressInv
  OBVIOUS
<1>1. conf \in Configs /\ installed \in [Planes -> BOOLEAN] /\ req = [r \in Reqs |-> Idle]
  BY DEF Init, Planes
<1>2. ReqOK(Idle)
  <2>1. Idle = [f \in Fields |-> Idle[f]] /\ Idle.pc = "idle" /\ Untold(Idle) /\ Idle.sends = <<>>
        /\ Idle.taken = "none" /\ Idle.hdr = "none" /\ Idle.todo = <<>>
    BY DEF Idle, Fields, Untold
  <2>2. <<>> \in Seq(SendType) /\ <<>> \in Seq(Planes)
    OBVIOUS
  <2>3. ReqType(Idle)
    BY <2>1, <2>2 DEF ReqType
  <2>4. Governed(Idle) /\ Kept(Idle)
    BY <2>1 DEF Governed, Kept
  <2>5. Once(Idle) /\ Honest(Idle)
    BY <2>1 DEF Once, Honest, Untold, Planes
  <2> QED BY <2>1, <2>3, <2>4, <2>5 DEF ReqOK, Early
<1> QED BY <1>1, <1>2 DEF EgressInv

LEMMA EgressStep == EgressInv /\ [Next]_vars => EgressInv'
<1> SUFFICES ASSUME EgressInv, [Next]_vars PROVE EgressInv'
  OBVIOUS
<1>1. installed \in [Planes -> BOOLEAN]
  BY DEF EgressInv
<1>2. ASSUME NEW r \in Reqs, Reply(r) \/ \E w \in Workload : Issue(r, w) PROVE EgressInv'
  BY <1>2, ReplyStep, IssueStep
<1>3. ASSUME NEW p \in Planes, Patch(p) \/ Teardown(p) PROVE EgressInv'
  <2>1. conf' = conf /\ req' = req /\ installed' \in [Planes -> BOOLEAN]
    BY <1>1, <1>3 DEF Patch, Teardown
  <2> QED BY <2>1, Still
<1>4. ASSUME NEW s, AddonChanges(s) PROVE EgressInv'
  BY <1>1, <1>4, Still DEF AddonChanges
<1>5. CASE LeaseExpires
  BY <1>1, <1>5, Still DEF LeaseExpires
<1>6. CASE UNCHANGED vars
  BY <1>1, <1>6, Still DEF vars, env
<1>7. "fetch" \in Planes /\ "node" \in Planes /\ "undici" \in Planes
  BY DEF Planes
<1> QED BY <1>2, <1>3, <1>4, <1>5, <1>6, <1>7
     DEF Next, installFetchInterceptor, installNodeHttpInterceptor, installUndiciDispatcherInterceptor
-----------------------------------------------------------------------------
LEMMA EgressSafe == Spec => []EgressInv
BY EgressStart, EgressStep, PTL DEF Spec

(* No request a plane took reaches a model before every tool call it       *)
(* repeats was evaluated and allowed, whatever the order in which vault,   *)
(* observer and evaluator answer and with planes patched in and out        *)
(* between the steps.                                                      *)
THEOREM RequestsGoverned == Spec => []CallsGoverned
BY EgressSafe, Claims, PTL

(* A vault placeholder the fetch plane is responsible for never leaves the *)
(* process, and a resolved secret never goes to the PDP's proxy, also when *)
(* a failed enforcement sends the request again.                           *)
THEOREM PlaceholdersKept == Spec => []PlaceholderKept
BY EgressSafe, Claims, PTL

(* One plane enforces an answer: neither two of them (fetch on top of the  *)
(* dispatcher) nor none.                                                   *)
THEOREM EnforcerIsOne == Spec => []OneEnforcer
BY EgressSafe, Claims, PTL

(* A JSON answer reaches the caller with a notice in the place of every    *)
(* denied call and every other call as it was evaluated, in whatever order *)
(* the verdicts arrived, for every format whose rewriter visits the calls  *)
(* that its extractor reads.                                               *)
THEOREM AnswersAreGoverned == ASSUME NamedCalls PROVE Spec => []AnswerGoverned
BY EgressSafe, Claims, PTL
-----------------------------------------------------------------------------
(* Calls of MCP tools. *)

USE McpAssumption

PCsOf == {"idle", "init", "patch", "send", "wire", "done"}
Outs  == {"none", "forwarded", "denied", "refused"}
Ask   == [key : Keys, verdict : {"allow", "deny"}]
JobType ==
    [pc : PCsOf, w : McpWorkload \cup {<<>>}, taken : {"none", "fetch", "node", "undici", "stdio"},
     name : Names, asked : Seq(Ask), token : BOOLEAN, ship : Nat, out : Outs]
Token  == [key : Keys, left : 0 .. TokenTtl]
Record == [key : Endpoints, name : Names, session : BOOLEAN]

(* What BatchWhole says of a job. *)
Whole(q) ==
    (q.taken # "none" /\ q.w.kind = "call" /\ q.out = "forwarded") =>
        q.token \/ (/\ Len(q.asked) = Len(q.w.calls)
                    /\ \A i \in DOMAIN q.asked : q.asked[i].verdict = "allow")

(* A job before its end has no outcome; it is seen by a plane only when    *)
(* its request leaves, and a plane that evaluates has calls left to ask.   *)
JobOK(q) ==
    /\ q \in JobType
    /\ q.pc # "idle" => q.w \in McpWorkload
    /\ q.pc # "done" => q.out = "none"
    /\ q.pc = "init" => q.w.kind = "connect"
    /\ q.pc \in {"patch", "send", "wire"} => q.w.kind = "call"
    /\ q.pc \in {"patch", "send"} => q.taken = "none"
    /\ q.pc = "wire" => Len(q.asked) < Len(q.w.calls)
    /\ Whole(q)

JobsOK == job \in [Jobs -> JobType] /\ \A j \in Jobs : JobOK(job[j])

(* The names of the endpoints are the ones their servers give. *)
KnownOK(m) ==
    /\ m \in Seq(Record) /\ Unique(m)
    /\ \A i \in DOMAIN m : m[i].name \in {NoName, NameOf[m[i].key]}
ScansOK   == scans \subseteq [e : Endpoints, session : BOOLEAN]
ClientsOK == client \in [Clients -> [at : Endpoints \cup {NoName}, name : Names]]

(* A key has at most one token, and then an allow to spare. *)
TokensOK ==
    /\ tokens \in Seq(Token) /\ Unique(tokens) /\ spare \in [Keys -> Int]
    /\ \A k \in Keys : spare[k] >= 0 /\ (Has(tokens, k) => spare[k] >= 1)

McpInv == mcpConf \in McpConfigs /\ JobsOK /\ KnownOK(known) /\ ScansOK /\ ClientsOK /\ TokensOK
-----------------------------------------------------------------------------
(* The positions of a key: one if the map has it, none if not. *)
LEMMA CountOfKey ==
    ASSUME NEW S, NEW m \in Seq(S), Unique(m), NEW k
    PROVE  Cardinality({i \in DOMAIN m : m[i].key = k}) = IF Has(m, k) THEN 1 ELSE 0
<1> DEFINE P == {i \in DOMAIN m : m[i].key = k}
<1>1. CASE Has(m, k)
  <2>1. PICK i \in DOMAIN m : m[i].key = k  BY <1>1 DEF Has
  <2>2. P = {i}  BY <2>1 DEF Unique
  <2> QED BY <1>1, <2>2, FS_Singleton
<1>2. CASE ~Has(m, k)
  <2>1. P = {}  BY <1>2 DEF Has
  <2> QED BY <1>2, <2>1, FS_EmptySet
<1> QED BY <1>1, <1>2

LEMMA McpStart == ASSUME McpInit PROVE McpInv
<1>1. IdleJob \in JobType /\ IdleJob.pc = "idle" /\ IdleJob.out = "none"
  BY DEF IdleJob, JobType, PCsOf, Outs, Names, Ask
<1>2. JobsOK  BY <1>1 DEF McpInit, JobsOK, JobOK, Whole
<1>3. PICK s \in Earlier :
        /\ client = [c \in Clients |-> s.client] /\ known = s.known /\ tokens = s.tokens
        /\ spare = [k \in Keys |-> Cardinality({i \in DOMAIN s.tokens : s.tokens[i].key = k})]
  BY DEF McpInit
<1>4. KnownOK(known) /\ ClientsOK  BY <1>3 DEF KnownOK, ClientsOK, Record
<1>5. tokens \in Seq(Token) /\ Unique(tokens)  BY <1>3 DEF Token
<1>6. \A k \in Keys : spare[k] = IF Has(tokens, k) THEN 1 ELSE 0
  BY <1>3, <1>5, CountOfKey
<1>7. TokensOK  BY <1>3, <1>5, <1>6 DEF TokensOK
<1> QED BY <1>2, <1>4, <1>7 DEF McpInit, McpInv, ScansOK

(* A job is set to one that is in order. *)
LEMMA SetJobKeeps ==
    ASSUME JobsOK, NEW j \in Jobs, NEW t, SetJob(j, t), JobOK(t)
    PROVE  JobsOK'
<1>1. t \in JobType  BY DEF JobOK
<1>2. job' \in [Jobs -> JobType] /\ \A d \in Jobs : job'[d] = IF d = j THEN t ELSE job[d]
  BY <1>1 DEF JobsOK, SetJob
<1> QED BY <1>2 DEF JobsOK, JobOK, Whole

(* The subject of a plane's evaluation. *)
LEMMA SubjectKey ==
    ASSUME KnownOK(known), NEW e \in Endpoints, NEW c \in Calls
    PROVE  RecordOf(e) \in Record /\ RecordOf(e).key = e /\ RecordOf(e).name \in {NoName, NameOf[e]}
           /\ mcpActionFor(e, c) \in Keys
<1>1. RecordOf(e) \in Record /\ RecordOf(e).key = e /\ RecordOf(e).name \in {NoName, NameOf[e]}
  <2>1. CASE Has(known, e)
    <3>1. PICK i : i = IndexOf(known, e)  OBVIOUS
    <3>2. i \in DOMAIN known /\ known[i].key = e  BY <2>1, <3>1, IndexOfHas
    <3>3. RecordOf(e) = known[i]  BY <2>1, <3>1 DEF RecordOf, Recorded, Lookup
    <3> QED BY <3>2, <3>3 DEF KnownOK
  <2>2. CASE ~Has(known, e)
    BY <2>2 DEF RecordOf, Recorded, Record, Names
  <2> QED BY <2>1, <2>2
<1>2. mcpActionFor(e, c) \in Keys
  BY <1>1 DEF mcpActionFor, namespacedToolName, Keys, Names
<1> QED BY <1>1, <1>2
-----------------------------------------------------------------------------
(* consumeMcpCallEvaluated: the token is gone; what it let through was to  *)
(* spare.                                                                  *)
LEMMA ConsumeKeeps ==
    ASSUME TokensOK, NEW k \in Keys, tokens' = consumeMcpCallEvaluated(k),
           \/ spare' = spare
           \/ Has(tokens, k) /\ spare' = [spare EXCEPT ![k] = @ - 1]
    PROVE  TokensOK'
<1>1. /\ tokens' \in Seq(Token) /\ Within(tokens', tokens)
      /\ Unique(tokens') /\ ~Has(tokens', k)
  BY WithoutFacts DEF TokensOK, consumeMcpCallEvaluated
<1>2. \A d \in Keys : Has(tokens', d) => Has(tokens, d) /\ d # k
  BY <1>1 DEF Within, Has
<1>3. spare' \in [Keys -> Int] /\ \A d \in Keys : spare'[d] = spare[d] \/ (d = k /\ spare'[d] = spare[d] - 1 /\ spare[d] >= 1)
  BY DEF TokensOK
<1> QED BY <1>1, <1>2, <1>3 DEF TokensOK

(* pruneSuppression: what is left is from before. *)
LEMMA PruneFacts ==
    ASSUME NEW m \in Seq(Token), Unique(m)
    PROVE  /\ pruneSuppression(m) \in Seq(Token) /\ Unique(pruneSuppression(m))
           /\ Within(pruneSuppression(m), m)
<1>1. PICK s : s = Sweep(m)  OBVIOUS
<1>2. s \in Seq(Token) /\ Within(s, m) /\ Unique(s)  BY <1>1, SweepFacts
<1>3. CASE Len(s) > MaxTokens
  <2>1. PICK n : n = Len(s) - MaxTokens  OBVIOUS
  <2>2. n \in Nat /\ n < Len(s) /\ Len(s) \in Nat /\ DOMAIN s = 1 .. Len(s)  BY <1>2, <1>3, <2>1
  <2>3. PICK t : t = SubSeq(s, n + 1, Len(s))  OBVIOUS
  <2>4. t \in Seq(Token) /\ Len(t) = Len(s) - n /\ \A i \in 1 .. Len(t) : t[i] = s[i + n]
    <3>0. PICK a, l : a = n + 1 /\ l = Len(s)  OBVIOUS
    <3>1. a \in Int /\ l \in Int /\ a = n + 1 /\ l = Len(s) /\ a <= l  BY <2>2, <3>0
    <3>2. \A i \in a .. l : i \in 1 .. Len(s)  BY <2>2, <3>1
    <3>3. \A i \in a .. l : s[i] \in Token  BY <1>2, <3>2
    <3>4. /\ SubSeq(s, a, l) \in Seq(Token)
          /\ Len(SubSeq(s, a, l)) = IF a <= l THEN l - a + 1 ELSE 0
          /\ \A i \in 1 .. l - a + 1 : SubSeq(s, a, l)[i] = s[a + i - 1]
      BY <3>1, <3>3, SubSeqProperties
    <3>5. t = SubSeq(s, a, l)  BY <2>3, <3>1
    <3>6. t \in Seq(Token) /\ Len(t) = l - a + 1  BY <2>2, <3>1, <3>4, <3>5
    <3>7. Len(t) = Len(s) - n  BY <2>2, <3>1, <3>6
    <3>8. \A i \in 1 .. Len(t) : i \in 1 .. l - a + 1 /\ a + i - 1 = i + n  BY <2>2, <3>1, <3>6
    <3> QED BY <3>4, <3>5, <3>6, <3>7, <3>8
  <2>5. DOMAIN t = 1 .. Len(t) /\ \A i \in DOMAIN t : i + n \in DOMAIN s /\ t[i] = s[i + n]
    BY <2>2, <2>4
  <2>6. Within(t, s)  BY <2>5 DEF Within
  <2>7. Unique(t)
    <3>1. ASSUME NEW i \in DOMAIN t, NEW l \in DOMAIN t, t[i].key = t[l].key PROVE i = l
      <4>1. i + n = l + n  BY <1>2, <2>5, <3>1 DEF Unique
      <4> QED BY <2>2, <2>4, <2>5, <4>1
    <3> QED BY <3>1 DEF Unique
  <2>8. pruneSuppression(m) = t  BY <1>1, <1>3, <2>1, <2>3 DEF pruneSuppression
  <2> QED BY <1>2, <2>4, <2>6, <2>7, <2>8 DEF Within
<1>4. CASE ~(Len(s) > MaxTokens)
  BY <1>1, <1>2, <1>4 DEF pruneSuppression
<1> QED BY <1>3, <1>4

(* markMcpCallEvaluated: one token for the key, and one allow more. *)
LEMMA MarkKeeps ==
    ASSUME TokensOK, NEW k \in Keys, tokens' = markMcpCallEvaluated(k), spare' = [spare EXCEPT ![k] = @ + 1]
    PROVE  TokensOK'
<1>1. PICK s, t : s = pruneSuppression(tokens) /\ t = [key |-> k, left |-> TokenTtl]  OBVIOUS
<1>2. s \in Seq(Token) /\ Unique(s) /\ Within(s, tokens)  BY <1>1, PruneFacts DEF TokensOK
<1>3. t \in Token /\ t.key = k  BY <1>1 DEF Token
<1>4. tokens' \in Seq(Token) /\ Unique(tokens') /\ WithinOr(tokens', s, t)
  <2>1. CASE Has(s, k)
    <3>1. PICK p : p = IndexOf(s, k)  OBVIOUS
    <3>2. p \in DOMAIN s /\ s[p].key = k  BY <2>1, <3>1, IndexOfHas
    <3>3. tokens' = [s EXCEPT ![p] = t]  BY <1>1, <2>1, <3>1 DEF markMcpCallEvaluated
    <3>4. tokens' \in Seq(Token) /\ DOMAIN tokens' = DOMAIN s /\ \A i \in DOMAIN s : tokens'[i] = IF i = p THEN t ELSE s[i]
      BY <1>2, <1>3, <3>2, <3>3
    <3> QED BY <1>2, <1>3, <3>2, <3>4 DEF Unique, WithinOr
  <2>2. CASE ~Has(s, k)
    <3>1. tokens' = Append(s, t)  BY <1>1, <2>2 DEF markMcpCallEvaluated
    <3> QED BY <1>2, <1>3, <2>2, <3>1, AppendFacts
  <2> QED BY <2>1, <2>2
<1>5. \A d \in Keys : Has(tokens', d) => Has(tokens, d) \/ d = k
  BY <1>2, <1>3, <1>4 DEF Within, WithinOr, Has
<1>6. spare' \in [Keys -> Int] /\ \A d \in Keys : spare'[d] = IF d = k THEN spare[d] + 1 ELSE spare[d]
  BY DEF TokensOK
<1> QED BY <1>4, <1>5, <1>6 DEF TokensOK
-----------------------------------------------------------------------------
(* A job whose request is about to leave. *)
Leaving(q) ==
    /\ q \in JobType /\ q.w \in McpWorkload /\ q.w.kind = "call"
    /\ q.taken = "none" /\ q.out = "none" /\ q.asked = <<>>

LEMMA FinishOK ==
    ASSUME NEW q \in JobType, NEW out \in Outs, q.w \in McpWorkload,
           Whole(Finish(q, out))
    PROVE  JobOK(Finish(q, out))
BY DEF JobOK, Finish, JobType, PCsOf

LEMMA TransportKeeps ==
    ASSUME JobsOK, KnownOK(known), TokensOK, NEW j \in Jobs, NEW q, Leaving(q), Transport(j, q)
    PROVE  JobsOK' /\ TokensOK'
<1>1. CASE ~Seen(q.w)
  <2>1. PICK t : t = Finish(q, "forwarded")  OBVIOUS
  <2>2. JobOK(t)  BY <2>1 DEF Leaving, JobOK, Finish, JobType, PCsOf, Outs, Whole
  <2>3. SetJob(j, t) /\ UNCHANGED <<tokens, spare>>  BY <1>1, <2>1 DEF Transport
  <2> QED BY <2>2, <2>3, SetJobKeeps DEF TokensOK
<1>2. CASE Seen(q.w)
  <2>1. WireTakes(j, q)  BY <1>2 DEF Transport
  <2>2. PICK t : t = [q EXCEPT !.taken = q.w.plane]  OBVIOUS
  <2>3. q.w.plane \in {"fetch", "node", "undici", "stdio"}  BY DEF Leaving
  <2>4. q.w.calls \in Seq(Calls) /\ Len(q.w.calls) > 0 /\ q.w.calls[1] \in Calls /\ q.w.endpoint \in Endpoints
    <3>1. q.w.calls \in Seq(Calls) /\ q.w.calls # <<>> /\ q.w.endpoint \in Endpoints  BY DEF Leaving
    <3> QED BY <3>1
  <2>5. PICK k \in Keys : k = mcpActionFor(q.w.endpoint, q.w.calls[1])  BY <2>4, SubjectKey
  <2>6. t \in JobType /\ t.w = q.w /\ t.taken = q.w.plane /\ t.out = "none" /\ t.asked = <<>>
    BY <2>2, <2>3 DEF Leaving, JobType
  <2>7. PICK u : u = [t EXCEPT !.pc = "wire"]  OBVIOUS
  <2>8. JobOK(u)
    BY <2>4, <2>6, <2>7 DEF Leaving, JobOK, JobType, PCsOf, Whole
  <2>9. CASE Len(q.w.calls) > 1
    <3>1. SetJob(j, u) /\ UNCHANGED <<tokens, spare>>  BY <2>1, <2>2, <2>7, <2>9 DEF WireTakes
    <3> QED BY <2>8, <3>1, SetJobKeeps DEF TokensOK
  <2>10. CASE ~(Len(q.w.calls) > 1)
    <3>1. tokens' = consumeMcpCallEvaluated(k)  BY <2>1, <2>5, <2>10 DEF WireTakes
    <3>2. CASE Live(tokens, k)
      <4>1. spare' = [spare EXCEPT ![k] = @ - 1] /\ SetJob(j, [Finish(t, "forwarded") EXCEPT !.token = TRUE])
        BY <2>1, <2>2, <2>5, <2>10, <3>2 DEF WireTakes
      <4>2. PICK x : x = [Finish(t, "forwarded") EXCEPT !.token = TRUE]  OBVIOUS
      <4>3. JobOK(x)  BY <2>6, <4>2 DEF Leaving, JobOK, Finish, JobType, PCsOf, Outs, Whole
      <4>4. TokensOK'  BY <3>1, <3>2, <4>1, ConsumeKeeps DEF Live
      <4> QED BY <4>1, <4>2, <4>3, <4>4, SetJobKeeps
    <3>3. CASE ~Live(tokens, k)
      <4>1. SetJob(j, u) /\ spare' = spare
        BY <2>1, <2>2, <2>5, <2>7, <2>10, <3>3 DEF WireTakes
      <4> QED BY <2>8, <3>1, <4>1, SetJobKeeps, ConsumeKeeps
    <3> QED BY <3>2, <3>3
  <2> QED BY <2>9, <2>10
<1> QED BY <1>1, <1>2

(* A verdict of a plane: the request is sent on after the last one, if     *)
(* none of them is a deny.                                                 *)
LEMMA WireVerdictKeeps ==
    ASSUME McpInv, NEW p, NEW j \in Jobs, NEW v \in McpVerdicts, WireVerdict(p, j, v)
    PROVE  McpInv'
<1>1. PICK q : q = job[j]  OBVIOUS
<1>2. /\ q \in JobType /\ q.pc = "wire" /\ q.w \in McpWorkload /\ q.w.kind = "call" /\ q.out = "none"
      /\ Len(q.asked) < Len(q.w.calls)
  BY <1>1 DEF McpInv, JobsOK, JobOK, WireVerdict
<1>3. /\ q.asked \in Seq(Ask) /\ q.w.calls \in Seq(Calls) /\ q.w.endpoint \in Endpoints
  BY <1>2 DEF JobType
<1>4. PICK i : i = Len(q.asked) + 1  OBVIOUS
<1>5. i \in Nat /\ i <= Len(q.w.calls) /\ q.w.calls[i] \in Calls  BY <1>2, <1>3, <1>4
<1>6. PICK k \in Keys : k = mcpActionFor(q.w.endpoint, q.w.calls[i])
  BY <1>3, <1>5, SubjectKey DEF McpInv
<1>7. PICK d : d = IF v = "throw" THEN mcpConf.failMode ELSE v  OBVIOUS
<1>8. d \in {"allow", "deny"}  BY <1>7 DEF McpInv, McpVerdicts
<1>9. PICK a : a = Append(q.asked, [key |-> k, verdict |-> d])  OBVIOUS
<1>10. a \in Seq(Ask) /\ Len(a) = i  BY <1>3, <1>4, <1>6, <1>8, <1>9 DEF Ask
<1>11. PICK t : t = [q EXCEPT !.asked = a]  OBVIOUS
<1>12. t \in JobType /\ t.w = q.w /\ t.asked = a /\ t.out = "none" /\ t.pc = "wire"
  BY <1>2, <1>10, <1>11 DEF JobType
<1>13. /\ SetJob(j, IF i < Len(q.w.calls) THEN t
                    ELSE IF BatchDenied(t.asked) THEN Denied(t) ELSE Finish(t, "forwarded"))
       /\ UNCHANGED <<mcpConf, client, known, tokens, scans, spare>>
  BY <1>1, <1>4, <1>6, <1>7, <1>9, <1>11 DEF WireVerdict, base
<1>14. CASE i < Len(q.w.calls)
  <2>1. JobOK(t)  BY <1>2, <1>10, <1>12, <1>14 DEF JobOK, Whole
  <2> QED BY <1>13, <1>14, <2>1, SetJobKeeps DEF McpInv, ScansOK, ClientsOK, TokensOK
<1>15. CASE ~(i < Len(q.w.calls)) /\ BatchDenied(a)
  <2>1. PICK o \in {"refused", "denied"} : Denied(t) = Finish(t, o)  BY DEF Denied
  <2>2. JobOK(Finish(t, o))
    BY <1>2, <1>12, <2>1 DEF JobOK, Finish, JobType, PCsOf, Outs, Whole
  <2> QED BY <1>12, <1>13, <1>15, <2>1, <2>2, SetJobKeeps DEF McpInv, ScansOK, ClientsOK, TokensOK
<1>16. CASE ~(i < Len(q.w.calls)) /\ ~BatchDenied(a)
  <2>1. \A n \in DOMAIN a : a[n] \in Ask /\ a[n].verdict # "deny"  BY <1>10, <1>16 DEF BatchDenied
  <2>2. \A n \in DOMAIN a : a[n].verdict = "allow"  BY <2>1 DEF Ask
  <2>3. Len(a) = Len(q.w.calls)  BY <1>3, <1>5, <1>10, <1>16
  <2>4. PICK x : x = Finish(t, "forwarded")  OBVIOUS
  <2>5. x \in JobType /\ x.w = q.w /\ x.asked = a /\ x.pc = "done"
    BY <1>12, <2>4 DEF Finish, JobType, PCsOf, Outs
  <2>6. JobOK(x)  BY <1>2, <2>2, <2>3, <2>5 DEF JobOK, Whole
  <2> QED BY <1>12, <1>13, <1>16, <2>4, <2>6, SetJobKeeps DEF McpInv, ScansOK, ClientsOK, TokensOK
<1> QED BY <1>14, <1>15, <1>16
-----------------------------------------------------------------------------
(* recordMcpServer keeps the names of the servers: of the endpoint itself, *)
(* whatever the answer brings, and of the others but for an eviction.      *)
NamesKept(m, n) ==
    \A d \in Endpoints : Has(m, d) /\ Lookup(m, d).name # NoName =>
        \/ Has(n, d) /\ Lookup(n, d).name = Lookup(m, d).name
        \/ ~Has(n, d) /\ Len(m) >= MaxEndpoints

LEMMA RecordKeeps ==
    ASSUME KnownOK(known), NEW e \in Endpoints, NEW name \in {NoName, NameOf[e]}, NEW session \in BOOLEAN
    PROVE  KnownOK(recordMcpServer(e, name, session)) /\ NamesKept(known, recordMcpServer(e, name, session))
<1>1. CASE name = NoName /\ ~session
  <2>1. recordMcpServer(e, name, session) = known  BY <1>1 DEF recordMcpServer
  <2> QED BY <2>1 DEF NamesKept
<1>2. CASE ~(name = NoName /\ ~session)
  <2>1. PICK r : r = Merged(e, name, session)  OBVIOUS
  <2>2. PICK n : n = recordMcpServer(e, name, session)  OBVIOUS
  <2>3. RecordOf(e) \in Record /\ RecordOf(e).name \in {NoName, NameOf[e]}
    <3>1. CASE Has(known, e)
      <4>1. PICK i : i = IndexOf(known, e)  OBVIOUS
      <4>2. i \in DOMAIN known /\ known[i].key = e  BY <3>1, <4>1, IndexOfHas
      <4>3. RecordOf(e) = known[i]  BY <3>1, <4>1 DEF RecordOf, Recorded, Lookup
      <4> QED BY <4>2, <4>3 DEF KnownOK
    <3>2. CASE ~Has(known, e)
      BY <3>2 DEF RecordOf, Recorded, Record, Names
    <3> QED BY <3>1, <3>2
  <2>4. /\ r \in Record /\ r.key = e /\ r.name \in {NoName, NameOf[e]}
        /\ RecordOf(e).name # NoName => r.name = RecordOf(e).name
    BY <2>1, <2>3 DEF Merged, Record, Names
  <2>5. n = PutAtTail(known, MaxEndpoints, r)  BY <1>2, <2>1, <2>2 DEF recordMcpServer
  <2>6. n \in Seq(Record) /\ Unique(n) /\ WithinOr(n, known, r)
    BY <2>4, <2>5, PutAtTailFacts DEF KnownOK
  <2>7. KnownOK(n)  BY <2>4, <2>6 DEF KnownOK, WithinOr
  <2>8. /\ Has(n, e) /\ Lookup(n, e) = r
        /\ \A d : Has(known, d) /\ d # e =>
              \/ Has(n, d) /\ Lookup(n, d) = Lookup(known, d)
              \/ ~Has(n, d) /\ Len(known) >= MaxEndpoints
    BY <2>4, <2>5, PutAtTailLookup DEF KnownOK
  <2>9. Has(known, e) => RecordOf(e) = Lookup(known, e)  BY DEF RecordOf, Recorded
  <2>10. NamesKept(known, n)  BY <2>4, <2>8, <2>9 DEF NamesKept
  <2> QED BY <2>2, <2>7, <2>10
<1> QED BY <1>1, <1>2

(* NameSticks is about the records of two maps. *)
LEMMA SticksIf ==
    ASSUME NamesKept(known, known')
    PROVE  \A e \in Endpoints : RecordOf(e).name # NoName =>
              \/ RecordOf(e)'.name = RecordOf(e).name
              \/ ~Recorded(e)' /\ Len(known) >= MaxEndpoints
<1> SUFFICES ASSUME NEW e \in Endpoints, RecordOf(e).name # NoName
             PROVE  \/ RecordOf(e)'.name = RecordOf(e).name
                    \/ ~Recorded(e)' /\ Len(known) >= MaxEndpoints
  OBVIOUS
<1>1. Has(known, e) /\ RecordOf(e) = Lookup(known, e)  BY DEF RecordOf, Recorded
<1>2. Has(known', e) => RecordOf(e)' = Lookup(known', e)  BY DEF RecordOf, Recorded
<1> QED BY <1>1, <1>2 DEF NamesKept, Recorded

(* A step that leaves the names alone. *)
LEMMA SameNames == ASSUME known' = known PROVE NamesKept(known, known')
BY DEF NamesKept
-----------------------------------------------------------------------------
LEMMA InitializeKeeps ==
    ASSUME McpInv, NEW j \in Jobs, InitializeAnswered(j)
    PROVE  McpInv' /\ NamesKept(known, known')
<1>1. PICK q : q = job[j]  OBVIOUS
<1>2. q \in JobType /\ q.pc = "init" /\ q.w \in McpWorkload /\ q.w.kind = "connect" /\ q.out = "none"
  BY <1>1 DEF McpInv, JobsOK, JobOK, InitializeAnswered
<1>3. q.w.endpoint \in Endpoints /\ q.w.session \in BOOLEAN  BY <1>2
<1>4. PICK name : name = extractServerInfo(q)  OBVIOUS
<1>5. name \in {NoName, NameOf[q.w.endpoint]}  BY <1>4 DEF extractServerInfo
<1>6. KnownOK(known') /\ NamesKept(known, known') /\ ScansOK'
  <2>1. CASE known' = known
    <3>1. scans' = scans \/ scans' = scans \cup {[e |-> q.w.endpoint, session |-> q.w.session]}
      BY <1>1 DEF InitializeAnswered, forwardMcpInitialize, forwardInitialize
    <3> QED BY <1>3, <2>1, <3>1, SameNames DEF McpInv, ScansOK
  <2>2. CASE known' = recordMcpServer(q.w.endpoint, name, q.w.session)
    <3>1. scans' = scans \/ scans' = scans \cup {[e |-> q.w.endpoint, session |-> q.w.session]}
      BY <1>1 DEF InitializeAnswered, forwardMcpInitialize, forwardInitialize
    <3>2. KnownOK(known') /\ NamesKept(known, known')
      BY <1>3, <1>5, <2>2, RecordKeeps DEF McpInv
    <3> QED BY <1>3, <3>1, <3>2 DEF McpInv, ScansOK
  <2>3. known' = known \/ known' = recordMcpServer(q.w.endpoint, name, q.w.session)
    BY <1>1, <1>4 DEF InitializeAnswered, forwardMcpInitialize, forwardInitialize
  <2> QED BY <2>1, <2>2, <2>3
<1>7. ClientsOK'
  <2>1. client' = patchedConnect(q)  BY <1>1 DEF InitializeAnswered
  <2>2. CASE client' = client  BY <2>2 DEF McpInv, ClientsOK
  <2>3. CASE client' # client
    <3>1. /\ q.w.client \in Clients
          /\ client' = [client EXCEPT ![q.w.client] =
               [at |-> q.w.endpoint,
                name |-> IF patched["patch"] /\ @.name = NoName THEN NameOf[q.w.endpoint] ELSE @.name]]
      BY <2>1, <2>3 DEF patchedConnect
    <3>2. NameOf[q.w.endpoint] \in Names  BY <1>3 DEF Names
    <3>3. PICK c \in Clients : c = q.w.client  BY <3>1
    <3>4. client[c].name \in Names  BY DEF McpInv, ClientsOK
    <3> QED BY <1>3, <3>1, <3>2, <3>3, <3>4 DEF McpInv, ClientsOK
  <2> QED BY <2>2, <2>3
<1>8. JobsOK'
  <2>1. PICK t : t = Finish(q, "forwarded")  OBVIOUS
  <2>2. JobOK(t)  BY <1>2, <2>1 DEF JobOK, Finish, JobType, PCsOf, Outs, Whole
  <2> QED BY <1>1, <2>1, <2>2, SetJobKeeps DEF McpInv, InitializeAnswered
<1>9. mcpConf' = mcpConf /\ TokensOK'  BY DEF InitializeAnswered, base, McpInv, TokensOK
<1> QED BY <1>6, <1>7, <1>8, <1>9 DEF McpInv

LEMMA ScanKeeps ==
    ASSUME McpInv, NEW s \in scans, scanInitializeStream(s)
    PROVE  McpInv' /\ NamesKept(known, known')
<1>1. s.e \in Endpoints /\ s.session \in BOOLEAN  BY DEF McpInv, ScansOK
<1>2. PICK name \in {NoName, NameOf[s.e]} : known' = recordMcpServer(s.e, name, s.session)
  BY DEF scanInitializeStream
<1>3. KnownOK(known') /\ NamesKept(known, known')  BY <1>1, <1>2, RecordKeeps DEF McpInv
<1>4. ScansOK'  BY DEF McpInv, ScansOK, scanInitializeStream
<1>5. UNCHANGED <<mcpConf, client, tokens, spare, job>>  BY DEF scanInitializeStream, base
<1> QED BY <1>3, <1>4, <1>5 DEF McpInv, JobsOK, ClientsOK, TokensOK

LEMMA IssueKeeps ==
    ASSUME McpInv, NEW j \in Jobs, NEW w \in McpWorkload, McpIssue(j, w)
    PROVE  McpInv'
<1>1. PICK q : q = [IdleJob EXCEPT !.w = w]  OBVIOUS
<1>2. /\ q \in JobType /\ q.w = w /\ q.taken = "none" /\ q.out = "none" /\ q.asked = <<>>
  <2>1. NoName \in Names /\ <<>> \in Seq(Ask)  BY DEF Names
  <2>2. IdleJob \in JobType /\ IdleJob.taken = "none" /\ IdleJob.out = "none" /\ IdleJob.asked = <<>>
    BY <2>1 DEF IdleJob, JobType, PCsOf, Outs
  <2> QED BY <1>1, <2>2 DEF JobType
<1>3. UNCHANGED <<mcpConf, known, scans>>  BY DEF McpIssue, base
<1>4. CASE /\ w.kind = "connect"
           /\ SetJob(j, [q EXCEPT !.pc = "init", !.taken = IF Seen(w) THEN w.plane ELSE "none"])
           /\ UNCHANGED <<client, tokens, spare>>
  <2>1. PICK p \in {"none", "fetch", "node", "undici", "stdio"} : p = IF Seen(w) THEN w.plane ELSE "none"
    OBVIOUS
  <2>2. PICK t : t = [q EXCEPT !.pc = "init", !.taken = p]  OBVIOUS
  <2>3. JobOK(t)  BY <1>2, <1>4, <2>2 DEF JobOK, JobType, PCsOf, Whole
  <2>4. JobsOK'  BY <1>4, <2>1, <2>2, <2>3, SetJobKeeps DEF McpInv
  <2> QED BY <1>3, <1>4, <2>4 DEF McpInv, ScansOK, ClientsOK, TokensOK
<1>5. CASE /\ w.kind = "call" /\ w.client \in Clients
           /\ client' = [client EXCEPT ![w.client].name = CachedName(w)]
           /\ SetJob(j, [q EXCEPT !.pc = "patch", !.name = CachedName(w)])
           /\ UNCHANGED <<tokens, spare>>
  <2>1. PICK n : n = CachedName(w)  OBVIOUS
  <2>2. n \in Names
    <3>1. client[w.client].name \in Names  BY <1>5 DEF McpInv, ClientsOK
    <3>2. NameOf[w.endpoint] \in Names  BY DEF Names
    <3> QED BY <2>1, <3>1, <3>2 DEF CachedName
  <2>3. PICK t : t = [q EXCEPT !.pc = "patch", !.name = n]  OBVIOUS
  <2>4. JobOK(t)  BY <1>2, <1>5, <2>2, <2>3 DEF JobOK, JobType, PCsOf, Whole
  <2>5. JobsOK'  BY <1>5, <2>1, <2>3, <2>4, SetJobKeeps DEF McpInv
  <2>6. ClientsOK'  BY <1>5, <2>1, <2>2 DEF McpInv, ClientsOK
  <2> QED BY <1>3, <1>5, <2>5, <2>6 DEF McpInv, ScansOK, TokensOK
<1>6. CASE w.kind = "call" /\ Transport(j, q) /\ UNCHANGED client
  <2>1. Leaving(q)  BY <1>2, <1>6 DEF Leaving
  <2>2. JobsOK' /\ TokensOK'  BY <1>6, <2>1, TransportKeeps DEF McpInv
  <2> QED BY <1>3, <1>6, <2>2 DEF McpInv, ScansOK, ClientsOK
<1> QED BY <1>1, <1>4, <1>5, <1>6 DEF McpIssue

LEMMA CallToolKeeps ==
    ASSUME McpInv, NEW j \in Jobs, NEW v \in McpVerdicts, patchedCallTool(j, v)
    PROVE  McpInv'
<1>1. PICK q : q = job[j]  OBVIOUS
<1>2. /\ q \in JobType /\ q.pc = "patch" /\ q.w \in McpWorkload /\ q.w.kind = "call" /\ q.out = "none"
      /\ q.taken = "none"
  BY <1>1 DEF McpInv, JobsOK, JobOK, patchedCallTool
<1>3. q.w.calls \in Seq(Calls) /\ q.w.calls # <<>> /\ q.name \in Names  BY <1>2 DEF JobType
<1>4. q.w.calls[1] \in Calls  BY <1>3
<1>5. PICK k \in Keys : k = namespacedToolName(q.w.calls[1], q.name)
  <2>1. \A c \in Calls, n \in Names : namespacedToolName(c, n) \in Keys  BY DEF namespacedToolName, Keys
  <2> QED BY <1>3, <1>4, <2>1
<1>6. PICK a : a = <<[key |-> k, verdict |-> IF v = "allow" THEN "allow" ELSE "deny"]>>  OBVIOUS
<1>7. a \in Seq(Ask)  BY <1>6 DEF Ask
<1>8. PICK n \in Nat : n = IF mcpConf.shared THEN 0 ELSE 1  OBVIOUS
<1>9. PICK t : t = [q EXCEPT !.asked = a, !.ship = n]  OBVIOUS
<1>10. t \in JobType /\ t.w = q.w /\ t.out = "none" /\ t.taken = "none"
  BY <1>2, <1>7, <1>9 DEF JobType
<1>11. UNCHANGED <<mcpConf, client, known, scans>>  BY DEF patchedCallTool, base
<1>12. CASE v # "allow"
  <2>1. PICK x : x = Finish(t, "denied")  OBVIOUS
  <2>2. JobOK(x)  BY <1>2, <1>10, <2>1 DEF JobOK, Finish, JobType, PCsOf, Outs, Whole
  <2>3. SetJob(j, x) /\ UNCHANGED <<tokens, spare>>
    BY <1>1, <1>5, <1>6, <1>8, <1>9, <1>12, <2>1 DEF patchedCallTool
  <2> QED BY <1>11, <2>2, <2>3, SetJobKeeps DEF McpInv, ScansOK, ClientsOK, TokensOK
<1>13. CASE v = "allow"
  <2>1. PICK x : x = [t EXCEPT !.pc = "send"]  OBVIOUS
  <2>2. JobOK(x)  BY <1>2, <1>10, <2>1 DEF JobOK, JobType, PCsOf, Whole
  <2>3. SetJob(j, x) /\ tokens' = markMcpCallEvaluated(k) /\ spare' = [spare EXCEPT ![k] = @ + 1]
    BY <1>1, <1>5, <1>6, <1>8, <1>9, <1>13, <2>1 DEF patchedCallTool
  <2>4. TokensOK'  BY <2>3, MarkKeeps DEF McpInv
  <2> QED BY <1>11, <2>2, <2>3, <2>4, SetJobKeeps DEF McpInv, ScansOK, ClientsOK
<1> QED BY <1>12, <1>13

LEMMA SendCallKeeps ==
    ASSUME McpInv, NEW j \in Jobs, SendCall(j)  PROVE McpInv'
<1>1. PICK q : q = job[j]  OBVIOUS
<1>2. /\ q \in JobType /\ q.w \in McpWorkload /\ q.w.kind = "call" /\ q.out = "none" /\ q.taken = "none"
  BY <1>1 DEF McpInv, JobsOK, JobOK, SendCall
<1>3. PICK t : t = [q EXCEPT !.asked = <<>>, !.name = NoName]  OBVIOUS
<1>4. Leaving(t)
  <2>1. NoName \in Names /\ <<>> \in Seq(Ask)  BY DEF Names
  <2>2. t \in JobType /\ t.w = q.w /\ t.out = q.out /\ t.taken = q.taken /\ t.asked = <<>>
    BY <1>2, <1>3, <2>1 DEF JobType
  <2> QED BY <1>2, <2>2 DEF Leaving
<1>5. JobsOK' /\ TokensOK'  BY <1>1, <1>3, <1>4, TransportKeeps DEF McpInv, SendCall
<1> QED BY <1>5 DEF McpInv, SendCall, base, ScansOK, ClientsOK

LEMMA ShipKeeps ==
    ASSUME McpInv, NEW j \in Jobs, shipWithRetry(j)  PROVE McpInv'
<1>1. PICK n \in Nat : SetJob(j, [job[j] EXCEPT !.ship = n])
  BY DEF shipWithRetry
<1>2. PICK q, t : q = job[j] /\ t = [q EXCEPT !.ship = n]  OBVIOUS
<1>3. JobOK(q)  BY <1>2 DEF McpInv, JobsOK
<1>4. JobOK(t)  BY <1>2, <1>3 DEF JobOK, JobType, Whole
<1>5. JobsOK'  BY <1>1, <1>2, <1>4, SetJobKeeps DEF McpInv
<1> QED BY <1>5 DEF McpInv, shipWithRetry, base, ScansOK, ClientsOK, TokensOK

LEMMA McpTickKeeps ==
    ASSUME McpInv, Tick  PROVE McpInv'
<1>1. DOMAIN tokens' = DOMAIN tokens /\ \A i \in DOMAIN tokens : tokens'[i] = [tokens[i] EXCEPT !.left = Countdown(@)]
  BY DEF Tick, Elapse
<1>2. \A n \in 0 .. TokenTtl : Countdown(n) \in 0 .. TokenTtl  BY DEF Countdown
<1>3. \A i \in DOMAIN tokens : tokens[i] \in Token  BY DEF McpInv, TokensOK
<1>4. \A i \in DOMAIN tokens : tokens'[i] \in Token /\ tokens'[i].key = tokens[i].key
  BY <1>1, <1>2, <1>3 DEF Token
<1>5. tokens' \in Seq(Token)
  <2>1. PICK n \in Nat : n = Len(tokens) /\ DOMAIN tokens = 1 .. n  BY DEF McpInv, TokensOK
  <2>2. tokens' \in [1 .. n -> Token]  BY <1>1, <1>4, <2>1 DEF Tick, Elapse
  <2> QED BY <2>1, <2>2, FunctionIsSeq
<1>6. Unique(tokens') /\ \A k \in Keys : Has(tokens', k) <=> Has(tokens, k)
  BY <1>1, <1>4 DEF McpInv, TokensOK, Unique, Has
<1>7. UNCHANGED <<mcpConf, client, known, scans, spare, job>>  BY DEF Tick
<1> QED BY <1>5, <1>6, <1>7 DEF McpInv, JobsOK, ScansOK, ClientsOK, TokensOK

LEMMA McpStutter ==
    ASSUME McpInv, UNCHANGED <<mcpConf, client, known, scans, tokens, spare, job>>
    PROVE  McpInv'
BY DEF McpInv, JobsOK, ScansOK, ClientsOK, TokensOK
-----------------------------------------------------------------------------
(* A step keeps the invariant, and the names that were recorded. *)
LEMMA McpStep ==
    ASSUME McpInv, [McpNext]_mcpVars
    PROVE  McpInv' /\ NamesKept(known, known')
<1>1. ASSUME NEW j \in Jobs, NEW v \in McpVerdicts,
             patchedCallTool(j, v) \/ evalMcpCall(j, v) \/ evalCall(j, v) \/ evalMcpUndici(j, v)
      PROVE  McpInv' /\ known' = known
  BY <1>1, CallToolKeeps, WireVerdictKeeps
     DEF evalMcpCall, evalCall, evalMcpUndici, WireVerdict, patchedCallTool
<1>2. ASSUME NEW j \in Jobs, SendCall(j) \/ shipWithRetry(j)
      PROVE  McpInv' /\ known' = known
  BY <1>2, SendCallKeeps, ShipKeeps DEF SendCall, shipWithRetry
<1>3. ASSUME NEW j \in Jobs, McpReply(j)
      PROVE  McpInv' /\ NamesKept(known, known')
  BY <1>1, <1>2, <1>3, InitializeKeeps, SameNames DEF McpReply
<1>4. ASSUME NEW j \in Jobs, NEW w \in McpWorkload, McpIssue(j, w)
      PROVE  McpInv' /\ known' = known
  BY <1>4, IssueKeeps DEF McpIssue
<1>5. ASSUME NEW p, NEW on, PatchPlane(p, on)
      PROVE  McpInv' /\ known' = known
  BY <1>5, McpStutter DEF PatchPlane
<1>6. CASE Tick
  BY <1>6, McpTickKeeps, SameNames DEF Tick
<1>7. CASE UNCHANGED mcpVars
  BY <1>7, McpStutter, SameNames DEF mcpVars
<1>8. CASE McpNext
  BY <1>3, <1>4, <1>5, <1>6, <1>8, ScanKeeps, SameNames
     DEF McpNext, installMcpStdioPatch, uninstallMcpStdioPatch
<1> QED BY <1>7, <1>8

(* The planes and the patched clients of MCP, for any number of jobs under *)
(* way at once, any workload, endpoints and limits of the two maps.        *)
THEOREM McpInvariant == McpSpec => []McpInv
<1>1. McpInit => McpInv  BY McpStart
<1>2. McpInv /\ [McpNext]_mcpVars => McpInv'  BY McpStep
<1> QED BY <1>1, <1>2, PTL DEF McpSpec

(* consumeMcpCallEvaluated lets a call pass a plane only on the allow that *)
(* the patch got for its subject, and one allow lets one call pass,        *)
(* whatever expires and is pruned in between.                              *)
THEOREM TokensAreSound == McpSpec => []TokenSound
<1>1. McpInv => TokenSound
  <2> SUFFICES ASSUME McpInv, NEW k \in Keys
               PROVE  spare[k] >= Cardinality({i \in DOMAIN tokens : tokens[i].key = k})
    BY DEF TokenSound
  <2>1. Cardinality({i \in DOMAIN tokens : tokens[i].key = k}) = IF Has(tokens, k) THEN 1 ELSE 0
    BY CountOfKey DEF McpInv, TokensOK
  <2> QED BY <2>1 DEF McpInv, TokensOK
<1> QED BY <1>1, McpInvariant, PTL

(* A plane sends a batch on only when each of its calls was evaluated and  *)
(* none was denied, a single call with its allow or its token.             *)
THEOREM BatchesAreWhole == McpSpec => []BatchWhole
<1>1. McpInv => BatchWhole
  <2>1. McpInv => \A j \in Jobs : Whole(job[j])  BY DEF McpInv, JobsOK, JobOK
  <2> QED BY <2>1 DEF BatchWhole, Whole
<1> QED BY <1>1, McpInvariant, PTL

(* recordMcpServer never forgets the name of a server whose endpoint it    *)
(* keeps, and forgets an endpoint only when the map is full.               *)
THEOREM NamesStick == McpSpec => NameSticks
<1>1. McpInv /\ [McpNext]_mcpVars =>
        [\A e \in Endpoints : RecordOf(e).name # NoName =>
            \/ RecordOf(e)'.name = RecordOf(e).name
            \/ ~Recorded(e)' /\ Len(known) >= MaxEndpoints]_mcpVars
  BY McpStep, SticksIf
<1> QED BY <1>1, McpInvariant, PTL DEF McpSpec, NameSticks
=============================================================================
