----------------------------- MODULE HttpEgress -----------------------------
(***************************************************************************)
(* The three planes that see an agent's outgoing HTTP requests to models:  *)
(* the wrap of globalThis.fetch, the wrap of http(s).request and the wrap  *)
(* of undici's global dispatcher, through which a native fetch passes a    *)
(* second time.  A plane may hold a request until its vault placeholder is *)
(* resolved, its prompt is observed and the tool calls it repeats are      *)
(* evaluated; it then forwards it, and evaluates the calls of the answer   *)
(* before the caller gets it.  Streamed answers go on to StreamEnforcer;   *)
(* MCP requests are McpEgress.                                             *)
(*                                                                         *)
(* A step runs from one await to the next.  What the evaluator answers,    *)
(* when and in which order, and what the upstream answers, is chosen.      *)
(***************************************************************************)
EXTENDS ProviderBodies, FiniteSets

CONSTANTS
    Reqs,        \* requests of the agent
    Workload,    \* the requests it may issue
    Answers,     \* the answers an upstream may give
    Configs,     \* the configurations covered
    MaxBlocks,   \* bound: blocks of an answer
    MaxRetries,  \* observePromptMaxRetries
    MaxFlips     \* bound: installs, teardowns and addon changes after the start

Planes == {"fetch", "node", "undici"}

ASSUME EgressAssumption ==
    /\ \A w \in Workload : w.plane \in Planes
    /\ Answers \subseteq [type : {"json", "stream", "null", "other"}, ok : BOOLEAN, gateway : BOOLEAN,
                         blocks : Seq(Int), others : Seq(Int), reason : STRING]
    /\ \A c \in Configs : c.failMode \in {"allow", "deny"}
    /\ MaxRetries \in Nat /\ MaxFlips \in Nat

Verdicts == {"allow", "deny", "throw"}

VARIABLES
    conf,       \* failMode, proxied (pdpProxyUrl is set), capture, sync, passthrough
    installed,  \* which planes are patched in
    addon,      \* featureState("addon.policy.pii-advanced")
    cached,     \* the vault's lease is in the resolver's cache, and not expired
    flips,
    req         \* the requests

env  == <<conf, installed, addon, cached, flips>>
vars == <<env, req>>

----------------------------------------------------------------------------
(* A request. *)

NoPost == [mode |-> "off", posts |-> 0, state |-> "none"]
Idle == [pc |-> "idle", w |-> <<>>, taken |-> "none", hdr |-> "none", post |-> NoPost,
         asked |-> <<>>, sends |-> <<>>, todo |-> <<>>, answer |-> <<>>, rulings |-> {},
         wrapped |-> {}, unenforced |-> {}, out |-> "none", heard |-> FALSE]

Init ==
    /\ conf \in Configs
    /\ installed \in {[p \in Planes |-> TRUE], [p \in Planes |-> p # "undici"]}
    /\ addon = "unknown" /\ flips = 0
    /\ cached \in BOOLEAN   \* earlier requests may have filled the cache
    /\ req = [r \in Reqs |-> Idle]

\* What an evaluation that throws counts as.
Ruled(v) == IF v = "throw" THEN conf.failMode ELSE v

\* The caller's promise, handler or "error" listener is told.
Told(q, out) == [q EXCEPT !.pc = "done", !.out = out, !.heard = TRUE]

\* The facade emits "response" on the object that http.request returned; the
\* callback http.request was given is parsed by normalizeArgs and left alone.
EmitResponse(q, out) == [q EXCEPT !.pc = "done", !.out = out, !.heard = ~q.w.callback]

Deliver(q, out) ==
    IF q.taken = "node" /\ q.w.kind = "llm" THEN EmitResponse(q, out) ELSE Told(q, out)

\* The caller gets a refusal in the shape it expects and no socket is opened.
shortCircuitDeny(q)  == Told(q, "denied")
emitSyntheticDeny(q) == EmitResponse(q, "denied")
synthesizeDeny(q)    == Told(q, "denied")

Deny(q) ==
    CASE q.taken = "fetch" -> shortCircuitDeny(q)
      [] q.taken = "node"  -> emitSyntheticDeny(q)
      [] OTHER             -> synthesizeDeny(q)

----------------------------------------------------------------------------
(* The request leaves. *)

\* A string or bytes ("text", "malformed") are read; a stream or a form is not.
readRequestBody(w) == w.body # "stream"

\* JSON whose messages are no objects: the extractor dereferences them.
extractThrows(w) == w.body = "malformed"

RequestCalls(q) ==
    IF readRequestBody(q.w) THEN extractRequestToolCalls(q.w.shape, q.w.calls) ELSE <<>>

\* Mode (a) of the dispatcher: what goes to a host of a known provider goes to
\* the PDP's proxy instead, the paths that no format belongs to included.
rewriteToPdpProxy(w) == w.kind \in {"llm", "embed"} /\ conf.proxied /\ pdpProxyProvider(w.shape)

(* Mutant: the dispatcher does not look for the marker. *)
consumePlaneMarkerBlind(stamped) == FALSE

\* The dispatcher reads the marker x-agentum-plane and strips it.
consumePlaneMarker(stamped) == stamped

\* patchedDispatch on what a native fetch sends: its body is a stream by then,
\* so no call is read out of it, and only the answer may be enforced.
ridden(q, stamped) ==
    IF q.w.kind = "llm" /\ ~rewriteToPdpProxy(q.w) /\ ~consumePlaneMarker(stamped)
    THEN <<"undici">> ELSE <<>>

\* by: the plane that stands ready to enforce the answer; stamped: the request
\* carries the marker; direct: no plane rewrites where it goes.
Forward(q, by, stamped, direct) ==
    LET rides   == q.w.plane = "fetch" /\ installed["undici"]
        toProxy == q.w.kind = "proxy" \/ (rewriteToPdpProxy(q.w) /\ (rides \/ ~direct))
    IN  [q EXCEPT !.pc = "sent", !.todo = (IF rides THEN ridden(q, stamped) ELSE <<>>) \o by,
                  !.sends = Append(@, [hdr |-> q.hdr, marker |-> stamped /\ ~rides,
                                       to |-> IF toProxy THEN "proxy" ELSE "upstream"])]

stampPlaneMarker(q) == Forward(q, <<"fetch">>, TRUE, TRUE)
forwardUpstream(q)  == Forward(q, <<"node">>, FALSE, TRUE)
passThrough(q)      == Forward(q, <<>>, FALSE, TRUE)

(* Mutant: only the first declared call is evaluated. *)
NextCallFirst(q) == q.asked = <<>> /\ RequestCalls(q) # <<>>

\* A declared call is still to be evaluated; they are evaluated one by one.
NextCall(q) == Len(q.asked) < Len(RequestCalls(q))

\* The dispatcher, after the last of them, or when they cannot be read: its
\* own catch forwards the request, and its answer is enforced all the same.
runPreflight(q) ==
    IF ~extractThrows(q.w) /\ NextCall(q) THEN [q EXCEPT !.pc = "eval"]
    ELSE Forward(q, IF consumePlaneMarker(FALSE) THEN <<>> ELSE <<"undici">>, FALSE, TRUE)

\* Something failed inside intercept, before or after the request was sent:
\* the fetch plane denies, or starts over without itself.
fetchInternalError(q) ==
    IF conf.failMode = "deny" THEN shortCircuitDeny(q) ELSE passThrough([q EXCEPT !.rulings = {}])

\* dispatch() rejected: the facade emits "error", and nothing is sent.
dispatchError(q) == Told(q, "error")

PreflightThrows(q) ==
    CASE q.taken = "fetch" -> fetchInternalError(q)
      [] q.taken = "node"  -> dispatchError(q)
      [] OTHER             -> runPreflight(q)

Preflight(q) ==
    IF extractThrows(q.w) THEN PreflightThrows(q)
    ELSE IF NextCall(q) THEN [q EXCEPT !.pc = "eval"]
    ELSE IF q.taken = "fetch" THEN stampPlaneMarker(q)
    ELSE IF q.taken = "node" THEN forwardUpstream(q) ELSE runPreflight(q)

----------------------------------------------------------------------------
(* The prompt is observed, the vault asked. *)

resolvePromptCaptureMode(a) ==
    IF conf.capture = "raw" /\ a # "enabled" THEN "masked" ELSE conf.capture

\* The planes' thunk: the addon is read for every request.
resolveMode == resolvePromptCaptureMode(addon)

\* The pipeline may fail, and then nothing is posted.
maskObserveContent(mode, maskFails) == ~(mode = "masked" /\ maskFails)

Observe(q, maskFails) ==
    LET posts == /\ resolveMode # "off" /\ readRequestBody(q.w)
                 /\ maskObserveContent(resolveMode, maskFails)
        p == [q EXCEPT !.post = IF posts THEN [mode |-> resolveMode, posts |-> 1, state |-> "flight"] ELSE NoPost]
    IN  IF posts /\ conf.sync THEN [p EXCEPT !.pc = "observe"] ELSE Preflight(p)

\* Observed (and awaited, with syncObserve), then evaluated.
intercept(q, maskFails)      == Observe(q, maskFails)
facadeDispatch(q, maskFails) == Observe(q, maskFails)

(* Mutant: only the headers are looked at for a placeholder. *)
bodyContainsPlaceholderNever(w) == FALSE

bodyContainsPlaceholder(w) == w.vault = "body" /\ readRequestBody(w)

\* patchedFetch, after the placeholders of its headers.
FetchGate(q, maskFails) ==
    IF bodyContainsPlaceholder(q.w) THEN Told(q, "threw")
    ELSE IF q.w.kind = "llm" THEN intercept(q, maskFails) ELSE passThrough(q)

\* Only the headers of init are looked at, and not for the PDP's proxy.
headersContainPlaceholder(w) == w.vault = "init" /\ w.kind # "proxy"

patchedFetch(q, maskFails) ==
    IF ~headersContainPlaceholder(q.w) THEN FetchGate(q, maskFails)
    ELSE IF cached THEN FetchGate([q EXCEPT !.hdr = "secret"], maskFails)
    ELSE [q EXCEPT !.pc = "vault"]

\* The caller gets a facade, which collects what it writes.
makePatchedRequest(q) == IF q.w.kind = "llm" THEN [q EXCEPT !.pc = "open"] ELSE passThrough(q)

patchedDispatch(q) ==
    IF q.w.kind = "llm" /\ ~rewriteToPdpProxy(q.w) THEN runPreflight(q)
    ELSE Forward(q, <<>>, FALSE, FALSE)

----------------------------------------------------------------------------
(* Steps of a request. *)

Set(r, q) == req' = [req EXCEPT ![r] = q]

Issue(r, w) ==
    LET q == [Idle EXCEPT !.w = w, !.taken = IF installed[w.plane] THEN w.plane ELSE "none",
                          !.hdr = IF w.vault \in {"init", "request"} THEN "placeholder" ELSE "none"]
    IN  /\ req[r].pc = "idle"
        /\ \E maskFails \in BOOLEAN :
              Set(r, CASE q.taken = "none"  -> passThrough(q)
                       [] q.taken = "fetch" -> patchedFetch(q, maskFails)
                       [] q.taken = "node"  -> makePatchedRequest(q)
                       [] OTHER             -> patchedDispatch(q))
        /\ UNCHANGED env

\* The caller ends the facade; a second end() finds it ended.
FacadeEnd(r) ==
    /\ req[r].pc = "open"
    /\ \E maskFails \in BOOLEAN : Set(r, facadeDispatch(req[r], maskFails))
    /\ UNCHANGED env

resolvePlaceholder(r) ==
    /\ req[r].pc = "vault"
    /\ \/ /\ cached' = TRUE
          /\ \E maskFails \in BOOLEAN : Set(r, FetchGate([req[r] EXCEPT !.hdr = "secret"], maskFails))
       \/ Set(r, Told(req[r], "threw")) /\ UNCHANGED cached
    /\ UNCHANGED <<conf, installed, addon, flips>>

\* ok and 4xx end it, a transport error or a 5xx is retried MaxRetries times.
Posted(q, fails) ==
    LET done == [q EXCEPT !.post.state = "over"]
    IN  IF fails /\ q.post.posts <= MaxRetries THEN [q EXCEPT !.post.posts = @ + 1]
        ELSE IF q.pc = "observe" THEN Preflight(done) ELSE done

postObservePrompt(r) ==
    /\ req[r].post.state = "flight" /\ req[r].taken = "fetch"
    /\ \E fails \in BOOLEAN : Set(r, Posted(req[r], fails))
    /\ UNCHANGED env

postObservePromptNode(r) ==
    /\ req[r].post.state = "flight" /\ req[r].taken = "node"
    /\ \E fails \in BOOLEAN : Set(r, Posted(req[r], fails))
    /\ UNCHANGED env

PreflightVerdict(r, v) ==
    LET q == [req[r] EXCEPT !.asked = Append(@, Ruled(v))]
    IN  /\ req[r].pc = "eval"
        /\ Set(r, IF Ruled(v) = "deny" THEN Deny(q) ELSE Preflight(q))
        /\ UNCHANGED env

----------------------------------------------------------------------------
(* The answer. *)

\* The places of the calls the plane reads out of the answer, in its blocks.
AnswerCalls(q) == extractResponseToolCalls(q.w.shape, q.answer.blocks)

\* What a plane does with the answer: hand it on, wrap its stream, hold it
\* for the verdicts of its calls, or fail on it (the body is JSON's null).
wrapNonStreamingResponse(q) ==
    CASE q.answer.type = "other" -> "pass"
      [] q.answer.type = "null"  -> "fault"
      [] OTHER -> IF AnswerCalls(q) = {} THEN "pass" ELSE "hold"

wrapJsonResponse(q) == IF q.answer.type = "null" THEN "fault"
                       ELSE IF AnswerCalls(q) = {} THEN "pass" ELSE "hold"

enforceNonStreamingBody(q) ==
    IF q.answer.type = "null" \/ AnswerCalls(q) = {} THEN "pass" ELSE "hold"

streamShapeKey(shape) ==
    CASE shape \in {"openai-chat", "openai-responses"} -> "openai"
      [] shape \in {"bedrock-converse", "bedrock-invoke", "bedrock-other"} -> "bedrock"
      [] OTHER -> shape

\* AGENTUM_STREAM_PASSTHROUGH names the provider: reported, and handed on.
wrapStreamingResponse(q) ==
    IF streamShapeKey(q.w.shape) \in conf.passthrough THEN "unenforced" ELSE "stream"

interceptAnswer(q) ==
    CASE q.answer.gateway        -> "pass"
      [] q.answer.type = "stream" -> wrapStreamingResponse(q)
      [] OTHER                    -> wrapNonStreamingResponse(q)

facadeAnswer(q) ==
    CASE q.answer.gateway \/ q.answer.type = "other" -> "pass"
      [] q.answer.type = "stream" -> "stream"
      [] OTHER                    -> wrapJsonResponse(q)

wrapResponseHandler(q) ==
    CASE ~q.answer.ok \/ q.answer.type = "other" -> "pass"
      [] q.answer.type = "stream" -> "stream"
      [] OTHER                    -> enforceNonStreamingBody(q)

Handling(p, q) ==
    CASE p = "fetch" -> interceptAnswer(q)
      [] p = "node"  -> facadeAnswer(q)
      [] OTHER       -> wrapResponseHandler(q)

\* The enforcement itself failed: node gives the caller the raw answer,
\* undici its bytes.
jsonWrapError(q)    == EmitResponse(q, "answer")
jsonEnforceError(q) == Told(q, "answer")

Fault(p, q) ==
    CASE p = "fetch" -> fetchInternalError(q)
      [] p = "node"  -> jsonWrapError(q)
      [] OTHER       -> jsonEnforceError(q)

\* The answer goes through the planes still to come, up to the first that
\* does not hand it on.
Enforce(q) ==
    LET at(h) == {i \in DOMAIN q.todo : Handling(q.todo[i], q) = h}
        next  == DOMAIN q.todo \ at("pass")
        first == CHOOSE i \in next : \A j \in next : i <= j
    IN  IF next = {} THEN Deliver(q, "answer")
        ELSE IF q.answer.type = "stream"
             THEN [Deliver(q, "stream") EXCEPT !.wrapped = {q.todo[i] : i \in at("stream")},
                                               !.unenforced = {q.todo[i] : i \in at("unenforced")}]
        ELSE IF Handling(q.todo[first], q) = "fault" THEN Fault(q.todo[first], q)
        ELSE [q EXCEPT !.pc = "enforce", !.todo = SubSeq(@, first, Len(@))]

\* An upstream answers.  A failed fetch is an error inside intercept.
Answer(r, a) ==
    /\ req[r].pc = "sent"
    /\ a.others = <<>> \/ Multiple(req[r].w.shape)
    /\ Set(r, Enforce([req[r] EXCEPT !.answer = a])) /\ UNCHANGED env

UpstreamFails(r) ==
    LET q == req[r]
    IN  /\ q.pc = "sent"
        /\ Set(r, IF Contains(q.todo, "fetch") THEN fetchInternalError(q) ELSE Told(q, "error"))
        /\ UNCHANGED env

\* The verdicts of the plane that is enforcing, by position.
RulingOf(q, n) == (CHOOSE x \in q.rulings : x.plane = q.todo[1] /\ x.at = n).verdict

\* All verdicts are in: the answer is rewritten if one of them is a deny.
Settled(q) ==
    LET ns == AnswerCalls(q)
        ds == [i \in 1..Cardinality(ns) |-> RulingOf(q, Nth(ns, i))]
        q1 == [q EXCEPT !.todo = Tail(@)]
    IN  IF \A i \in DOMAIN ds : ds[i] # "deny" THEN Enforce(q1)
        ELSE IF rewriteThrows(q.w.shape, q.answer.blocks, ds) THEN Fault(q.todo[1], q)
        ELSE Enforce([q1 EXCEPT !.answer = rewriteResponseBody(q.w.shape, q.answer, ds)])

\* The calls the enforcing plane has no verdict for yet.
Open(q) ==
    {n \in AnswerCalls(q) : \A x \in q.rulings : ~(x.plane = q.todo[1] /\ x.at = n)}

\* One of the evaluations of Promise.all settles.
EnforceVerdict(p, r, n, v) ==
    /\ req[r].pc = "enforce" /\ req[r].todo[1] = p /\ n \in Open(req[r])
    /\ LET ruling == [plane |-> p, at |-> n, verdict |-> Ruled(v), call |-> req[r].answer.blocks[n]]
           q == [req[r] EXCEPT !.rulings = @ \cup {ruling}]
       IN  Set(r, IF Open(q) = {} THEN Settled(q) ELSE q)
    /\ UNCHANGED env

evaluateAll(r, n, v)      == EnforceVerdict("fetch", r, n, v)
evaluateJson(r, n, v)     == EnforceVerdict("node", r, n, v)
evalResponseCall(r, n, v) == EnforceVerdict("undici", r, n, v)

----------------------------------------------------------------------------
(* What changes around the requests. *)

Flip == flips < MaxFlips /\ flips' = flips + 1

\* A plane patches once: a second install finds the mark.
Patch(p) ==
    /\ Flip /\ ~installed[p] /\ installed' = [installed EXCEPT ![p] = TRUE]
    /\ UNCHANGED <<conf, addon, cached, req>>

installFetchInterceptor            == Patch("fetch")
installNodeHttpInterceptor         == Patch("node")
installUndiciDispatcherInterceptor == Patch("undici")

Teardown(p) ==
    /\ Flip /\ installed[p] /\ installed' = [installed EXCEPT ![p] = FALSE]
    /\ UNCHANGED <<conf, addon, cached, req>>

AddonChanges(s) ==
    /\ Flip /\ addon' = s /\ addon # s /\ UNCHANGED <<conf, installed, cached, req>>

LeaseExpires == cached /\ cached' = FALSE /\ UNCHANGED <<conf, installed, addon, flips, req>>

Reply(r) ==
    \/ FacadeEnd(r)
    \/ resolvePlaceholder(r)
    \/ postObservePrompt(r)
    \/ postObservePromptNode(r)
    \/ \E v \in Verdicts : PreflightVerdict(r, v)
    \/ \E a \in Answers : Answer(r, a)
    \/ UpstreamFails(r)
    \/ \E n \in 1..MaxBlocks, v \in Verdicts :
          evaluateAll(r, n, v) \/ evaluateJson(r, n, v) \/ evalResponseCall(r, n, v)

Next ==
    \/ \E r \in Reqs : Reply(r) \/ \E w \in Workload : Issue(r, w)
    \/ installFetchInterceptor \/ installNodeHttpInterceptor
    \/ installUndiciDispatcherInterceptor
    \/ \E p \in Planes : Teardown(p)
    \/ \E s \in {"enabled", "disabled"} : AddonChanges(s)
    \/ LeaseExpires

Spec == Init /\ [][Next]_vars

\* The evaluator, the vault and the upstream answer (their calls time out), and
\* the caller ends the requests it opens.
FairSpec == Spec /\ \A r \in Reqs : WF_vars(Reply(r))
----------------------------------------------------------------------------
(* Properties. *)

\* A plane that took the request has its own part in enforcing it (the
\* dispatcher has none in what it routes to the proxy).
Owned(q) == q.taken # "none" /\ q.w.kind = "llm" /\ ~(q.taken = "undici" /\ rewriteToPdpProxy(q.w))

\* The fetch plane failed on the request itself.
GaveUp(q) == q.taken = "fetch" /\ extractThrows(q.w)

\* What lets a request through: every call it repeats was evaluated and allowed.
\* A body that makes the extractor throw is let through unevaluated by the
\* dispatcher and by a fetch plane that fails open, and by nobody else.
Cleared(q) ==
    IF extractThrows(q.w)
    THEN q.taken = "undici" \/ (q.taken = "fetch" /\ conf.failMode = "allow")
    ELSE q.asked = [i \in 1..Len(RequestCalls(q)) |-> "allow"]

(* No request a plane took reaches a model before every tool call that it  *)
(* repeats has been evaluated, in order, and none of them was denied; with *)
(* failMode "deny" an evaluator that throws counts as a deny.  Bodies that *)
(* cannot be read are the exception, see Cleared.                          *)
CallsGoverned ==
    \A r \in Reqs : Owned(req[r]) /\ req[r].sends # <<>> => Cleared(req[r])

\* A plane is to enforce the answer the caller gets: it was not sent a second
\* time, or right away, by a fetch plane that failed.
Enforceable(q) ==
    Owned(q) /\ Len(q.sends) = 1 /\ ~GaveUp(q) /\ q.answer.ok /\ ~q.answer.gateway

(* The message of a JSON answer that the planes are to enforce (the first  *)
(* of its choices or candidates) reaches the caller with exactly the calls *)
(* that were evaluated and allowed, each still in its place, and a notice  *)
(* in the place of each call that was denied, whatever the format and in   *)
(* whatever order the verdicts arrived.  If no call is left it no longer   *)
(* says that the turn ended to use a tool: the agent would wait for a call *)
(* it never got.                                                           *)
AnswerGoverned ==
    \A r \in Reqs : LET q == req[r]
                        blocks == q.answer.blocks IN
        q.out = "answer" /\ Enforceable(q) /\ q.answer.type = "json" =>
            /\ \A x \in q.rulings : blocks[x.at] = IF x.verdict = "deny" THEN Notice ELSE x.call
            /\ Readable(q.w.shape) =>
                  \A n \in DOMAIN blocks : IsNamed(blocks[n]) => \E x \in q.rulings : x.at = n
            /\ (\E x \in q.rulings : x.verdict = "deny") /\ q.answer.reason = "tool" =>
                  \E n \in DOMAIN blocks : IsCall(blocks[n])

(* Every call that an answer hands to the caller was evaluated.  It does   *)
(* not hold: the calls of further choices or candidates are not read       *)
(* (openAIResponseToolCalls, geminiResponseToolCalls).                     *)
EveryCallGoverned ==
    \A r \in Reqs : LET q == req[r] IN
        q.out = "answer" /\ Enforceable(q) /\ q.answer.type = "json" /\ Readable(q.w.shape) =>
            \A b \in ToSet(q.answer.blocks \o q.answer.others) :
                IsNamed(b) => \E x \in q.rulings : x.call = b /\ x.verdict = "allow"

(* The planes a request passes agree on which of them enforces the answer: *)
(* no call of it is evaluated by two and no stream is wrapped by two, and  *)
(* a stream that one of them is to enforce is wrapped or reported as handed *)
(* on, also when planes are installed and unpatched while it is under way. *)
OneEnforcer ==
    \A r \in Reqs : LET q == req[r] IN
        /\ Cardinality(q.wrapped) <= 1
        /\ \A x, y \in q.rulings : x.at = y.at => x.plane = y.plane
        /\ q.out \in {"answer", "stream"} /\ Enforceable(q) /\ q.answer.type = "stream" =>
              q.wrapped \cup q.unenforced # {}

(* What the fetch plane took leaves no placeholder of its init headers or  *)
(* of its text body at anything but the PDP's proxy, and gives the proxy's *)
(* own URL no resolved secret.                                             *)
PlaceholderKept ==
    \A r \in Reqs : LET q == req[r] IN
        q.taken = "fetch" =>
            /\ \A i \in DOMAIN q.sends :
                  /\ q.sends[i].hdr = "placeholder" => q.w.kind = "proxy" \/ q.w.vault = "request"
                  /\ q.sends[i].hdr = "secret" => q.w.kind # "proxy"
            /\ q.w.vault = "body" /\ readRequestBody(q.w) => q.sends = <<>>

(* Every request is answered, and its caller is told.                      *)
CallerHears ==
    \A r \in Reqs : req[r].pc # "idle" ~> (req[r].pc = "done" /\ req[r].heard)
=============================================================================
