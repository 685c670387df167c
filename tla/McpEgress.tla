----------------------------- MODULE McpEgress -----------------------------
(***************************************************************************)
(* Calls of MCP tools.  A client of the official MCP SDK is patched: its   *)
(* callTool evaluates the call before it is sent.  If the transport is     *)
(* HTTP the same call is then seen by the plane that patches fetch,        *)
(* node:http or undici's dispatcher; a token tells the plane that it was   *)
(* evaluated.  Raw clients are seen by the planes only.  The subject of an *)
(* evaluation is the tool with the name its server gave in its answer to   *)
(* initialize, which patch and planes learn on their own.                  *)
(*                                                                         *)
(* A step runs from one await to the next.                                 *)
(***************************************************************************)
EXTENDS LruMap, Integers, FiniteSets

CONSTANTS
    Jobs,          \* activities of the agent
    McpWorkload,   \* what a job may be
    Clients,       \* patched clients of the MCP SDK
    Endpoints,     \* server endpoints (origin and path)
    NameOf,        \* the name the server behind an endpoint gives, or NoName
    Calls,         \* a tool with its arguments
    KeyOf,         \* the first 512 characters of a call
    NoName,
    OwnOrigin,     \* endpoints on the origin of the Agentum API
    Prefixed,      \* endpoints matched by AGENTUM_MCP_ENDPOINTS
    McpConfigs,    \* failMode, shared (init() published an evaluator)
    Earlier,       \* what earlier calls left: a client's state, known, tokens
    MaxEndpoints, MaxTokens, TokenTtl,
    MaxTicks,      \* bound: length of time
    MaxPatches     \* bound: installs and teardowns after the start

Names == {NameOf[e] : e \in Endpoints} \cup {NoName}
Keys  == {<<KeyOf[c], n>> : c \in Calls, n \in Names}   \* of tokens

ASSUME McpAssumption ==
    /\ MaxEndpoints \in Nat \ {0} /\ MaxTokens \in Nat \ {0} /\ TokenTtl \in Nat \ {0}
    /\ NameOf \in [Endpoints -> STRING] /\ NoName \in STRING /\ DOMAIN KeyOf = Calls
    /\ \A c \in McpConfigs : c.failMode \in {"allow", "deny"}
    /\ \A w \in McpWorkload :
          /\ w.kind \in {"call", "connect"} /\ w.endpoint \in Endpoints
          /\ w.plane \in {"fetch", "node", "undici", "stdio"}
          /\ w.kind = "call" => w.calls \in Seq(Calls) \ {<<>>}
          /\ w.kind = "connect" => w.session \in BOOLEAN
    /\ \A s \in Earlier :
          /\ s.client \in [at : Endpoints \cup {NoName}, name : Names]
          /\ s.known \in Seq([key : Endpoints, name : Names, session : BOOLEAN]) /\ Unique(s.known)
          /\ Len(s.known) <= MaxEndpoints
          /\ \A i \in DOMAIN s.known : s.known[i].name \in {NoName, NameOf[s.known[i].key]}
          /\ s.tokens \in Seq([key : Keys, left : 0 .. TokenTtl]) /\ Unique(s.tokens)

McpPlanes == {"fetch", "node", "undici", "patch"}
McpVerdicts == {"allow", "deny", "throw"}

VARIABLES
    mcpConf,
    patched,    \* which planes are patched in
    client,     \* of each client: the endpoint it is connected to, the name it cached
    known,      \* _endpointMap: sequence of [key, name, session]
    tokens,     \* _suppressionMap: sequence of [key, left]
    scans,      \* initialize answers streamed by SSE whose copy is still read
    spare,      \* history: per token key, patch allows minus calls let through on a token
    job, now, patches

mcpVars == <<mcpConf, patched, client, known, tokens, scans, spare, job, now, patches>>
base == <<mcpConf, patched, now, patches>>

IdleJob == [pc |-> "idle", w |-> <<>>, taken |-> "none", name |-> NoName, asked |-> <<>>,
         token |-> FALSE, ship |-> 0, out |-> "none"]

McpInit ==
    /\ mcpConf \in McpConfigs
    /\ patched = [p \in McpPlanes |-> TRUE]
    /\ \E s \in Earlier :
          /\ client = [c \in Clients |-> s.client] /\ known = s.known /\ tokens = s.tokens
          /\ spare = [k \in Keys |-> Cardinality({i \in DOMAIN s.tokens : s.tokens[i].key = k})]
    /\ scans = {}
    /\ job = [j \in Jobs |-> IdleJob] /\ now = 0 /\ patches = 0

SetJob(j, q) == job' = [job EXCEPT ![j] = q]
Finish(q, out) == [q EXCEPT !.pc = "done", !.out = out]

----------------------------------------------------------------------------
(* The two maps of mcp-http.ts. *)

Recorded(e) == Has(known, e)
RecordOf(e) == IF Recorded(e) THEN Lookup(known, e) ELSE [key |-> e, name |-> NoName, session |-> FALSE]

(* Mutant: what was known of the endpoint is overwritten. *)
MergedFresh(e, name, session) == [key |-> e, name |-> name, session |-> session]

Merged(e, name, session) ==
    [key |-> e, name |-> IF name # NoName THEN name ELSE RecordOf(e).name,
     session |-> session \/ RecordOf(e).session]

\* Merged with what was known, and moved to the tail; beyond the limit, which
\* is not 0, the oldest endpoint goes.
recordMcpServer(e, name, session) ==
    IF name = NoName /\ ~session THEN known
    ELSE PutAtTail(known, MaxEndpoints, Merged(e, name, session))

\* The subject of the evaluation, which is also the key of the token.
namespacedToolName(c, name) == <<KeyOf[c], name>>
mcpActionFor(e, c) == namespacedToolName(c, RecordOf(e).name)

\* The expired tokens go, and the oldest beyond the limit.
pruneSuppression(s) ==
    LET live == Sweep(s)
    IN  IF Len(live) > MaxTokens THEN SubSeq(live, Len(live) - MaxTokens + 1, Len(live)) ELSE live

\* An old token of the same key keeps its place and gets a new deadline.
markMcpCallEvaluated(k) ==
    LET s == pruneSuppression(tokens)
        t == [key |-> k, left |-> TokenTtl]
    IN  IF Has(s, k) THEN [s EXCEPT ![IndexOf(s, k)] = t] ELSE Append(s, t)

(* Mutant: the token stays. *)
consumeMcpCallEvaluatedKeeps(k) == tokens

\* The token goes, expired or not.
consumeMcpCallEvaluated(k) == Without(tokens, k)

----------------------------------------------------------------------------
(* The planes. *)

\* Tier 1: a POST that accepts JSON and SSE; tier 2: a registered prefix.
isMcpWireCandidate(w) == w.endpoint \in Prefixed \/ w.dual

\* A request on an endpoint of tier 2 is refused with a 403, as its answers
\* are on a stream that is not the plane's; the others get a tool result.
isOldTransportEndpoint(e) == e \in Prefixed
Denied(q) == Finish(q, IF isOldTransportEndpoint(q.w.endpoint) THEN "refused" ELSE "denied")

\* The plane that sees the request and can read it: the dispatcher sees what
\* a native fetch sends too, but its body is a stream by then.
Seen(w) == /\ w.plane # "stdio" /\ patched[w.plane] /\ isMcpWireCandidate(w)
           /\ w.endpoint \notin OwnOrigin /\ w.text

\* interceptMcpFetch, McpFacadeClientRequest.dispatch, runMcpPreflight: a
\* single call may have a token, the calls of a batch are evaluated in turn.
WireTakes(j, q) ==
    LET k == mcpActionFor(q.w.endpoint, q.w.calls[1])
        t == [q EXCEPT !.taken = q.w.plane]
    IN  IF Len(q.w.calls) > 1
        THEN SetJob(j, [t EXCEPT !.pc = "wire"]) /\ UNCHANGED <<tokens, spare>>
        ELSE /\ tokens' = consumeMcpCallEvaluated(k)
             /\ IF Live(tokens, k)
                THEN /\ spare' = [spare EXCEPT ![k] = @ - 1]
                     /\ SetJob(j, [Finish(t, "forwarded") EXCEPT !.token = TRUE])
                ELSE SetJob(j, [t EXCEPT !.pc = "wire"]) /\ UNCHANGED spare

\* The request reaches the transport.
Transport(j, q) ==
    IF Seen(q.w) THEN WireTakes(j, q)
    ELSE SetJob(j, Finish(q, "forwarded")) /\ UNCHANGED <<tokens, spare>>

(* Mutant: the last verdict of a batch decides. *)
BatchDeniedLast(asked) == asked[Len(asked)].verdict = "deny"

\* Any deny denies the whole batch.
BatchDenied(asked) == \E i \in DOMAIN asked : asked[i].verdict = "deny"

\* A verdict arrives; the audit goes out with it.
WireVerdict(p, j, v) ==
    LET q == job[j]
        i == Len(q.asked) + 1
        d == IF v = "throw" THEN mcpConf.failMode ELSE v
        t == [q EXCEPT !.asked = Append(@, [key |-> mcpActionFor(q.w.endpoint, q.w.calls[i]),
                                            verdict |-> d])]
    IN  /\ q.pc = "wire" /\ q.taken = p
        /\ SetJob(j, IF i < Len(q.w.calls) THEN t
                  ELSE IF BatchDenied(t.asked) THEN Denied(t) ELSE Finish(t, "forwarded"))
        /\ UNCHANGED <<base, client, known, tokens, scans, spare>>

evalMcpCall(j, v)   == WireVerdict("fetch", j, v)
evalCall(j, v)      == WireVerdict("node", j, v)
evalMcpUndici(j, v) == WireVerdict("undici", j, v)

----------------------------------------------------------------------------
(* initialize. *)

\* result.serverInfo.name of the answer, read as JSON or out of its SSE frames.
extractServerInfo(q) == IF q.w.reply \in {"json", "sse"} THEN NameOf[q.w.endpoint] ELSE NoName

\* What the client of the SDK does with the answer: connect is patched and
\* caches the name, once.
patchedConnect(q) ==
    IF q.w.client \notin Clients \/ q.w.reply = "fails" THEN client
    ELSE [client EXCEPT ![q.w.client] =
             [at |-> q.w.endpoint,
              name |-> IF patched["patch"] /\ @.name = NoName THEN NameOf[q.w.endpoint] ELSE @.name]]

\* The fetch plane records a JSON answer before it returns it, and reads a
\* copy of an SSE answer on the side; what else comes has a session at most.
forwardMcpInitialize(q) ==
    /\ known' = IF q.w.reply \in {"sse", "fails"} THEN known
                ELSE recordMcpServer(q.w.endpoint, extractServerInfo(q), q.w.session)
    /\ scans' = IF q.w.reply = "sse" THEN scans \cup {[e |-> q.w.endpoint, session |-> q.w.session]}
                ELSE scans

\* The facade records as the bytes pass it.
forwardInitialize(q) ==
    /\ known' = IF q.w.reply = "fails" THEN known
                ELSE recordMcpServer(q.w.endpoint, extractServerInfo(q), q.w.session)
    /\ UNCHANGED scans

InitializeAnswered(j) ==
    LET q == job[j]
    IN  /\ q.pc = "init"
        /\ CASE q.taken = "fetch" -> forwardMcpInitialize(q)
             [] q.taken = "node"  -> forwardInitialize(q)
             [] OTHER             -> UNCHANGED <<known, scans>>
        /\ client' = patchedConnect(q)
        /\ SetJob(j, Finish(q, "forwarded"))
        /\ UNCHANGED <<base, tokens, spare>>

\* The copy named the server, or ended or passed the cap before it did.
scanInitializeStream(s) ==
    /\ s \in scans /\ scans' = scans \ {s}
    /\ known' \in {recordMcpServer(s.e, NameOf[s.e], s.session), recordMcpServer(s.e, NoName, s.session)}
    /\ UNCHANGED <<base, client, tokens, spare, job>>

----------------------------------------------------------------------------
(* The patched client. *)

\* The name callTool evaluates under: a client that has cached none asks for it.
CachedName(w) ==
    IF client[w.client].name # NoName THEN client[w.client].name ELSE NameOf[w.endpoint]

McpIssue(j, w) ==
    LET q == [IdleJob EXCEPT !.w = w]
    IN  /\ job[j].pc = "idle"
        /\ \/ w.kind = "connect"
              /\ SetJob(j, [q EXCEPT !.pc = "init", !.taken = IF Seen(w) THEN w.plane ELSE "none"])
              /\ UNCHANGED <<client, tokens, spare>>
           \/ /\ w.kind = "call" /\ w.client \in Clients /\ patched["patch"]
              /\ client[w.client].at = w.endpoint
              /\ LET name == CachedName(w)
                 IN  /\ client' = [client EXCEPT ![w.client].name = name]
                     /\ SetJob(j, [q EXCEPT !.pc = "patch", !.name = name])
              /\ UNCHANGED <<tokens, spare>>
           \/ /\ w.kind = "call" /\ (w.client \in Clients => ~patched["patch"])
              /\ w.client \in Clients => client[w.client].at = w.endpoint
              /\ Transport(j, q) /\ UNCHANGED client
        /\ UNCHANGED <<base, known, scans>>

\* evaluateToolCall: init()'s evaluator, or a POST of its own; whatever is
\* not an allow is a deny, an error included.  Without init() the audit is a
\* POST as well.
patchedCallTool(j, v) ==
    LET q == job[j]
        k == namespacedToolName(q.w.calls[1], q.name)
        t == [q EXCEPT !.asked = <<[key |-> k, verdict |-> IF v = "allow" THEN "allow" ELSE "deny"]>>,
                       !.ship = IF mcpConf.shared THEN 0 ELSE 1]
    IN  /\ q.pc = "patch"
        /\ IF v # "allow"
           THEN SetJob(j, Finish(t, "denied")) /\ UNCHANGED <<tokens, spare>>
           ELSE /\ tokens' = markMcpCallEvaluated(k)
                /\ spare' = [spare EXCEPT ![k] = @ + 1]
                /\ SetJob(j, [t EXCEPT !.pc = "send"])
        /\ UNCHANGED <<base, client, known, scans>>

\* originalCallTool: by then other calls may have come and gone.
SendCall(j) ==
    /\ job[j].pc = "send"
    /\ Transport(j, [job[j] EXCEPT !.asked = <<>>, !.name = NoName])
    /\ UNCHANGED <<base, client, known, scans>>

(* Mutant: the attempts are not counted. *)
shipWithRetryEndless(j) ==
    /\ job[j].ship \in 1..2 /\ SetJob(j, [job[j] EXCEPT !.ship = 3 - @])
    /\ UNCHANGED <<base, client, known, tokens, scans, spare>>

\* One retry, unless the answer is a 4xx.
shipWithRetry(j) ==
    /\ job[j].ship \in 1..2
    /\ \E again \in BOOLEAN : SetJob(j, [job[j] EXCEPT !.ship = IF again /\ @ = 1 THEN 2 ELSE 3])
    /\ UNCHANGED <<base, client, known, tokens, scans, spare>>

----------------------------------------------------------------------------
(* Around them. *)

PatchPlane(p, on) ==
    /\ patches < MaxPatches /\ patches' = patches + 1
    /\ patched[p] # on /\ patched' = [patched EXCEPT ![p] = on]
    /\ UNCHANGED <<mcpConf, client, known, tokens, scans, spare, job, now>>

installMcpStdioPatch   == PatchPlane("patch", TRUE)
uninstallMcpStdioPatch == PatchPlane("patch", FALSE)

Tick ==
    /\ now < MaxTicks /\ now' = now + 1
    /\ tokens' = Elapse(tokens)
    /\ UNCHANGED <<mcpConf, patched, client, known, scans, spare, job, patches>>

McpReply(j) ==
    \/ InitializeAnswered(j) \/ SendCall(j) \/ shipWithRetry(j)
    \/ \E v \in McpVerdicts :
          patchedCallTool(j, v) \/ evalMcpCall(j, v) \/ evalCall(j, v) \/ evalMcpUndici(j, v)

McpNext ==
    \/ \E j \in Jobs : McpReply(j) \/ \E w \in McpWorkload : McpIssue(j, w)
    \/ \E s \in scans : scanInitializeStream(s)
    \/ installMcpStdioPatch \/ uninstallMcpStdioPatch
    \/ \E p \in McpPlanes \ {"patch"}, on \in BOOLEAN : PatchPlane(p, on)
    \/ Tick

McpSpec == McpInit /\ [][McpNext]_mcpVars

\* Evaluators and servers answer: their calls time out.
McpFairSpec == McpSpec /\ \A j \in Jobs : WF_mcpVars(McpReply(j))
----------------------------------------------------------------------------
(* Properties. *)

(* No call passes a plane on a token that was not left by an allow of the  *)
(* patch for the same subject, and no allow lets two calls pass, however   *)
(* the calls of several clients overlap and tokens expire or are pruned.   *)
TokenSound ==
    \A k \in Keys : spare[k] >= Cardinality({i \in DOMAIN tokens : tokens[i].key = k})

(* What a plane that reads a request sends on was allowed: the one call by *)
(* its verdict or its token, a batch as a whole.                           *)
BatchWhole ==
    \A j \in Jobs : LET q == job[j] IN
        (q.taken # "none" /\ q.w.kind = "call" /\ q.out = "forwarded") =>
            q.token \/ (/\ Len(q.asked) = Len(q.w.calls)
                        /\ \A i \in DOMAIN q.asked : q.asked[i].verdict = "allow")

(* A name once recorded is lost with its endpoint only: an initialize that *)
(* is answered without one, or whose copy is cut, does not erase it.       *)
NameSticks ==
    [][\A e \in Endpoints : RecordOf(e).name # NoName =>
          \/ RecordOf(e)'.name = RecordOf(e).name
          \/ ~Recorded(e)' /\ Len(known) >= MaxEndpoints]_mcpVars

(* The subject of a client's evaluation is the tool of the server that the *)
(* client is connected to.                                                 *)
ActionNamesServer ==
    \A j \in Jobs : job[j].pc = "patch" => job[j].name = NameOf[job[j].w.endpoint]

(* Every call and every initialize ends, its audit included.               *)
CallsSettle ==
    \A j \in Jobs : job[j].pc # "idle" ~> (job[j].pc = "done" /\ job[j].ship \notin 1..2)
=============================================================================
