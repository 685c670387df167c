# A TLA+ verification project for the Lupid SDK

The repository is a TypeScript SDK (`src/packages/sdk/src`, about 36,000 lines)
that puts a policy decision in front of what an AI agent does: tool calls,
model calls, HTTP egress and the routes of a web host. Decisions come from a
central service or a local PDP sidecar, are cached in the process, can be
overridden by a human (HITL), are invalidated by server-sent events, and are
audited. All of it runs on one JavaScript event loop: there are no threads, but
every `await` is a place where another evaluation, request, timer, event or
`close()` runs. That is the concurrency the modules model: **one action is the
code from one `await` to the next**.

Paths below are relative to `src/packages/sdk/src`. `PROJECT.json` maps each
definition to its lines, lists every component, and lists the hazards the
properties are written for.

## 1. Inventory

| Component | State | Operations | Hard part | Correct when |
|---|---|---|---|---|
| Tool-call evaluator, `evaluation/cedar-client.ts` | decision cache, grant ledger, suspend deny-set, last policy hash, PDP liveness window, addon snapshot | `evaluateToolCall`, PDP discovery, invalidation, `setSuspended`, `recordApprovalGrant` | up to five awaits per evaluation, shared caches, fallback PDP to central | fails closed; a cached decision is of its key; a grant ends with its approval |
| LRU caches, `frameworks/express/decision-cache.ts`, grant cache in `cedar-client.ts` | insertion-ordered `Map` with expiries | get, put, evict, expire | a hit re-inserts; bound reached by concurrent puts | bounded, keys unique, no life extended |
| Event streams, `manifest/sse-subscriber.ts` | queue of events, current schema, `closed` | listeners per event kind, `lagged`, `refreshSchema`, `close` | loss, delay, malformed events, answers out of order | invalidation, deny-set and schema follow central |
| Circuit breaker, health monitor, `frameworks/express` | state, failure count, probe slot; reachable flag | `shouldSkip`, `recordSuccess`, `recordFailure`; timer probes | late replies, overlapping probes | fields agree; the circuit recovers |
| Route guards, Express, Fastify, NestJS, Next.js | fresh and stale stores, the above | guard, fail modes, HITL escalation | concurrent requests, outage, hook and human in between | nothing passes that nobody vouched for |
| Audit buffer and transport, `client.ts` | buffer, timer, drain, backoff, retries, token refresh | ingest, flush, timer, drain, `close` | failure half-way, overflow, close during a drain | nothing lost, order kept, bounded, settles |
| Session and HITL approval, `session.ts` | JWT, refresh in flight, close promise, the client's token | policy checks, audit, `refresh`, `requestApproval`, `close` | two refresh paths, a deadline against a poll | no older token comes back; an approval ends as central decided |
| Streaming enforcement: `fetch-interceptor.ts`, `_response-enforce.ts` (undici), `node-http-interceptor.ts` | accumulators per tool-call index, the set in flight, the terminal latch | chunk, end, error; verdict of each call | an await per event and per verdict, chunks that arrive meanwhile | a denied call's frames never come out; nothing else is lost, doubled or reordered |
| Wire parsers, `wire-parsers.ts` | frame remainder, open content blocks, next index | `push`, `flush` | six providers place the same events in different frames | every byte is in exactly one event |
| HTTP interceptors (fetch, `node:http`, undici), JSON enforcement, vault | patched globals, plane marker, leases, per request: calls asked, answer, rulings | install, teardown, placeholder gate, prompt observation, pre-flight, forward, wrap the answer | three layers over one request, verdicts out of order, faults per fail mode | nothing denied is sent or handed over, one layer enforces |
| MCP over HTTP and stdio, `mcp-http.ts`, `mcp-stdio-patch.ts` | server registry, suppression tokens | patched `connect` and `callTool`, wire planes, batches, audit shipping | one call seen twice, tokens that outlive their call | one evaluation per call, never none |
| SDK patches and framework wrappers, `openai-patch.ts`, `anthropic-patch.ts`, `frameworks/*.ts` | patched prototypes, buffered chunks, guards around a tool | install, `create`, replay, guard, relay, poll | streams cut or abandoned, wrappers around wrappers | no denied call comes out, no denied tool runs, one end per stream |
| Initialisation, manifest and schema, `init.ts`, `manifest/` | singleton, promise in flight, wired planes, active schema | `init`, `shutdown`, reconciliation | concurrent calls, failure at each await | one runtime; nothing wired by a failed run; the schema moves forward |
| Enrichment webhooks, `enrichment/` | entry cache, coalesced fetches, breaker, bucket | resolve, fetch, background renewal | renewal joined by callers, failures cached | one fetch per key, age bounded, breaker closes |
| PII pipeline, `pii/` | rule trie | scrub, self-check | rule precedence | nothing matched leaves |
| API client methods, admin clients, webhook guards, tracing, auto-registration, manifest validation, React toggles | see `PROJECT.json` | | | |

Interactions. Patches, interceptors and wrappers ask the evaluator; the
subscriber calls `invalidatePolicyCache`, `setSuspended` and
`recordApprovalGrant` on it and replaces the active schema; a session that polled
an approval records a grant; guards call `simulatePolicy` and, on a Deny that
asks for a human (`hitl_pending`, a `require_hitl` advice), `session.requestApproval`; a patched SDK's request still
passes the interceptors below it, and a native fetch passes two of them;
everything ingests audit events, which pass the PII pipeline and the client's
retry loop.

## 2. Modules

| Module | Models | Extends |
|---|---|---|
| `LruMap` | the `Map` behind the caches, as operators on a sequence of `[key, val, left]` | |
| `CedarClient` | `CedarToolCallClient`: state, and one action per stretch between awaits | `LruMap` |
| `PolicyPlane` | the evaluator composed with central, the PDP, the SSE stream, the operator and the clock | `CedarClient` |
| `CircuitBreaker` | the breaker's methods | |
| `RequestGuard` | the guards of the four web adapters over breaker, health monitor and both stores of `DecisionCache` | `CircuitBreaker`, `LruMap` |
| `AuditBuffer` | the audit pipeline of `AgentumClient` | |
| `Session` | `AgentumSession` over its client: refresh, 401 recovery, approval loop, `close()` | |
| `WireParsers` | which events each of the six parsers makes of a frame | |
| `StreamEnforcer` | the event, chunk and end handlers of the three planes over those events | `WireParsers` |
| `ToolGate` | what streaming enforcement promises: a call is held, then passed or replaced, once, and nothing is held when the stream completes. `StreamEnforcer!GateKept` is the refinement | |
| `ProviderBodies` | the calls of a JSON body and its rewriting, six formats | |
| `HttpEgress` | a request through the three planes: gate, observation, pre-flight, forward, answer | `ProviderBodies` |
| `McpEgress` | MCP calls through the SDK patch and the wire planes | `LruMap` |
| `PatchedStreams` | buffering, filtering and replay of a patched SDK's answer, as operators | |
| `SdkTools` | the patches and every framework wrapper around a call | `PatchedStreams` |
| `InitLifecycle` | `init()`, `shutdown()` and the schema's subscriber | |
| `Enrichment` | one ref of the enrichment webhooks | |
| `MC...` | TLC instances | |
| `LruMapProofs`, `PolicyPlaneProofs`, `AuditBufferProofs`, `InitLifecycleProofs`, `StreamEnforcerProofs` | theorems | the module they are about |
| `GuardProofs` | theorems about what guards routes and tools | `RequestGuard`, `SdkTools`, `LruMapProofs` |
| `EgressProofs` | theorems about what leaves the process | `HttpEgress`, `McpEgress`, `LruMapProofs` |
| `CoalescingProofs` | theorems about requests that concurrent callers share | `Session`, `Enrichment` |

Reading them beside the code:

- `pc` (per evaluation, request, call, run or drain) is the await at which the
  function stands; locals that survive an await are variables or fields (`call`,
  `batch`, `attempt`, `asked`, `answer`), locals that do not are LET names.
- Time. Deadlines are countdowns (`left`, `openLeft`, `pdpLeft`, `wake`):
  `x.expiresAt - now` in ticks, expired exactly at 0. `Tick` moves them all.
- Data. A `Call` is a pair of grant key and context hash; a policy version is its
  `policy_hash` (absent: `NoHash`); a `Key` of the guard is (user, action,
  resource, context). An audit event is its ingestion number, a session JWT its
  place in the order of minting, a schema its version.
- Bodies and streams. A JSON body is its sequence of blocks: text, a call, a call
  without a name. Of an answer with several choices (OpenAI, `n > 1`) or candidates
  (Gemini) the code reads and rewrites the first; a body's `others` and a patched
  chunk's `rest` are the calls of the further ones, which go where the first goes. A
  wire frame is its number, what else than its first choice and that one's first
  `tool_calls` entry (OpenAI) or first candidate (Gemini) it holds goes with it; its arguments are numbered pieces,
  `Whole` is all of them. A task of `StreamEnforcer` is one run of the chunk or of
  the end handler: on the fetch and undici planes they run one after the other, on
  the node plane each runs to its first await on arrival and the rest interleaves.
- Evaluator. The modules above `PolicyPlane` ask an evaluator that answers allow
  or deny or throws, at any time and in any order.
- External parts (central, PDP, operator, model, MCP server, webhook, network) are
  actions, nondeterministic within what the code in `src/` can observe; they are
  marked external in the map.
- Ghost variables and fields (`ver`, `age`, `applied`, `said`, `cancelled`, `probers`, `acked`,
  `sends`, `spare`, `missed`, `recovered`, `swallowed`, `rulings`, ...) are only
  written by actions and read by properties.
- A definition commented `Mutant:` is a plausible bug of the definition after it,
  used to see that a property can fail.

## 3. Runs

| Run | Shows |
|---|---|
| `plane_safety` | two evaluations over a one-entry cache, two versions (the second revokes a call), a PDP that lags, a lagged stream, every failure of both planes: `AllowIsBacked`, `CacheCoherent` |
| `plane_time` | grants, cached decisions and suspensions against a clock, with a PDP: `GrantWithinApproval`, `GrantUseIsApproved`, `CachedAgeBounded`, `SuspensionConverges` |
| `plane_stale` (violation) | a reply of the old version received after the policy event re-enters the cache and is served |
| `guard` | the NestJS adapter, two requests, fail mode `cached`, a hook that may cancel, two overlapping health probes, an outage and a policy edit: `BreakerConsistent`, `AllowIsVouched`, `EscalationsUncached`, `GuardRecovers` |
| `audit` | `NothingLost`, `OrderKept`, `LeakNeverSent`, `EventSettles` with a host that closes between two drains |
| `stream` | six providers on the fetch and undici planes, upstreams that stop or break at any frame: `PassNeedsAllow`, `FramesAccounted`, `InOrder`, `StreamEnds`, and `GateKept`, the refinement of `ToolGate` |
| `egress` | a request on each plane, host class, format, placeholder and answer, bodies that are not read or make the extractor throw, answers with a second choice, two fail modes, observation raw, masked and off, a plane or an addon that changes under way: `CallsGoverned`, `AnswerGoverned`, `OneEnforcer`, `PlaceholderKept` |
| `mcp` | two overlapping activities of a patched and of raw clients over a one-endpoint registry and a one-token map, both fail modes: `TokenSound`, `BatchWhole`, `NameSticks`, `CallsSettle` |
| `sdk` | one call of every wrapper and provider, streamed and not, whole, cut or abandoned, with one choice or two, patched before or after, two passes of `enforceAllTools`: `ReplaySound`, `GuardSound`, `OneEnd`, `CallsSettle` |
| `init` | two calls of `init()` with ten sets of options, two schema versions, two refreshes, a shutdown: `OneRuntime`, `AbortBeforeWiring`, `SchemaMonotone`, `SchemaConverges` |
| `session` | two calls, one of which may ask for approval, three tokens: `ApprovalSound`, `TokenMonotone` |
| `enrichment` | two callers, two keys, both failure modes, a webhook that goes down and comes back: `OneFetch`, `AgeBounded`, `WebhookRecovers` |

What each property says, and which line of the code promises it, is the comment
above its definition.

### Bounds and why they are enough

- Two evaluations, requests, callers or jobs: the races are between one answer and
  one other step on shared state, and none reads another's locals. `egress` and
  `sdk` take one request: what it shares with others (the patched globals, the
  leases, the guards around a tool) is changed by actions of its own. Symmetry is
  used only without liveness properties (`plane_safety`).
- A cache of one entry with two calls makes each put evict (`plane_safety`); the
  guard run takes one key, since liveness rules out symmetry, and the theorems of
  `GuardProofs` cover any number. Its answers are `allow`, `flagged` (NestJS
  escalates, and caches after a cancellation) and `waived` (advice that NestJS does
  not escalate and must not cache); the other adapters and answers are the theorems'.
- Two versions, of which the second revokes one call and keeps the other, tell a
  stale allow from a current one. `StreamMax = 1` with one lag makes the queue
  overflow.
- Countdowns of 1 or 2 reach "live", "last tick" and "expired".
- Audit: five events through a buffer of two overflow it while a batch is in
  flight; batches of two; one retry and one refresh; three faults cover a failed
  first try, a failed retry and a failure of the next drain; event 2 fails its
  self-check, so it shares a batch with one that does not.
- Streams: two calls whose arguments come in two pieces interleave and can be cut
  anywhere; five frames hold two complete calls, or one with a finish, a `[DONE]`
  and a frame about neither (`MaxFiller`). On the serial planes a task reads
  nothing that a later arrival writes, so a backlog of two shows every lag. The
  run takes `failMode: "deny"`; `"allow"` only adds a way to be `Sanctioned`.
- Guards: two probes in flight at once are the least that can settle out of order.
- Bodies: text, call, text, call in one body put the cursor of a rewriter out of
  step if it can get there. Patched streams have two calls whose parts interleave.
- MCP: `k1` and `k2` have the same key once cut to 512 characters; an endpoint
  registry and a token map of one entry evict at the second.
- Init: each way to fail is one set of options. A `unix://` PDP is in this run only
  with a call that then fails on a missing option; `InitLifecycle_uds.cfg` has the
  rest.
- Session: three tokens let two refreshes and a 401 recovery overlap; the deadline
  is two polls away. Enrichment: a ttl of 3 has ticks before and after its half
  life; two failures open the breaker, one token per tick makes the bucket run dry.

### Fairness

- `PolicyPlane!FairSpec`: weak fairness of each evaluation's own steps. The
  probe and both POSTs carry an abort timeout, the digest and the dimension
  resolver are promises that settle. Weak fairness of `HandleEvent`: the stream
  is open and its reader loops.
- `RequestGuard!FairSpec`: `simulatePolicy` has a timeout and `requestApproval` a
  deadline, so `Settling` is fair; the interval timer fires, probes settle, time
  passes. `Traffic` (requests keep coming) is not assumed of the system: it is a
  premise of the breaker's half of `GuardRecovers`, because only a request moves an
  open breaker. So is a monitor that never lost the server (`RequestGuard_stuck.cfg`);
  that the monitor finds a server that stays up, whatever order its probes settle in,
  is the other half.
- `AuditBuffer!FairSpec`: the awaits of the drain settle, the interval timer
  fires, and central answers a request no fault took away. One caveat: the abort
  timer is cleared before the body is read (`client.ts`, after the fetch), so a
  body that never ends is outside this assumption.
- `StreamEnforcer!FairSpec`: the event loop runs what is ready, and a verdict comes
  back because the evaluator bounds its requests. The upstream is not fair:
  `StreamEnds` starts from its end.
- `McpEgress!McpFairSpec`, `SdkTools!ToolsFairSpec`: evaluator, server and model answer or
  fail, and timers fire. In `sdk` the caller consumes its stream or abandons it.
- `InitLifecycle!FairSpec`: requests of `init()` and of a refresh settle, imports
  end. Events may be lost; `SchemaConverges` says which loss it excludes
  (`missed`).
- `Enrichment!EnrichFairSpec`: a fetch is aborted at its timeout and promise callbacks
  run. Clock and network wait for the microtask queue to be empty, which they find
  again and again: strong fairness. Asking callers and a webhook that stays up are
  premises of `WebhookRecovers`.

`HttpEgress` and `Session` are checked for safety only.

Deadlock is checked where the system never stops (`PolicyPlane`, `RequestGuard`,
`AuditBuffer`, `Enrichment`); elsewhere the end of a finite workload is a
legitimate stop.

### Counterexample configurations, run by hand

Each of these checks one property that a comment of the code states, and TLC
refutes it: `tlc -config <file> <module>`.

| Configuration | Module | Property | What it shows |
|---|---|---|---|
| `RequestGuard_stuck.cfg` | `MCRequestGuard` | `HalfOpenHasProbe` | `guard.ts:80`: `shouldSkip()` takes the probe slot before health is consulted, and the health-down return settles it neither way; `circuit-breaker.ts:51` says "half-open: probe is in flight". The circuit stays half-open for ever. |
| `AuditBuffer_close.cfg` | `MCAuditBuffer` | `CloseLeavesNothing` | `client.ts:1343`: a drain in flight makes the final drain of `close()` return at once; its batch, if it fails, goes back into a buffer nobody flushes or reports. `client.ts:1248-1250` promises a report through `onAuditError`. |
| `StreamEnforcer_node.cfg` | `MCStreamEnforcer` | `FrameOnce` | `node-http-interceptor.ts:932`: the async data handler is not serialised; `[DONE]` or the end settles calls a second time and their frames come out twice. `_response-enforce.ts:19` says "same wire output". Of the properties of run `stream` only `StreamEnds` holds on this plane. |
| `StreamEnforcer_gemini.cfg` | `MCStreamEnforcer` | `DeniedDropped` | `wire-parsers.ts:453`: each function call of a Gemini frame carries the bytes of the whole frame; an allowed call forwards the denied one beside it. `wire-parsers.ts:503-504` says denied calls' frames are dropped. |
| `HttpEgress_callback.cfg` | `MCHttpEgress` | `CallerHears` | `node-http-interceptor.ts:428`: `normalizeArgs` returns the callback of `http.request(url, cb)`, and the facade never attaches it; a caller without a listener of its own hears nothing, though lines 10-12 count "direct ClientRequest users" as covered. |
| `HttpEgress_nameless.cfg` | `MCHttpEgress` | `AnswerGoverned` | `provider-extractors.ts:174` and `:214`: a tool call without a string name is not read, while the rewriters at 291 and 377 count it: the verdicts behind it hit the wrong blocks, or `anthropicRewrite` finds no verdict and throws. Lines 414-415 call the contract "replace each DENIED toolUse block in-place". |
| `HttpEgress_choices.cfg` | `MCHttpEgress` | `EveryCallGoverned` | `provider-extractors.ts:153` and `:205`: only `choices[0]` (`candidates[0]`) of an answer is read, and only it is rewritten (252, 368); the calls of a second choice reach the caller unevaluated. `AnswerGoverned` is about the first. `_response-enforce.ts:373` says it "extracts model-emitted tool calls, evaluates each". |
| `McpEgress_name.cfg` | `MCMcpEgress` | `ActionNamesServer` | `mcp-stdio-patch.ts:240` and `:255`: the server's name is cached on the client once and kept when it connects to another server, under whose calls the old name is then evaluated; lines 224-226 say it is cached "as soon as initialize() resolves". |
| `SdkTools_replay.cfg` | `MCSdkTools` | `ReplayUnchanged` | `openai-patch.ts:349-356`: chunks are buffered while `finish_reason` is undefined, and the last chunk of a text answer is yielded "immediately": it comes out before the text. |
| `SdkTools_choices.cfg` | `MCSdkTools` | `EveryCallEvaluated` | `_parsers.ts:42` and `:81`: the patch reads `choices[0]` of a chunk and of an answer; the calls of the others are replayed unread. `openai-patch.ts:257-258` says "Evaluate every tool_call in a non-streaming response". `ReplaySound` is about what the patch reads. |
| `InitLifecycle_uds.cfg` | `MCInitLifecycle` | `OneRuntime` | `init.ts:427`: with a `unix://` PDP an await stands between the look at `IN_FLIGHT` and its assignment, so two callers start two runs; `init.ts:323-326` says "concurrent callers coalesce". |
| `Session_close.cfg` | `Session` | `SignedOut` | `session.ts:493` says `close()` de-authenticates the client; a refresh or 401 recovery that settles afterwards installs a token again. |
| `Enrichment_renewal.cfg` | `Enrichment` | `EntrySurvives` | `enrichment/client.ts:327-332`: "failures are swallowed (the original cache entry survives until its own TTL)"; under `fail_open` a failed renewal resolves to a null and overwrites the live value. |

## 4. Proofs

For every value of the constants that satisfies the named assumptions, and for
any number of evaluations, requests, keys, versions, events, callers, frames and
faults:

| Theorem | Statement |
|---|---|
| `PolicyPlaneProofs!TypeCorrect` | `Spec => []TypeOK` |
| `PolicyPlaneProofs!FailClosedCorrect` | `Spec => []AllowIsBacked` |
| `PolicyPlaneProofs!CacheCoherence` | `Spec => []CacheCoherent` |
| `PolicyPlaneProofs!GrantNeverOutlives` | `Spec => []GrantWithinApproval` |
| `PolicyPlaneProofs!GrantUseApproved` | `Spec => GrantUseIsApproved` (action property) |
| `PolicyPlaneProofs!CachedAgeIsBounded` | `Spec => []CachedAgeBounded` |
| `GuardProofs!TypeCorrect` | `Spec => []TypeOK` |
| `GuardProofs!BreakerCorrect` | `Spec => []BreakerConsistent` |
| `GuardProofs!ProbeCorrect` | without a health monitor, `Spec => []HalfOpenHasProbe` |
| `GuardProofs!AllowCorrect` | `Spec => []AllowIsVouched` |
| `GuardProofs!CacheCorrect` | `Spec => []EscalationsUncached` |
| `GuardProofs!StoresCorrect` | `Spec => []StoresAgree` |
| `AuditBufferProofs!AuditTypeCorrect` | `Spec => []TypeOK` |
| `AuditBufferProofs!AuditAccounted` | `Spec => []NothingLost` |
| `AuditBufferProofs!AuditBounded` | `Spec => []BufferBounded` |
| `AuditBufferProofs!AuditLeakFree` | `Spec => []LeakNeverSent` |
| `AuditBufferProofs!AuditSendsBounded` | `Spec => []SendsBounded` |
| `AuditBufferProofs!AuditOrdered` | `Spec => []OrderKept` |
| `InitLifecycleProofs!AbortsUnwired` | `Spec => []AbortBeforeWiring` |
| `InitLifecycleProofs!RuntimeIsOne` | if `Coalesced`, `Spec => []OneRuntime` |
| `InitLifecycleProofs!SchemaNeverBack` | if `Coalesced`, `Spec => SchemaMonotone` (action property) |
| `CoalescingProofs!ApprovalsSound` | `Spec => []ApprovalSound` |
| `CoalescingProofs!TokenNeverBack` | `Spec => TokenMonotone` (action property) |
| `EgressProofs!RequestsGoverned` | `Spec => []CallsGoverned` |
| `EgressProofs!PlaceholdersKept` | `Spec => []PlaceholderKept` |
| `EgressProofs!EnforcerIsOne` | `Spec => []OneEnforcer` |
| `EgressProofs!AnswersAreGoverned` | if `NamedCalls`, `Spec => []AnswerGoverned` |
| `EgressProofs!TokensAreSound` | `McpSpec => []TokenSound` |
| `EgressProofs!BatchesAreWhole` | `McpSpec => []BatchWhole` |
| `EgressProofs!NamesStick` | `McpSpec => NameSticks` (action property) |
| `GuardProofs!GuardsAreSound` | `ToolsSpec => []GuardSound` |
| `GuardProofs!EndsAreOne` | `ToolsSpec => []OneEnd` |
| `GuardProofs!RepliesAreSound` | `ToolsSpec => []ReplaySound` |
| `CoalescingProofs!FetchIsOne` | `EnrichSpec => []OneFetch` |
| `CoalescingProofs!AgesBounded` | `EnrichSpec => []AgeBounded` |
| `StreamEnforcerProofs!StreamInvariant` | `Spec => [](Serial => StreamInv)` |
| `StreamEnforcerProofs!PassedIsAllowed` | `Spec => []PassNeedsAllow` |
| `StreamEnforcerProofs!ChunksInOrder` | `Spec => [](Serial => InOrder)` |
| `StreamEnforcerProofs!EveryFrameAccounted` | `Spec => [](Serial => FramesAccounted)` |
| `StreamEnforcerProofs!GateImplemented` | `Spec /\ Serial => GateKept`: `StreamEnforcer` implements `ToolGate` |

Assumptions: `ConstantsAssumption`, `PlaneAssumption`, `BreakerAssumption`,
`GuardAssumption`, `AuditAssumption`, `InitAssumption`, `SessionAssumption`,
`EgressAssumption`, `WireAssumption`, `StreamAssumption`, `McpAssumption`,
`EnrichAssumption`, `RunnerAssumption`, `JobsAssumption`, `AnswersAssumption`; TLC
evaluates each on the runs. They give the constants their types, and the inputs the shape the code
gives them: a batch has a call, a snapshot of the MCP registry (`Earlier`) is one
the registry can be in, only OpenAI's relay goes around OpenAI's SDK and the Vercel
ones around a model no patch knows (`JobsAssumption`), the longest staleness is at
least a ttl (`MaxAge` is where ages stop being told apart). `AnswersAssumption` is
what the code relies on and does not check, the providers' own protocols (`Sent`): a
"tool" stop reason comes with or after a tool call; a `tool_use` block of Anthropic's
stream starts with its `content_block_start`, a block is one call's, and the stop
reason is in `message_delta`; only OpenAI's answers have further choices. It does not
say that an answer has one choice, nor that nothing follows a "tool" stop reason: where
the choices of a stream come in chunks of their own, the patch stops reading at the
first such reason, and `ReplaySound` leaves out how much of a call that has parts
behind it arrives (`Late`); that no part of a denied one does, it says of all. Three conditions stand
in the theorems themselves, because the code breaks the property without them and
a configuration of section 3 shows how:

- `Coalesced`: no valid set of options names a `unix://` PDP, whose import is an
  await between looking at `IN_FLIGHT` and setting it (`InitLifecycle_uds.cfg`).
- `Serial`: the fetch and undici planes, which handle chunks one after the other;
  the node plane does not (`StreamEnforcer_node.cfg`). `PassNeedsAllow` has that
  condition in its own statement.

- `NamedCalls`: every call of an answer has a name, for the formats whose extractor
  skips a call without one and whose rewriter counts it; `openai-chat` and
  `bedrock-converse` need no such condition (`HttpEgress_nameless.cfg`).

The arguments:

- `LruMapProofs` states once what `get`, `put`, eviction and deletion return and
  preserve (type, uniqueness, length, which entries remain). Everything about
  caches cites these lemmas.
- **`Backing`** (PolicyPlane). `AllowIsBacked` is about settled results, but an
  allow comes from the cache or from an answer in flight. The invariant therefore
  says of all three (results, cache entries, wire) that what they hold is
  genuine for *that* call; publishing keeps it because versions only grow.
- **`GrantLife`** (PolicyPlane). A grant enters the ledger with the life its event
  carries, so the bound is stated of the grants still in the stream as well; time
  takes a tick from grant, event and approval alike. With it, `GrantUseIsApproved`
  is a fact about the one step that reads the ledger.
- **`AgeLife`** (PolicyPlane). What a live entry has lived and what it has left never
  exceed the ttl together, an answer on the wire has not aged, and a hit moves the
  entry without touching either: so what is served is younger than the ttl.
- **`Vouching`** (RequestGuard). `AllowIsVouched` needs that both stores only hold
  pairs the server has said, and that a request at its hook or approval stands there
  with a Deny that was said and that its adapter escalates (`EscalationSaid`). Which
  Denys those are, and which may be cached, differs per adapter: NestJS goes by
  `hitl_pending` and reads the advice where the flag is absent, Express and Fastify
  read the advice only, Next.js never escalates. `EscalationsUncached` says what is
  left for all four: a Deny the adapter escalates is in a store only after a hook
  cancelled its escalation. Such an entry exists on NestJS (`nestjs/guard.ts:237`: a
  flag, no advice); on the others a Deny that is escalated has advice and is not
  cached, or is never escalated.
- **`ProbeInFlight`**: half-open is entered only by a request that goes on to
  `simulate` (this is where a health monitor breaks it) and left when any call
  settles.
- **`AuditInv`**, in parts. `Phases` and `Queues`: only an idle pipeline can hold
  a requeued batch on top of a full buffer; while a drain runs, the buffer is
  within `BufferSize`. `Fetches`: one fetch per attempt, and one more exactly when
  the token was refreshed. `Clean`: what is scrubbed is clean, sent or not.
  `Accounts`: each event of a batch is still to be scrubbed, scrubbed or masked,
  so acknowledging or dropping a batch accounts for all of it. **`Order`**: batch
  and buffer are each sorted, all of the batch lies before all of the buffer,
  everything acknowledged before both, and the next event behind everything; so
  requeueing in front and taking from the front keep `OrderKept`. None of these
  theorems assumes `Orderly`: they hold also when `close()` races a drain.
- **`CallState`, `Unwired`, `OneRun`, `Follows`** (InitLifecycle). A run before its
  subscriber has neither stream nor patch, and every failure comes before that
  point. `IN_FLIGHT` names a run until the call that started it has seen its end;
  between looking at it and setting it there is no await unless the PDP is
  `unix://`. With one run there is one subscriber, whose version, the one a
  refresh is compared with, is the active one: this is why the schema's theorem
  needs `Coalesced` too.
- **`CallInv`** (Session) relates a call's own view to central's: the poll that is
  out was sent while the request was pending or as it is now, a call only pauses
  after a poll sent while it was pending, and a call under way has no grant. A step
  of one call leaves the others alone, so the proof is per call. **`TokenInv`**:
  at most one refresh is in flight, and its answer is no older than the token.
- **`EgressInv`** (HttpEgress) follows one request: before it is sent, the calls
  asked about are a prefix of those it repeats, and all allowed so far; after that
  at most one plane waits for the answer, and it is the one that took the request
  unless the fetch plane has given up and sent it again. For `AnswerGoverned` it
  says of the plane at work that each ruling is about a call it read, under the
  call's own position, with one ruling per position (`Sound`). A body that makes the
  extractor throw is never sent by the node plane, nor by a fetch plane that denies
  (`Cleared`). The cursor of a
  position is its rank among the visited ones, and the verdicts are handed over in
  the order of the positions, so rank meets rank (`Places`, `VerdictPlaced`) if
  what is visited is what was read (`VisitsWhatIsRead`, where `NamedCalls` enters).
- **`StreamInv`** (StreamEnforcer). `WireOK`: what a provider may send, so that no
  argument or stop precedes its start. `TasksOK`: task n handles frame n, the tasks
  before the one at work are over and those after it have not begun. `AccsOK`:
  what is buffered for a call are frames of that call, and a call whose start event
  has been handled is live; this is what makes the parsers' event lists matter, and
  the lemmas before it say for each of the six which event may carry the bytes of a
  frame. `OutOK`: a frame of a call in the output has a sanctioned call among its
  calls, all others are in the order of the wire. `SettledOK` and `LoopsOK`: every
  live call is answered or in flight, a loop has answered what it has passed, and
  nothing is in flight when the end handler completes the stream.
- **`AccountInv`** (StreamEnforcer) is what `StreamInv` needs beside it to count.
  `OrderOK`: each call is begun once and nothing about a call follows the end of the
  message, so that one event stands for each frame (`StandsFor`). `HeldOK`: a call
  holds a frame exactly when an event gave it to that call, and holds it once.
  `SettlingOK`: while an event about a call is still to come no call is settled, and
  hence no held frame is let go before it is complete. `VisitedOK`, `DrainedOK`:
  what is in flight is unanswered but for what the loop at work has visited, and
  nothing is in flight after a finish. `DenialOK`: `syntheticTerminalEmitted` and the
  loop's own flag together know of every denial until the end handler takes over,
  which decides about terminal frames. `CountOK` then gives the count of each frame
  at every moment: its allowed calls, or 0 or 1 as its event has been passed. A
  Gemini frame that carries two allowed calls comes out twice, once with each: the
  theorem states this count, it does not assume one call per frame.
- **The refinement.** The fate of a call is its first answer. Appending an answer
  changes no fate but its own call's, and that only once (`FateAppended`); so
  `OnStart` is `Hold` or a stutter (an index begun twice), `Answer` is `Settle` or a
  stutter, `OnClose` is `Complete` because by `SettledOK` and `LoopsOK` no call is
  held then, `OnError` is `Fail`, and every other action is a stutter.

- **`McpInv`** (McpEgress). A job under way has no outcome, and a wire plane that
  still asks has calls left to ask, so the last verdict of a batch is given with all
  others in hand: `BatchWhole` follows per job. `TokensOK`: the map of tokens holds a
  key once and each token has an allow to spare, so `TokenSound` needs a count of 0
  or 1 only; pruning and the clock only take tokens away. `KnownOK`: each record
  has the name its server gives or none, which makes a merge unable to change one.
  What `pruneSuppression`'s loop leaves is `Sweep`, a recursive function; that it is
  the subsequence of live entries is an induction, done in `LruMapProofs` by the
  least counterexample (`NatInductionSet`, `SweepFacts`).
- **`ToolsInv`** (SdkTools) says per call which rows it has written at each stage: at
  the gate those of its opening and nothing asked; past the gate one allow; refused,
  the opening and its denial; consumed through a relay, its start and nothing else
  until an end or error closes it, after which the OpenAI relay is `finalized`. It
  also says why a relayed stream stays well formed (what a patch buffers, replays and
  passes on are chunks of this answer), so that the rows an end writes are finitely
  many. A tool's layer count is 0 or 1 because of the tag: this is where wrapping
  twice would ask twice. The counts of `GuardSound` and `OneEnd` are then counts over
  rows of a known form (`CountLast`, `CountEnded`).
- **`ReplayInv`** (SdkTools) is about a governed call and what its caller has of it.
  `Unread`: up to the model's answer nothing is there, and a complete answer waits
  untouched for its verdicts. `Reading`: of a stream that is being read the caller
  was given, or will be given next, only chunks with no part of a call and no "tool"
  reason; for each call the answer's parts are those in the buffer and then those
  still to be read (`Gathered`); so at the verdicts all parts are in the buffer.
  `Replaying`: what the caller has followed by what waits is, for each call that was
  not denied, all its parts in order, has no part of a denied one, and has a "tool"
  reason only after a part of a call. Delivering a chunk moves it from one side to
  the other and leaves the concatenation as it is. Before that stand, for sequences
  of any length, what the four filters do: `OpenAIReplay`, `AnthropicReplay`,
  `OpenAIAnswers`, `AnthropicAnswers`, and for the two readers `OpenAIGathers` and
  `AnthropicGathers`. The parts of a call are a `FlattenSeq`, a recursive function
  that `FlattenUnrolls` and `PartsUnroll` unroll once, by `NatInductionSet`.
- **`EnrichInv`** (Enrichment). `OneFetch` is inductive together with `Keyed`: a fetch
  is started for a key only when none is in flight, and one that ends wakes exactly
  the callers of its key. `Fresh`: what a webhook gave has age 0 until it is put in
  the cache, which is what makes age and remaining life add up to the ttl.

`HalfOpenHasProbe`, `StoresAgree`, `BufferBounded`, `SendsBounded` and the
type and inductive invariants are proved and not part of a run; TLC agreed with
each before.

Only model-checked, and why:

- Liveness under fairness (`SuspensionConverges`, `GuardRecovers`,
  `EventSettles`, `StreamEnds`, `CallsSettle`, `SchemaConverges`,
  `WebhookRecovers`): out of this prover's reach, as is `ENABLED`.

## 5. Where code and comments disagree

Shown by the run `plane_stale` and by the configurations at the end of section 3.

Modelled as the code does it, without a configuration of its own:

- `cedar-client.ts`: the cache uses one ttl for all entries, the answer's
  `ttl_ms` is stored and not consulted for expiry.
- `cedar-client.ts`, `evaluateToolCall`: the deny-set is read before the digest's
  await and the grant after it, so a suspension that arrives in between loses to
  the grant, though the comment there says suspension takes precedence.
- `cedar-client.ts`: a PDP answer without snapshot signal clears the addon list;
  the comment says it is preserved.
- `cedar-client.ts`: a 401 of the PDP denies even with `failMode: "allow"`; a body
  that does not parse rejects the promise of `evaluateToolCall`; a late
  successful probe overwrites a newer unhealthy mark.
- `sse-subscriber.ts`: after `lagged` the cache is dropped, but a lost
  `agent_activated` is not made up for. `SuspensionConverges` is checked with
  every event delivered (`MaxLags = 0`, no malformed events) for that reason. That
  the cache is dropped after a lag is in the model and in no property: the properties
  of `plane_safety` hold without it, and freshness (`NoStaleCacheHit`) already fails
  without a lag.
- `frameworks/express/circuit-breaker.ts`: a late failure during a probe re-opens
  the circuit, and a second probe can run beside the first.
- `client.ts`: retries inside one POST reuse its nonce, though the drain's
  comment says a nonce is never sent twice; after a lost answer central refuses
  the retry and the batch is reported although it was delivered.
- `client.ts`: an error of the PII pipeline other than the self-check leaves the
  drain outside its `try`; the batch is gone and the drain's promise rejects.
- `client.ts`: the audit queue is bounded by `auditBufferSize` plus one batch, not
  by `auditBufferSize`.
- Fastify: a `null` of the HITL hook does not cancel the escalation. Next.js:
  caches a Deny with advice, and never escalates. NestJS: a Deny that asks for a
  human by `hitl_pending` alone is cached once the hook cancelled, so the next
  request is not escalated though `nestjs/guard.ts:235-236` says of Denys with advice
  that "a subsequent request re-evaluates and re-escalates"; a false flag keeps a
  Deny with a `require_hitl` directive from being escalated, where Express and Fastify
  do not look at the flag. Whether the HITL add-on is on is re-read per request there;
  here it is a constant.
- `undici-dispatcher-interceptor.ts:606-612`: a request body whose messages cannot be
  read (an entry that is no object) makes the extractor throw, and the pre-flight's own
  `catch` forwards the request with none of its calls evaluated. The fetch plane does
  what its fail mode says, the node plane emits an error. `CallsGoverned` states who
  may send such a body (`Cleared`).
- OpenAI parser: arguments in the chunk that starts a call are not accumulated, so
  a call that comes in one chunk is denied as partial. A stream of the Responses
  API has no `choices` and passes through.
- Cohere parser: a `tool-call-delta` with empty arguments passes through.
- Fetch plane: two denied OpenAI calls emit two synthetic `[DONE]`, and frames of
  an allowed call can follow one. For the Anthropic shapes a denial emits no
  `message_stop`, and frames of an allowed call come after those that ended the
  message's content.
- Node plane, besides `StreamEnforcer_node.cfg`: arguments can overtake the start of their
  call, and a handler can write after the end. `PassNeedsAllow` is stated for the
  serial planes for that reason.
- Undici plane: chunks queued before an `onError` are still delivered after it.
- All planes: of a stream chunk with several choices, or several `tool_calls` entries,
  OpenAI's parser reads the first, Gemini's the first candidate (`WireParsers`); the
  rest of the frame goes where the frame goes.
- `session.ts`: a 401 recovery of the client is not coalesced with `refresh()`, so
  an earlier token may replace a later one (`TokenMonotone` stops there); a call
  after `close()` is answered 401 and signs in again; a session minted by a late
  refresh is never ended. `requestApproval` does not poll once more at its
  deadline: an approval of the last interval is a timeout.
- `enrichment`: with `fail_closed` a caller that joined a failing renewal gets the
  old hit and caches it for another full ttl (`AgeBounded` stops there); half-open
  lets callers of several keys through, the comment says exactly one.
- `sse-subscriber.ts`: `start` does not look at `closed` after its import, nor
  `refreshSchema` after its request; a failed refresh waits for "the next event (or
  reconnect)", but a reconnect does not refresh, and an install between the first
  fetch and the open stream is never noticed.
- `init.ts`: the installers of the patches are taken not to throw (those of the
  SDKs return when theirs is missing); one that did, after the subscriber has started at 707,
  would leave a stream open, and `AbortBeforeWiring` does not cover that. A failed
  `init()` leaves the active schema and the PII secrets it had
  set; the secrets are checked against the first schema only; `shutdown()` during
  an `init()` in flight does nothing; patched SDKs pass calls through until the
  singleton is published. `lite.ts` does not coalesce concurrent calls.
- `openai-patch.ts`: a custom tool call throws in the non-streamed filter or
  passes; after a partial deny the finish reason is "stop" and a trailing usage
  chunk is dropped.
- `vercel-ai.ts`: the iterable reports `llm_end` again when asked again after its
  end, the `ReadableStream` reports none when cancelled, and each delta of a call
  is a row. `langchain.ts`: `withAgentumGuard`'s denial over `isAllowed` is not
  audited.
- `mcp-http.ts`: a token's key is cut to 512 characters; a token left by a stdio
  call suppresses the evaluation of an equal HTTP call for 5 s; the map may hold
  one entry more than its maximum. Calls of a batch that is denied as a whole are
  audited allow one by one.
- Interceptors: `openai-responses` answers are not read; a placeholder in the headers of a
  `Request` object is not resolved; the plane marker reaches the upstream if no
  dispatcher plane strips it; with `failMode: "allow"` a request is sent again
  after an upstream error; the teardown of the node plane is not checked for its
  owner.

## 6. Not modelled, and why

Parsing, formatting, header and byte-level wire code, REST wrappers without
state of their own, HMAC and id generation: no state that two steps share.
Within the modelled components: `evaluatePrompt` and `observePrompt` inside the
evaluator (the interceptors' side is in `HttpEgress`), `disableAuditBuffer`,
Next.js middleware and server actions, `AgentumCallbackHandler`,
`_resetForTests`, and the reconnection that the eventsource library does. Of the
wire parsers: SSE and event-stream framing, CRC and base64 (a frame arrives
whole, or is the cut rest at the end); the one `TextDecoder` in stream mode that
all SSE parsers share, which can complete a character of one stream with bytes of
another, is therefore outside the model. The PII trie, dimension templates and
manifest validation are string and table work on one input.

## 7. Plan

In order of importance:

1. Two requests in `HttpEgress`, with the vault's cache shared between them.
2. `simulatePolicy` cache on `LruMap`; the PII trie as a pure operator against a
   reference definition; React toggles.
- `mcp-stdio-patch.ts`, `shipWithRetry`: the number of attempts is bounded, but the
  `fetch` of an attempt carries no abort signal; `CallsSettle` assumes that it
  settles.
