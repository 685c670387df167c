---------------------------- MODULE CedarClient ----------------------------
(***************************************************************************)
(* CedarToolCallClient (evaluation/cedar-client.ts): the in-process policy *)
(* evaluator every monkeypatch asks before a tool call runs.               *)
(*                                                                         *)
(* `evaluateToolCall` is asynchronous and re-entrant: several evaluations  *)
(* (Caller) are in flight at once on one client and share its caches.  A   *)
(* caller's pc names the await it is suspended at; one action is the code  *)
(* that runs from one await to the next.                                   *)
(*                                                                         *)
(*   "hash"     await hashArgsCanonical, before the grant ledger is read   *)
(*   "dims"     await resolveDimensions, before the decision cache is read *)
(*   "probe"    await GET /v1/health                                       *)
(*   "pdp"      await POST /v1/authorize                                   *)
(*   "central"  await POST /sdk/evaluate-tool-call                         *)
(*   "idle"     resolved; `result` is what the promise settled to          *)
(*                                                                         *)
(* A Call stands for (toolName, canonical arguments, dimensions): two      *)
(* calls are the same exactly when they share a grant key and a context    *)
(* hash.  A policy version stands for its hash.  The planes that answer    *)
(* are in PolicyPlane, which composes this module with central, the PDP    *)
(* and the SSE stream.                                                     *)
(***************************************************************************)
EXTENDS LruMap

CONSTANTS
    Caller,        \* concurrent evaluateToolCall invocations
    Call,          \* distinct tool calls
    Addon,         \* addon ids a bundle may enable
    MaxVersion,    \* bound: policy versions central publishes
    CacheMax,      \* cacheMaxSize
    CacheTtl,      \* DecisionCache ttlMs (60_000), in ticks
    PdpTtl,        \* the ttlMs stamped on a PDP decision (1_000), in ticks
    GrantMax,      \* DEFAULT_APPROVAL_GRANT_MAX
    DiscoveryTtl,  \* pdpDiscoveryTtlMs, in ticks
    PdpConfigured, \* opts.pdpUrl is set
    FailMode       \* opts.failMode

ASSUME ConstantsAssumption ==
    /\ MaxVersion \in Nat \ {0}
    /\ CacheMax \in Nat \ {0} /\ GrantMax \in Nat \ {0}
    /\ CacheTtl \in Nat /\ PdpTtl \in Nat /\ DiscoveryTtl \in Nat
    /\ PdpConfigured \in BOOLEAN
    /\ FailMode \in {"deny", "allow"}

VARIABLES
    pc,             \* Caller -> the await it stands at
    call,           \* Caller -> the tool call under evaluation
    result,         \* Caller -> what the last evaluation settled to
    probeLeft,      \* Caller -> remaining life of the probe it started
    cache,          \* DecisionCache._fresh
    grants,         \* ApprovalGrantCache.entries
    suspended,      \* suspendedAgents.has(this.agentId)
    lastPolicyHash,
    pdpAlive,       \* pdpAlive: "unknown" is null
    pdpLeft,        \* pdpAliveExpiresAt
    addons,         \* lastEnabledAddons
    snapshot        \* snapshotReceived

clientVars == <<pc, call, result, probeLeft, cache, grants, suspended,
                lastPolicyHash, pdpAlive, pdpLeft, addons, snapshot>>
-----------------------------------------------------------------------------
Version == 1..MaxVersion
NoHash  == 0                       \* policy_hash absent: `undefined`
Hash    == Version \cup {NoHash}

(* `age` and `ver` are ghosts: ticks since the client got the decision and *)
(* the policy version it was produced under (NoHash: under none).          *)
AgeCap == CacheTtl + 1

Evaluation == [decision : {"allow", "deny"}, hash : Hash, ttl : Nat,
               ver : Hash, age : 0..AgeCap]

Source == {"none", "suspended", "approval_grant", "cache", "local_pdp",
           "central", "pdp_unauthorized", "fail_mode", "rejected"}

Result == [source : Source, eval : Evaluation]

CacheKey == Call \X Hash

Decide(d) == [decision |-> d, hash |-> NoHash, ttl |-> 0, ver |-> NoHash, age |-> 0]

NoResult == [source |-> "none", eval |-> Decide("deny")]

(* Mutant: the fail mode read the wrong way round. *)
failOpen == Decide(IF FailMode = "allow" THEN "deny" ELSE "allow")

(* failClosed(): the synthetic decision of an evaluation no plane answered. *)
failClosed == Decide(IF FailMode = "allow" THEN "allow" ELSE "deny")

CedarInit ==
    /\ pc = [c \in Caller |-> "idle"]
    /\ call \in [Caller -> Call]
    /\ result = [c \in Caller |-> NoResult]
    /\ probeLeft = [c \in Caller |-> 0]
    /\ cache = <<>> /\ grants = <<>>
    /\ suspended = FALSE
    /\ lastPolicyHash = NoHash
    /\ pdpAlive = "unknown" /\ pdpLeft = 0
    /\ addons = {} /\ snapshot = FALSE
-----------------------------------------------------------------------------
Goto(c, l) == pc' = [pc EXCEPT ![c] = l]

Settle(c, src, e) ==
    /\ Goto(c, "idle")
    /\ result' = [result EXCEPT ![c] = [source |-> src, eval |-> e]]

(* evaluateToolCall up to its first await: the suspend deny-set wins over  *)
(* everything; an empty grant ledger skips the digest.                     *)
EvaluateToolCall(c, k) ==
    /\ pc[c] = "idle"
    /\ call' = [call EXCEPT ![c] = k]
    /\ \/ /\ suspended
          /\ Settle(c, "suspended", Decide("deny"))
       \/ /\ ~suspended
          /\ Goto(c, IF grants = <<>> THEN "dims" ELSE "hash")
          /\ result' = [result EXCEPT ![c] = NoResult]
    /\ UNCHANGED <<probeLeft, cache, grants, suspended, lastPolicyHash,
                   pdpAlive, pdpLeft, addons, snapshot>>

(* The digest resolved: ApprovalGrantCache.find, and the short-circuit. *)
FindApprovalGrant(c) ==
    /\ pc[c] = "hash"
    /\ grants' = AfterGet(grants, call[c])
    /\ \/ /\ Live(grants, call[c])
          /\ Settle(c, "approval_grant", Decide("allow"))
       \/ /\ ~Live(grants, call[c])
          /\ Goto(c, "dims")
          /\ UNCHANGED result
    /\ UNCHANGED <<call, probeLeft, cache, suspended, lastPolicyHash,
                   pdpAlive, pdpLeft, addons, snapshot>>

(* discoverPdp's answer without a probe. *)
PdpKnown == pdpAlive # "unknown" /\ pdpLeft > 0

Route(c) ==
    \/ /\ PdpConfigured /\ ~PdpKnown
       /\ Goto(c, "probe")
       /\ probeLeft' = [probeLeft EXCEPT ![c] = DiscoveryTtl]
    \/ /\ PdpConfigured /\ PdpKnown
       /\ Goto(c, IF pdpAlive = "yes" THEN "pdp" ELSE "central")
       /\ UNCHANGED probeLeft
    \/ /\ ~PdpConfigured
       /\ Goto(c, "central")
       /\ UNCHANGED probeLeft

(* Dimensions resolved: DecisionCache.get under the last observed policy   *)
(* hash; a miss goes on to discoverPdp in the same turn.                   *)
LookupDecision(c) ==
    LET key == <<call[c], lastPolicyHash>> IN
    /\ pc[c] = "dims"
    /\ cache' = AfterGet(cache, key)
    /\ \/ /\ Live(cache, key)
          /\ Settle(c, "cache", Lookup(cache, key).val)
          /\ UNCHANGED probeLeft
       \/ /\ ~Live(cache, key)
          /\ Route(c)
          /\ UNCHANGED result
    /\ UNCHANGED <<call, grants, suspended, lastPolicyHash, pdpAlive, pdpLeft,
                   addons, snapshot>>

(* The health probe settled.  `ok` is a 2xx whose body names this agent;   *)
(* a refusal, a timeout, an unparseable body and a mismatch are all ~ok.   *)
(* The window starts when the probe was sent, not when it settled.         *)
DiscoverPdp(c, ok) ==
    /\ pc[c] = "probe"
    /\ pdpAlive' = IF ok THEN "yes" ELSE "no"
    /\ pdpLeft' = probeLeft[c]
    /\ Goto(c, IF ok THEN "pdp" ELSE "central")
    /\ UNCHANGED <<call, result, probeLeft, cache, grants, suspended,
                   lastPolicyHash, addons, snapshot>>

(* Mutant: keyed by the hash last observed, not by the answer's own. *)
CacheUnderLastHash(c, e) ==
    cache' = IF e.ttl > 0
             THEN PutInPlace(cache, CacheMax,
                             Entry(<<call[c], lastPolicyHash>>, e, CacheTtl))
             ELSE cache

(* Cache only under a positive ttl, keyed by the hash of the response. The *)
(* entry's life is the shell's ttl.                                        *)
CacheDecision(c, e) ==
    cache' = IF e.ttl > 0
             THEN PutInPlace(cache, CacheMax,
                             Entry(<<call[c], e.hash>>, e, CacheTtl))
             ELSE cache

ObserveHash(e) ==
    lastPolicyHash' = IF e.hash # NoHash THEN e.hash ELSE lastPolicyHash

(* The addon snapshot of a PDP response: "array" carries enabled_addons,   *)
(* "loaded" only bundle_loaded:true, "none" neither.                       *)
ObserveAddons(kind, set) ==
    /\ addons' = IF kind = "array" THEN set ELSE {}
    /\ snapshot' = (snapshot \/ kind # "none")

markPdpUnhealthy ==
    /\ pdpAlive' = "no"
    /\ pdpLeft' = DiscoveryTtl

(* /v1/authorize answered 200 with a body that parses. *)
PdpDecides(c, e, kind, set) ==
    /\ pc[c] = "pdp"
    /\ Settle(c, "local_pdp", e)
    /\ CacheDecision(c, e)
    /\ ObserveHash(e)
    /\ ObserveAddons(kind, set)
    /\ UNCHANGED <<call, probeLeft, grants, suspended, pdpAlive, pdpLeft>>

(* Transport error, timeout or 5xx: unhealthy for the window, then central. *)
PdpFails(c) ==
    /\ pc[c] = "pdp"
    /\ markPdpUnhealthy
    /\ Goto(c, "central")
    /\ UNCHANGED <<call, result, probeLeft, cache, grants, suspended,
                   lastPolicyHash, addons, snapshot>>

(* Any other 4xx: central, with the PDP left alive. *)
PdpRefuses(c) ==
    /\ pc[c] = "pdp"
    /\ Goto(c, "central")
    /\ UNCHANGED <<call, result, probeLeft, cache, grants, suspended,
                   lastPolicyHash, pdpAlive, pdpLeft, addons, snapshot>>

(* 401: failClosed("pdp_unauthorized"), no fallback. *)
PdpUnauthorized(c) ==
    /\ pc[c] = "pdp"
    /\ Settle(c, "pdp_unauthorized", failClosed)
    /\ UNCHANGED <<call, probeLeft, cache, grants, suspended,
                   lastPolicyHash, pdpAlive, pdpLeft, addons, snapshot>>

(* 200 whose body never arrives or does not parse: resp.json() throws      *)
(* outside any try, so the promise of evaluateToolCall rejects.            *)
PdpBodyThrows(c) ==
    /\ pc[c] = "pdp"
    /\ Settle(c, "rejected", Decide("deny"))
    /\ UNCHANGED <<call, probeLeft, cache, grants, suspended,
                   lastPolicyHash, pdpAlive, pdpLeft, addons, snapshot>>

CentralDecides(c, e) ==
    /\ pc[c] = "central"
    /\ Settle(c, "central", e)
    /\ CacheDecision(c, e)
    /\ ObserveHash(e)
    /\ UNCHANGED <<call, probeLeft, grants, suspended, pdpAlive, pdpLeft,
                   addons, snapshot>>

(* Non-2xx, transport error, timeout or bad body: the fail mode decides. *)
CentralFails(c) ==
    /\ pc[c] = "central"
    /\ Settle(c, "fail_mode", failClosed)
    /\ UNCHANGED <<call, probeLeft, cache, grants, suspended,
                   lastPolicyHash, pdpAlive, pdpLeft, addons, snapshot>>
-----------------------------------------------------------------------------
(* invalidatePolicyCache and invalidateCapabilityCache have the same       *)
(* effect; the grant ledger survives both.                                 *)
invalidatePolicyCache ==
    /\ cache' = <<>>
    /\ lastPolicyHash' = NoHash
    /\ addons' = {} /\ snapshot' = FALSE
    /\ UNCHANGED <<pc, call, result, probeLeft, grants, suspended, pdpAlive, pdpLeft>>

(* invalidateAll: decisions and grants, but neither the hash nor the       *)
(* addon snapshot.                                                         *)
invalidateAll ==
    /\ cache' = <<>> /\ grants' = <<>>
    /\ UNCHANGED <<pc, call, result, probeLeft, suspended, lastPolicyHash,
                   pdpAlive, pdpLeft, addons, snapshot>>

(* recordApprovalGrantByHash, and recordApprovalGrant once its digest has  *)
(* resolved: a grant with no life left is dropped.                         *)
recordApprovalGrant(k, ttl) ==
    /\ grants' = IF ttl > 0 THEN PutAtTail(grants, GrantMax, Entry(k, TRUE, ttl))
                 ELSE grants
    /\ UNCHANGED <<pc, call, result, probeLeft, cache, suspended,
                   lastPolicyHash, pdpAlive, pdpLeft, addons, snapshot>>

(* Mutant: agent_activated is not acted on. *)
suspendForGood(b) ==
    /\ suspended' = (suspended \/ b)
    /\ UNCHANGED <<pc, call, result, probeLeft, cache, grants,
                   lastPolicyHash, pdpAlive, pdpLeft, addons, snapshot>>

(* markSuspended and clearSuspended, for this.agentId. *)
setSuspended(b) ==
    /\ suspended' = b
    /\ UNCHANGED <<pc, call, result, probeLeft, cache, grants,
                   lastPolicyHash, pdpAlive, pdpLeft, addons, snapshot>>

(* featureState(addonId) *)
featureState(a) ==
    IF ~snapshot THEN "unknown" ELSE IF a \in addons THEN "enabled" ELSE "disabled"
-----------------------------------------------------------------------------
Older(e) == [e EXCEPT !.age = IF @ < AgeCap THEN @ + 1 ELSE @]

(* The clock moves: every expiry comes one tick closer. *)
ClientTick ==
    /\ cache' = [i \in DOMAIN cache |->
                    [cache[i] EXCEPT !.val = Older(@), !.left = Countdown(@)]]
    /\ grants' = Elapse(grants)
    /\ pdpLeft' = Countdown(pdpLeft)
    /\ probeLeft' = [c \in Caller |-> Countdown(probeLeft[c])]
    /\ UNCHANGED <<pc, call, result, suspended, lastPolicyHash, pdpAlive,
                   addons, snapshot>>
=============================================================================
