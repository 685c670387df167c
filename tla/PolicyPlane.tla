---------------------------- MODULE PolicyPlane ----------------------------
(***************************************************************************)
(* The evaluator composed with what answers and what notifies it:          *)
(*   - central, which holds the policy and evaluates under its newest      *)
(*     version;                                                            *)
(*   - the local PDP sidecar, which evaluates under the bundle it last     *)
(*     pulled, possibly an older one;                                      *)
(*   - the tenant-wide SSE stream /api/v1/policy/stream, whose events the  *)
(*     SchemaSubscriber (manifest/sse-subscriber.ts) turns into calls on   *)
(*     the evaluator.                                                      *)
(* An answer is computed at one moment and received at a later one, so an  *)
(* SSE event can be handled in between.                                    *)
(***************************************************************************)
EXTENDS CedarClient

CONSTANTS
    AllowedBy,   \* Version -> the calls that version of the policy allows
    Approvable,  \* the calls an operator may approve
    GrantTtl,    \* bound: life of a HITL grant, in ticks
    StreamMax,   \* bound: events the broadcast queue holds
    MaxLags,     \* bound: times the broadcast queue may overflow
    MaxToggles,  \* bound: suspensions and activations
    MaxTicks,    \* bound: ticks of the clock
    Faults       \* the failures the environment may produce

ASSUME PlaneAssumption ==
    /\ AllowedBy \in [Version -> SUBSET Call]
    /\ Approvable \subseteq Call
    /\ GrantTtl \in Nat
    /\ StreamMax \in Nat \ {0}
    /\ MaxLags \in Nat /\ MaxToggles \in Nat /\ MaxTicks \in Nat

VARIABLES
    policy,      \* central: newest published version
    bundle,      \* PDP: version of the loaded bundle
    active,      \* central: the agent is not suspended
    stream,      \* events published and not yet handled
    wire,        \* Caller -> the answer in flight to it
    approved,    \* Call -> what is left of the operator's approval
    applied,     \* ghost: newest version whose `policy` event was handled
    lags, toggles, ticks

planeVars == <<policy, bundle, active, stream, wire, approved, applied,
               lags, toggles, ticks>>
vars == <<clientVars, planeVars>>
-----------------------------------------------------------------------------
Signal == {"array", "loaded", "none"}

(* "policy" stands for the three kinds that invalidate the decision cache: *)
(* policy, capability_effective_set_changed and                            *)
(* capability_set_invalidate_all_scopes.  A grant event carries expires_at *)
(* as the life that is left of it.                                         *)
Event == [kind : {"policy"}, ver : Version]
         \cup [kind : {"suspended", "activated", "lagged"}]
         \cup [kind : {"grant"}, of : Call, left : 0..GrantTtl]

NoWire == [plane |-> "none", eval |-> Decide("deny"), signal |-> "none", addons |-> {}]

Wire == [plane : {"none", "pdp", "central"}, eval : Evaluation,
         signal : Signal, addons : SUBSET Addon]

Init ==
    /\ CedarInit
    /\ policy = 1 /\ bundle = 1 /\ active = TRUE
    /\ stream = <<>>
    /\ wire = [c \in Caller |-> NoWire]
    /\ approved = [k \in Call |-> 0] /\ applied = 1
    /\ lags = 0 /\ toggles = 0 /\ ticks = 0

(* Central publishes on a bounded broadcast queue.  When the subscriber    *)
(* is too far behind, what it has not read is lost and it is told so.      *)
Publish(e) ==
    \/ /\ Len(stream) < StreamMax
       /\ stream' = Append(stream, e)
       /\ UNCHANGED lags
    \/ /\ Len(stream) = StreamMax /\ lags < MaxLags
       /\ stream' = <<[kind |-> "lagged"]>>
       /\ lags' = lags + 1

PublishPolicy ==
    /\ policy < MaxVersion
    /\ policy' = policy + 1
    /\ Publish([kind |-> "policy", ver |-> policy + 1])
    /\ UNCHANGED <<clientVars, bundle, active, wire, approved, applied, toggles, ticks>>

PdpSyncs ==
    /\ bundle # policy
    /\ bundle' = policy
    /\ UNCHANGED <<clientVars, policy, active, stream, wire, approved, applied,
                   lags, toggles, ticks>>

ToggleAgent ==
    /\ toggles < MaxToggles
    /\ toggles' = toggles + 1
    /\ active' = ~active
    /\ Publish([kind |-> IF active THEN "suspended" ELSE "activated"])
    /\ UNCHANGED <<clientVars, policy, bundle, wire, approved, applied, ticks>>

(* An operator approves call k for GrantTtl; central broadcasts the grant. *)
OperatorApproves(k) ==
    /\ approved[k] = 0
    /\ approved' = [approved EXCEPT ![k] = GrantTtl]
    /\ Publish([kind |-> "grant", of |-> k, left |-> GrantTtl])
    /\ UNCHANGED <<clientVars, policy, bundle, active, wire, applied, toggles, ticks>>

(* An approval that AgentumSession.requestApproval was polling for: the    *)
(* grant is recorded directly, its life counted from the recording.        *)
SessionApproval(k) ==
    /\ approved[k] = 0
    /\ approved' = [approved EXCEPT ![k] = GrantTtl]
    /\ recordApprovalGrant(k, GrantTtl)
    /\ UNCHANGED <<policy, bundle, active, stream, wire, applied, lags, toggles, ticks>>
-----------------------------------------------------------------------------
(* A plane evaluates call k under version v.  policy_hash is optional on   *)
(* both wires, the ttl is the server's choice on central and a constant of *)
(* the SDK for the PDP.                                                    *)
Verdict(k, v, h, t) ==
    [decision |-> IF k \in AllowedBy[v] THEN "allow" ELSE "deny",
     hash |-> h, ttl |-> t, ver |-> v, age |-> 0]

Hashes(v) == IF "nohash" \in Faults THEN {v, NoHash} ELSE {v}

PdpEvaluates(c) ==
    /\ pc[c] = "pdp" /\ wire[c] = NoWire
    /\ \E h \in Hashes(bundle), s \in Signal, a \in SUBSET Addon :
          /\ s # "array" => a = {} /\ "oldpdp" \in Faults
          /\ wire' = [wire EXCEPT ![c] =
                        [plane |-> "pdp", eval |-> Verdict(call[c], bundle, h, PdpTtl),
                         signal |-> s, addons |-> a]]
    /\ UNCHANGED <<clientVars, policy, bundle, active, stream, approved, applied,
                   lags, toggles, ticks>>

CentralEvaluates(c) ==
    /\ pc[c] = "central" /\ wire[c] = NoWire
    /\ \E h \in Hashes(policy), t \in {0, PdpTtl} :
          wire' = [wire EXCEPT ![c] =
                     [plane |-> "central", eval |-> Verdict(call[c], policy, h, t),
                      signal |-> "none", addons |-> {}]]
    /\ UNCHANGED <<clientVars, policy, bundle, active, stream, approved, applied,
                   lags, toggles, ticks>>

Quiet == UNCHANGED <<policy, bundle, active, stream, approved, applied,
                     lags, toggles, ticks>>
Hangup(c) == wire' = [wire EXCEPT ![c] = NoWire]

(* One step of evaluation c inside the SDK, no reply needed. *)
LocalStep(c) ==
    /\ FindApprovalGrant(c) \/ LookupDecision(c)
    /\ UNCHANGED wire /\ Quiet

ProbeStep(c) ==
    /\ \E ok \in (IF "probe" \in Faults THEN BOOLEAN ELSE {TRUE}) : DiscoverPdp(c, ok)
    /\ UNCHANGED wire /\ Quiet

ReplyStep(c) ==
    /\ \/ /\ wire[c].plane = "pdp"
          /\ PdpDecides(c, wire[c].eval, wire[c].signal, wire[c].addons)
       \/ /\ wire[c].plane = "central"
          /\ CentralDecides(c, wire[c].eval)
    /\ Hangup(c) /\ Quiet

(* The abort signal or the peer ends the request, answered or not. *)
FaultStep(c) ==
    /\ \/ PdpFails(c)
       \/ CentralFails(c)
       \/ "4xx" \in Faults /\ PdpRefuses(c)
       \/ "401" \in Faults /\ PdpUnauthorized(c)
       \/ "body" \in Faults /\ PdpBodyThrows(c)
    /\ Hangup(c) /\ Quiet

Invoke(c) ==
    /\ \E k \in Call : EvaluateToolCall(c, k)
    /\ UNCHANGED planeVars
-----------------------------------------------------------------------------
(* The listeners SchemaSubscriber.start attaches to the policy stream.     *)
handlePolicyEvent(e) ==
    /\ e.kind \in {"policy", "lagged"}
    /\ invalidatePolicyCache

handleAgentSuspended(e) == e.kind = "suspended" /\ setSuspended(TRUE)

handleAgentActivated(e) == e.kind = "activated" /\ setSuspended(FALSE)

(* Mutant: the grant's life is counted from the receipt of its event. *)
handleHitlGrantRestarted(e) == e.kind = "grant" /\ recordApprovalGrant(e.of, GrantTtl)

(* The life is what is left until expires_at. *)
handleHitlGrant(e) == e.kind = "grant" /\ recordApprovalGrant(e.of, e.left)

(* A lifecycle or grant event that does not parse or names another tenant  *)
(* is dropped; an unreadable policy event still invalidates.               *)
dropEvent(e) ==
    /\ "malformed" \in Faults
    /\ e.kind \in {"suspended", "activated", "grant"}
    /\ UNCHANGED clientVars

(* The subscriber handles the oldest event of the stream. *)
HandleEvent ==
    LET e == Head(stream) IN
    /\ stream # <<>>
    /\ stream' = Tail(stream)
    /\ \/ handlePolicyEvent(e) \/ handleAgentSuspended(e) \/ handleAgentActivated(e)
       \/ handleHitlGrant(e) \/ dropEvent(e)
    /\ applied' = IF e.kind = "policy" THEN e.ver
                  ELSE IF e.kind = "lagged" THEN policy ELSE applied
    /\ UNCHANGED <<policy, bundle, active, wire, approved, lags, toggles, ticks>>

(* The host calls invalidateAll (a PolicyUpdated webhook). *)
Webhook ==
    /\ "webhook" \in Faults
    /\ invalidateAll
    /\ UNCHANGED planeVars

Tick ==
    /\ ticks < MaxTicks
    /\ ticks' = ticks + 1
    /\ ClientTick
    /\ stream' = [i \in DOMAIN stream |->
                     IF stream[i].kind = "grant"
                     THEN [stream[i] EXCEPT !.left = Countdown(@)] ELSE stream[i]]
    /\ approved' = [k \in Call |-> Countdown(approved[k])]
    /\ UNCHANGED <<policy, bundle, active, wire, applied, lags, toggles>>

Evaluating(c) == LocalStep(c) \/ ProbeStep(c) \/ ReplyStep(c) \/ FaultStep(c)

Next ==
    \/ \E c \in Caller : Invoke(c) \/ Evaluating(c) \/ PdpEvaluates(c) \/ CentralEvaluates(c)
    \/ PublishPolicy \/ PdpSyncs \/ ToggleAgent
    \/ \E k \in Approvable : OperatorApproves(k) \/ SessionApproval(k)
    \/ HandleEvent \/ Webhook \/ Tick

Spec == Init /\ [][Next]_vars

(* Every await is bounded: the digest and the dimension resolver settle,   *)
(* the probe and both POSTs carry an abort timeout.  The event loop        *)
(* delivers the events of an open stream.                                  *)
FairSpec ==
    /\ Spec
    /\ \A c \in Caller : WF_vars(Evaluating(c))
    /\ WF_vars(HandleEvent)
-----------------------------------------------------------------------------
(* Every variable of the evaluator and of its surroundings holds a value   *)
(* of its type: deadlines within their window, hashes of real versions.    *)
TypeOK ==
    /\ pc \in [Caller -> {"idle", "hash", "dims", "probe", "pdp", "central"}]
    /\ call \in [Caller -> Call]
    /\ result \in [Caller -> Result]
    /\ probeLeft \in [Caller -> 0..DiscoveryTtl]
    /\ cache \in Seq([key : CacheKey, val : Evaluation, left : 0..CacheTtl])
    /\ grants \in Seq([key : Call, val : {TRUE}, left : 0..GrantTtl])
    /\ suspended \in BOOLEAN
    /\ lastPolicyHash \in Hash
    /\ pdpAlive \in {"unknown", "yes", "no"}
    /\ pdpLeft \in 0..DiscoveryTtl
    /\ addons \in SUBSET Addon /\ snapshot \in BOOLEAN
    /\ policy \in Version /\ bundle \in Version /\ active \in BOOLEAN
    /\ stream \in Seq(Event)
    /\ wire \in [Caller -> Wire]
    /\ approved \in [Call -> 0..GrantTtl]
    /\ applied \in Version
    /\ lags \in 0..MaxLags /\ toggles \in 0..MaxToggles /\ ticks \in 0..MaxTicks

(* A decision a plane really took on call k: its version was published,    *)
(* its hash is that version's or absent, its verdict is what that version  *)
(* says of k.                                                              *)
Genuine(e, k) ==
    /\ e.ver \in 1..policy
    /\ e.hash \in {e.ver, NoHash}
    /\ e.decision = "allow" => k \in AllowedBy[e.ver]

(* Fail closed.  With failMode "deny", whatever the interleaving of        *)
(* evaluations, timeouts, fallbacks and invalidations, evaluateToolCall    *)
(* resolves to allow only when a HITL grant covered that very call or a    *)
(* published policy version allows that very call: no cache key mix-up, no *)
(* answer of another evaluation, no error path lets a call through.        *)
AllowIsBacked ==
    FailMode = "deny" =>
        \A c \in Caller :
            /\ pc[c] = "idle"
            /\ result[c].eval.decision = "allow"
            /\ result[c].source # "approval_grant"
            => Genuine(result[c].eval, call[c])

(* The decision cache never holds a decision under a key it was not taken  *)
(* for: the call is the one it was asked about and the hash component is   *)
(* the hash the answer carried, so a lookup under the newest observed hash *)
(* cannot return a decision another policy generation produced.            *)
CacheCoherent ==
    \A i \in DOMAIN cache :
        /\ Genuine(cache[i].val, cache[i].key[1])
        /\ cache[i].val.hash = cache[i].key[2]

(* A grant in the ledger never outlives the operator's approval, however   *)
(* long its event sat in the stream and however often a hit re-inserted    *)
(* it (handleHitlGrant derives the life from expires_at - now).            *)
GrantWithinApproval ==
    \A i \in DOMAIN grants : grants[i].left <= approved[grants[i].key]

(* A decision is served from the cache for less than CacheTtl after it was *)
(* received: a hit's LRU bump must not extend the entry's life.            *)
CachedAgeBounded ==
    \A c \in Caller : result[c].source = "cache" => result[c].eval.age < CacheTtl
-----------------------------------------------------------------------------
(* An evaluation resolves to allow through a grant only in a step in which *)
(* the operator's approval of that call is still running.                  *)
GrantUseIsApproved ==
    [][\A c \in Caller :
          (pc[c] # "idle" /\ pc'[c] = "idle" /\ result'[c].source = "approval_grant")
             => approved[call[c]] > 0]_vars

(* The local suspend deny-set converges to central's state of the agent    *)
(* once lifecycle changes stop: an activated agent does not stay denied, a *)
(* suspended one does not stay allowed, provided every event is delivered. *)
SuspensionConverges == <>[](suspended = ~active)
-----------------------------------------------------------------------------
(***************************************************************************)
(* What a comment of the code promises and the code does not keep: refuted *)
(* by a run of its own.                                                    *)
(***************************************************************************)

(* cedar-client.ts on lastPolicyHash: "a policy churn during the ~1s cache *)
(* window can no longer serve a stale decision".  Once the event of a      *)
(* version was handled, no cache hit is of an older version.               *)
NoStaleCacheHit ==
    [][\A c \in Caller :
          (pc[c] = "dims" /\ pc'[c] = "idle") => result'[c].eval.ver >= applied]_vars
=============================================================================
