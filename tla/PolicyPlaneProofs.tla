------------------------- MODULE PolicyPlaneProofs -------------------------
(***************************************************************************)
(* PolicyPlane, for any number of concurrent evaluations, calls, policy    *)
(* versions and addons, any cache size and any time to live.               *)
(***************************************************************************)
EXTENDS PolicyPlane, LruMapProofs

USE ConstantsAssumption, PlaneAssumption

Pcs        == {"idle", "hash", "dims", "probe", "pdp", "central"}
CacheEntry == [key : CacheKey, val : Evaluation, left : 0..CacheTtl]
GrantEntry == [key : Call, val : {TRUE}, left : 0..GrantTtl]

(* TypeOK, split into the evaluator's state and its surroundings. *)
ClientType ==
    /\ pc \in [Caller -> Pcs]
    /\ call \in [Caller -> Call]
    /\ result \in [Caller -> Result]
    /\ probeLeft \in [Caller -> 0..DiscoveryTtl]
    /\ cache \in Seq(CacheEntry)
    /\ grants \in Seq(GrantEntry)
    /\ suspended \in BOOLEAN
    /\ lastPolicyHash \in Hash
    /\ pdpAlive \in {"unknown", "yes", "no"}
    /\ pdpLeft \in 0..DiscoveryTtl
    /\ addons \in SUBSET Addon /\ snapshot \in BOOLEAN

PlaneType ==
    /\ policy \in Version /\ bundle \in Version /\ active \in BOOLEAN
    /\ stream \in Seq(Event)
    /\ wire \in [Caller -> Wire]
    /\ approved \in [Call -> 0..GrantTtl]
    /\ applied \in Version
    /\ lags \in 0..MaxLags /\ toggles \in 0..MaxToggles /\ ticks \in 0..MaxTicks

(* The type invariant is the evaluator's half and the surroundings' half. *)
LEMMA TypeSplit == TypeOK <=> ClientType /\ PlaneType
  BY DEF TypeOK, ClientType, PlaneType, Pcs, CacheEntry, GrantEntry

(* The same split, after a step. *)
LEMMA TypeSplitNext == ClientType' /\ PlaneType' => TypeOK'
  BY DEF TypeOK, ClientType, PlaneType, Pcs, CacheEntry, GrantEntry

(* The decisions the evaluator makes up by itself are evaluations. *)
LEMMA DecideType ==
    /\ Decide("deny") \in Evaluation /\ Decide("allow") \in Evaluation
    /\ failClosed \in Evaluation /\ NoResult \in Result
  <1>1. NoHash \in Hash /\ 0 \in 0..AgeCap /\ 0 \in Nat
    BY DEF Hash, NoHash, AgeCap
  <1>2. \A d \in {"allow", "deny"} : Decide(d) \in Evaluation
    BY <1>1 DEF Decide, Evaluation
  <1>3. failClosed \in Evaluation
    BY <1>2 DEF failClosed
  <1>4. NoResult \in Result
    BY <1>2 DEF NoResult, Result, Source
  <1> QED BY <1>2, <1>3, <1>4

(* Settling an evaluation to a well-formed result keeps the types of pc and result. *)
LEMMA SettleType ==
    ASSUME ClientType, NEW c \in Caller, NEW src \in Source, NEW e \in Evaluation,
           Settle(c, src, e)
    PROVE  pc' \in [Caller -> Pcs] /\ result' \in [Caller -> Result]
  <1>1. [source |-> src, eval |-> e] \in Result
    BY DEF Result
  <1> QED BY <1>1 DEF ClientType, Settle, Goto, Pcs

(* Moving an evaluation to another await keeps the type of pc. *)
LEMMA GotoType ==
    ASSUME ClientType, NEW c \in Caller, NEW l \in Pcs, Goto(c, l)
    PROVE  pc' \in [Caller -> Pcs]
  BY DEF ClientType, Goto

(* Reading and writing the two maps keeps their types. *)
LEMMA CacheTypes ==
    ASSUME ClientType, NEW c \in Caller, NEW key, NEW e \in Evaluation
    PROVE  /\ AfterGet(cache, key) \in Seq(CacheEntry)
           /\ CacheDecision(c, e) => cache' \in Seq(CacheEntry)
  <1>1. cache \in Seq(CacheEntry)
    BY DEF ClientType
  <1>2. Entry(<<call[c], e.hash>>, e, CacheTtl) \in CacheEntry
    BY DEF Entry, CacheEntry, CacheKey, ClientType, Evaluation
  <1>3. CacheDecision(c, e) => cache' \in Seq(CacheEntry)
    BY <1>1, <1>2, PutInPlaceFacts DEF CacheDecision
  <1> QED BY <1>1, <1>3, AfterGetFacts

(* Every operation on the grant ledger keeps its entries well-formed. *)
LEMMA GrantTypes ==
    ASSUME ClientType, NEW k \in Call, NEW ttl \in 0..GrantTtl
    PROVE  /\ AfterGet(grants, k) \in Seq(GrantEntry)
           /\ PutAtTail(grants, GrantMax, Entry(k, TRUE, ttl)) \in Seq(GrantEntry)
  <1>1. grants \in Seq(GrantEntry)
    BY DEF ClientType
  <1>2. Entry(k, TRUE, ttl) \in GrantEntry
    BY DEF Entry, GrantEntry
  <1> QED BY <1>1, <1>2, AfterGetFacts, PutAtTailFacts

(* A decision found in the cache is an evaluation. *)
LEMMA HitType ==
    ASSUME ClientType, NEW key, Live(cache, key)
    PROVE  Lookup(cache, key).val \in Evaluation
  <1>1. IndexOf(cache, key) \in DOMAIN cache /\ cache \in Seq(CacheEntry)
    BY IndexOfHas DEF Live, ClientType
  <1>2. cache[IndexOf(cache, key)] \in CacheEntry
    BY <1>1
  <1> QED BY <1>2 DEF Lookup, CacheEntry
-----------------------------------------------------------------------------
(* Each step of an evaluation keeps the evaluator's type. *)
LEMMA InvokeType ==
    ASSUME ClientType, NEW c \in Caller, NEW k \in Call, EvaluateToolCall(c, k)
    PROVE  ClientType'
  <1>1. pc' \in [Caller -> Pcs] /\ result' \in [Caller -> Result]
    <2>1. CASE Settle(c, "suspended", Decide("deny"))
      BY <2>1, DecideType, SettleType DEF Source
    <2>2. CASE /\ Goto(c, IF grants = <<>> THEN "dims" ELSE "hash")
               /\ result' = [result EXCEPT ![c] = NoResult]
      BY <2>2, DecideType DEF Goto, ClientType, Pcs
    <2> QED BY <2>1, <2>2 DEF EvaluateToolCall
  <1> QED BY <1>1 DEF EvaluateToolCall, ClientType

(* The grant short-circuit of evaluateToolCall keeps the evaluator's types. *)
LEMMA FindType ==
    ASSUME ClientType, NEW c \in Caller, FindApprovalGrant(c)
    PROVE  ClientType'
  <1>1. pc' \in [Caller -> Pcs] /\ result' \in [Caller -> Result]
    <2>1. CASE Settle(c, "approval_grant", Decide("allow"))
      BY <2>1, DecideType, SettleType DEF Source
    <2>2. CASE Goto(c, "dims") /\ UNCHANGED result
      BY <2>2 DEF Goto, ClientType, Pcs
    <2> QED BY <2>1, <2>2 DEF FindApprovalGrant
  <1>2. call[c] \in Call /\ 0 \in 0..GrantTtl
    BY DEF ClientType
  <1>3. grants' \in Seq(GrantEntry)
    BY <1>2, GrantTypes DEF FindApprovalGrant
  <1> QED BY <1>1, <1>3 DEF FindApprovalGrant, ClientType

(* The decision-cache lookup, and what discoverPdp does after a miss, keep the evaluator's types. *)
LEMMA LookupType ==
    ASSUME ClientType, NEW c \in Caller, LookupDecision(c)
    PROVE  ClientType'
  <1> DEFINE key == <<call[c], lastPolicyHash>>
  <1>1. cache' = AfterGet(cache, key)
    BY DEF LookupDecision
  <1>2. cache' \in Seq(CacheEntry)
    BY <1>1, DecideType, CacheTypes
  <1>3. /\ pc' \in [Caller -> Pcs] /\ result' \in [Caller -> Result]
        /\ probeLeft' \in [Caller -> 0..DiscoveryTtl]
    <2>1. CASE /\ Live(cache, key) /\ Settle(c, "cache", Lookup(cache, key).val)
               /\ UNCHANGED probeLeft
      <3>1. pc' \in [Caller -> Pcs] /\ result' \in [Caller -> Result]
        BY <2>1, HitType, SettleType DEF Source
      <3> QED BY <2>1, <3>1 DEF ClientType
    <2>2. CASE Route(c) /\ UNCHANGED result
      <3>1. \E l \in Pcs : Goto(c, l)
        BY <2>2 DEF Route, Pcs
      <3>2. DiscoveryTtl \in 0..DiscoveryTtl
        OBVIOUS
      <3>3. probeLeft' \in [Caller -> 0..DiscoveryTtl]
        BY <2>2, <3>2 DEF Route, ClientType
      <3> QED BY <2>2, <3>1, <3>3, GotoType DEF ClientType
    <2> QED BY <2>1, <2>2 DEF LookupDecision
  <1> QED BY <1>2, <1>3 DEF LookupDecision, ClientType

(* The settling health probe keeps the evaluator's types. *)
LEMMA DiscoverType ==
    ASSUME ClientType, NEW c \in Caller, NEW ok \in BOOLEAN, DiscoverPdp(c, ok)
    PROVE  ClientType'
  <1>1. \E l \in Pcs : Goto(c, l)
    BY DEF DiscoverPdp, Pcs
  <1>2. pc' \in [Caller -> Pcs]
    BY <1>1, GotoType
  <1>3. pdpLeft' \in 0..DiscoveryTtl /\ pdpAlive' \in {"unknown", "yes", "no"}
    BY DEF DiscoverPdp, ClientType
  <1> QED BY <1>2, <1>3 DEF DiscoverPdp, ClientType

(* A reply of either plane keeps the evaluator's types. *)
LEMMA DecidesType ==
    ASSUME ClientType, NEW c \in Caller, NEW e \in Evaluation, NEW kind, NEW set \in SUBSET Addon,
           PdpDecides(c, e, kind, set) \/ CentralDecides(c, e)
    PROVE  ClientType'
  <1>1. pc' \in [Caller -> Pcs] /\ result' \in [Caller -> Result]
    BY SettleType DEF PdpDecides, CentralDecides, Source
  <1>2. cache' \in Seq(CacheEntry)
    BY CacheTypes DEF PdpDecides, CentralDecides
  <1>3. lastPolicyHash' \in Hash
    BY DEF PdpDecides, CentralDecides, ObserveHash, Evaluation, ClientType
  <1>4. addons' \in SUBSET Addon
    BY DEF PdpDecides, CentralDecides, ObserveAddons, ClientType
  <1>5. snapshot' \in BOOLEAN
    BY DEF PdpDecides, CentralDecides, ObserveAddons, ClientType
  <1> QED BY <1>1, <1>2, <1>3, <1>4, <1>5 DEF PdpDecides, CentralDecides, ClientType

(* Every error path of the two planes keeps the evaluator's types. *)
LEMMA FaultType ==
    ASSUME ClientType, NEW c \in Caller,
           \/ PdpFails(c) \/ CentralFails(c) \/ PdpRefuses(c) \/ PdpUnauthorized(c)
           \/ PdpBodyThrows(c)
    PROVE  ClientType'
  <1>1. CASE PdpFails(c)
    <2>1. pdpLeft' \in 0..DiscoveryTtl /\ pdpAlive' \in {"unknown", "yes", "no"}
      BY <1>1 DEF PdpFails, markPdpUnhealthy
    <2> QED BY <1>1, <2>1, GotoType DEF PdpFails, ClientType, Pcs
  <1>2. CASE PdpRefuses(c)
    BY <1>2, GotoType DEF PdpRefuses, ClientType, Pcs
  <1>3. CASE CentralFails(c) \/ PdpUnauthorized(c) \/ PdpBodyThrows(c)
    <2>1. pc' \in [Caller -> Pcs] /\ result' \in [Caller -> Result]
      BY <1>3, DecideType, SettleType DEF CentralFails, PdpUnauthorized, PdpBodyThrows, Source
    <2> QED BY <1>3, <2>1 DEF CentralFails, PdpUnauthorized, PdpBodyThrows, ClientType
  <1> QED BY <1>1, <1>2, <1>3

(* What the SSE handlers and the webhook do to the evaluator. *)
LEMMA NotifyType ==
    ASSUME ClientType,
           \/ invalidatePolicyCache \/ invalidateAll
           \/ \E b \in BOOLEAN : setSuspended(b)
           \/ \E k \in Call, ttl \in 0..GrantTtl : recordApprovalGrant(k, ttl)
    PROVE  ClientType'
  <1>0. <<>> \in Seq(CacheEntry) /\ <<>> \in Seq(GrantEntry) /\ NoHash \in Hash
    BY DEF Hash
  <1>1. CASE invalidatePolicyCache
    <2>1. snapshot' \in BOOLEAN
      BY <1>1, Zenon DEF invalidatePolicyCache
    <2> QED BY <1>0, <1>1, <2>1 DEF invalidatePolicyCache, ClientType
  <1>2. CASE invalidateAll
    BY <1>0, <1>2 DEF invalidateAll, ClientType
  <1>3. ASSUME NEW b \in BOOLEAN, setSuspended(b) PROVE ClientType'
    BY <1>3 DEF setSuspended, ClientType
  <1>4. ASSUME NEW k \in Call, NEW ttl \in 0..GrantTtl, recordApprovalGrant(k, ttl)
        PROVE  ClientType'
    <2>1. grants' \in Seq(GrantEntry)
      BY <1>4, GrantTypes DEF recordApprovalGrant, ClientType
    <2> QED BY <1>4, <2>1 DEF recordApprovalGrant, ClientType
  <1> QED BY <1>1, <1>2, <1>3, <1>4

(* An entry of the cache after one tick: a little older, nothing else. *)
LEMMA OlderType ==
    ASSUME NEW e \in Evaluation
    PROVE  /\ Older(e) \in Evaluation
           /\ Older(e).ver = e.ver /\ Older(e).hash = e.hash /\ Older(e).decision = e.decision
           /\ Older(e).ttl = e.ttl
           /\ Older(e).age = (IF e.age < AgeCap THEN e.age + 1 ELSE e.age)
  <1>1. AgeCap \in Nat
    BY DEF AgeCap
  <1>2. (IF e.age < AgeCap THEN e.age + 1 ELSE e.age) \in 0..AgeCap
    BY <1>1 DEF Evaluation
  <1> QED BY <1>2 DEF Older, Evaluation

(* The clock shortens every life and ages every cached decision. *)
LEMMA ClientTickFacts ==
    ASSUME ClientType, ClientTick
    PROVE  /\ ClientType'
           /\ Len(cache') = Len(cache) /\ DOMAIN cache' = DOMAIN cache
           /\ \A i \in DOMAIN cache : /\ cache'[i].key = cache[i].key
                                      /\ cache'[i].val = Older(cache[i].val)
                                      /\ cache'[i].left = Countdown(cache[i].left)
           /\ Len(grants') = Len(grants) /\ DOMAIN grants' = DOMAIN grants
           /\ \A i \in DOMAIN grants : /\ grants'[i].key = grants[i].key
                                       /\ grants'[i].left = Countdown(grants[i].left)
  <1>1. /\ Len(cache) \in Nat /\ DOMAIN cache = 1..Len(cache)
        /\ Len(grants) \in Nat /\ DOMAIN grants = 1..Len(grants)
        /\ \A i \in DOMAIN cache : cache[i] \in CacheEntry
        /\ \A i \in DOMAIN grants : grants[i] \in GrantEntry
    BY DEF ClientType
  <1>2. \A n, m \in Nat : n \in 0..m => Countdown(n) \in 0..m
    BY DEF Countdown
  <1>3. \A i \in DOMAIN cache :
           /\ cache'[i] \in CacheEntry /\ cache'[i].key = cache[i].key
           /\ cache'[i].val = Older(cache[i].val) /\ cache'[i].left = Countdown(cache[i].left)
    <2> SUFFICES ASSUME NEW i \in DOMAIN cache
                 PROVE  /\ cache'[i] \in CacheEntry /\ cache'[i].key = cache[i].key
                        /\ cache'[i].val = Older(cache[i].val)
                        /\ cache'[i].left = Countdown(cache[i].left)
      OBVIOUS
    <2>1. cache[i].val \in Evaluation /\ cache[i].left \in 0..CacheTtl /\ cache[i] \in CacheEntry
      BY <1>1 DEF CacheEntry
    <2>2. Older(cache[i].val) \in Evaluation /\ Countdown(cache[i].left) \in 0..CacheTtl
      BY <2>1, <1>2, OlderType
    <2>3. cache'[i] = [cache[i] EXCEPT !.val = Older(cache[i].val), !.left = Countdown(cache[i].left)]
      BY DEF ClientTick
    <2> QED BY <2>1, <2>2, <2>3 DEF CacheEntry
  <1>4. \A i \in DOMAIN grants :
           /\ grants'[i] \in GrantEntry /\ grants'[i].key = grants[i].key
           /\ grants'[i].left = Countdown(grants[i].left)
    <2> SUFFICES ASSUME NEW i \in DOMAIN grants
                 PROVE  /\ grants'[i] \in GrantEntry /\ grants'[i].key = grants[i].key
                        /\ grants'[i].left = Countdown(grants[i].left)
      OBVIOUS
    <2>1. grants[i].left \in 0..GrantTtl /\ grants[i] \in GrantEntry
      BY <1>1 DEF GrantEntry
    <2>2. Countdown(grants[i].left) \in 0..GrantTtl
      BY <2>1, <1>2
    <2>3. grants'[i] = [grants[i] EXCEPT !.left = Countdown(grants[i].left)]
      BY DEF ClientTick, Elapse
    <2> QED BY <2>1, <2>2, <2>3 DEF GrantEntry
  <1>5. cache' \in [1..Len(cache) -> CacheEntry] /\ grants' \in [1..Len(grants) -> GrantEntry]
    BY <1>1, <1>3, <1>4 DEF ClientTick, Elapse
  <1>6. /\ cache' \in Seq(CacheEntry) /\ Len(cache') = Len(cache) /\ DOMAIN cache' = DOMAIN cache
        /\ grants' \in Seq(GrantEntry) /\ Len(grants') = Len(grants) /\ DOMAIN grants' = DOMAIN grants
    BY <1>1, <1>5, FunctionIsSeq
  <1>7. pdpLeft' \in 0..DiscoveryTtl /\ probeLeft' \in [Caller -> 0..DiscoveryTtl]
    <2>1. DiscoveryTtl \in Nat
      OBVIOUS
    <2>2. \A n \in 0..DiscoveryTtl : Countdown(n) \in 0..DiscoveryTtl
      BY <1>2, <2>1
    <2> QED BY <2>2 DEF ClientTick, ClientType
  <1>8. ClientType'
    BY <1>6, <1>7 DEF ClientTick, ClientType
  <1> QED BY <1>3, <1>4, <1>6, <1>8
-----------------------------------------------------------------------------
(* What a plane may answer. *)
LEMMA VerdictFacts ==
    ASSUME NEW k \in Call, NEW v \in Version, NEW h \in Hashes(v), NEW t \in Nat
    PROVE  /\ Verdict(k, v, h, t) \in Evaluation
           /\ Verdict(k, v, h, t).ver = v /\ Verdict(k, v, h, t).hash \in {v, NoHash}
           /\ Verdict(k, v, h, t).age = 0
           /\ Verdict(k, v, h, t).decision = "allow" => k \in AllowedBy[v]
  <1>1. h \in {v, NoHash}
    BY DEF Hashes
  <1>2. h \in Hash /\ v \in Hash /\ 0 \in 0..AgeCap
    BY <1>1 DEF Hash, AgeCap
  <1> QED BY <1>1, <1>2 DEF Evaluation, Verdict

(* Publishing keeps the stream a sequence of events, across an overflow of the queue too. *)
LEMMA PublishType ==
    ASSUME PlaneType, NEW e \in Event, Publish(e)
    PROVE  stream' \in Seq(Event) /\ lags' \in 0..MaxLags
  <1>1. [kind |-> "lagged"] \in Event
    <2>1. [kind |-> "lagged"] \in [kind : {"suspended", "activated", "lagged"}]
      OBVIOUS
    <2> QED BY <2>1, Zenon DEF Event
  <1>4. CASE stream' = Append(stream, e) /\ UNCHANGED lags
    BY <1>4 DEF PlaneType
  <1>3. CASE lags < MaxLags /\ stream' = <<[kind |-> "lagged"]>> /\ lags' = lags + 1
    BY <1>1, <1>3 DEF PlaneType
  <1> QED BY <1>3, <1>4 DEF Publish

(* An answer put on the wire is well-formed. *)
LEMMA WireType ==
    ASSUME PlaneType, NEW c \in Caller, NEW w \in Wire, wire' = [wire EXCEPT ![c] = w]
    PROVE  wire' \in [Caller -> Wire]
  BY DEF PlaneType

(* The empty wire is well-formed. *)
LEMMA NoWireType == NoWire \in Wire
  BY DecideType DEF NoWire, Wire, Signal

(* The fields of an event follow its kind. *)
LEMMA EventFields ==
    ASSUME NEW e \in Event
    PROVE  /\ e.kind \in {"policy", "suspended", "activated", "lagged", "grant"}
           /\ e.kind = "policy" => e.ver \in Version
           /\ e.kind = "grant" =>
                 /\ e.of \in Call /\ e.left \in 0..GrantTtl
                 /\ e \in [kind : {"grant"}, of : Call, left : 0..GrantTtl]
  BY DEF Event

(* What central publishes are events of the wire types. *)
LEMMA EventTypes ==
    /\ \A v \in Version : [kind |-> "policy", ver |-> v] \in Event
    /\ \A n \in {"suspended", "activated"} : [kind |-> n] \in Event
    /\ \A k \in Call, l \in 0..GrantTtl : [kind |-> "grant", of |-> k, left |-> l] \in Event
  <1>1. \A v \in Version : [kind |-> "policy", ver |-> v] \in Event
    BY DEF Event
  <1>2. \A n \in {"suspended", "activated"} : [kind |-> n] \in Event
    <2>1. \A n \in {"suspended", "activated"} : [kind |-> n] \in [kind : {"suspended", "activated", "lagged"}]
      OBVIOUS
    <2> QED BY <2>1, Zenon DEF Event
  <1>3. \A k \in Call, l \in 0..GrantTtl : [kind |-> "grant", of |-> k, left |-> l] \in Event
    BY DEF Event
  <1> QED BY <1>1, <1>2, <1>3

(* What an aging stream looks like. *)
AgedStream == [i \in DOMAIN stream |->
                  IF stream[i].kind = "grant"
                  THEN [stream[i] EXCEPT !.left = Countdown(@)] ELSE stream[i]]

(* A tick shortens the life of the grants in the stream and changes nothing else of it. *)
LEMMA AgedStreamFacts ==
    ASSUME stream \in Seq(Event)
    PROVE  /\ AgedStream \in Seq(Event) /\ DOMAIN AgedStream = DOMAIN stream
           /\ \A i \in DOMAIN stream :
                 /\ AgedStream[i].kind = stream[i].kind
                 /\ stream[i].kind = "grant" =>
                       /\ AgedStream[i].of = stream[i].of
                       /\ AgedStream[i].left = Countdown(stream[i].left)
                 /\ stream[i].kind = "policy" => AgedStream[i].ver = stream[i].ver
  <1>1. Len(stream) \in Nat /\ DOMAIN stream = 1..Len(stream)
    OBVIOUS
  <1>2. ASSUME NEW i \in DOMAIN stream
        PROVE  /\ AgedStream[i] \in Event /\ AgedStream[i].kind = stream[i].kind
               /\ stream[i].kind = "grant" =>
                     /\ AgedStream[i].of = stream[i].of
                     /\ AgedStream[i].left = Countdown(stream[i].left)
               /\ stream[i].kind = "policy" => AgedStream[i].ver = stream[i].ver
    <2>1. stream[i] \in Event
      OBVIOUS
    <2>2. CASE stream[i].kind = "grant"
      <3>1. /\ stream[i] \in [kind : {"grant"}, of : Call, left : 0..GrantTtl]
            /\ stream[i].of \in Call /\ stream[i].left \in 0..GrantTtl
        BY <2>1, <2>2, EventFields
      <3>2. Countdown(stream[i].left) \in 0..GrantTtl
        BY <3>1 DEF Countdown
      <3>3. AgedStream[i] = [kind |-> "grant", of |-> stream[i].of, left |-> Countdown(stream[i].left)]
        BY <2>2, <3>1 DEF AgedStream
      <3> QED BY <2>2, <3>1, <3>2, <3>3, EventTypes
    <2>3. CASE stream[i].kind # "grant"
      BY <2>1, <2>3 DEF AgedStream
    <2> QED BY <2>2, <2>3
  <1>3. AgedStream \in [1..Len(stream) -> Event]
    BY <1>1, <1>2 DEF AgedStream
  <1> QED BY <1>1, <1>2, <1>3, FunctionIsSeq DEF AgedStream

(* A new client and its surroundings are well-formed. *)
LEMMA TypeInit == Init => TypeOK
  <1> SUFFICES ASSUME Init PROVE ClientType /\ PlaneType
    BY TypeSplit
  <1>1. ClientType
    <2>1. /\ cache \in Seq(CacheEntry) /\ grants \in Seq(GrantEntry)
          /\ pc \in [Caller -> Pcs] /\ call \in [Caller -> Call]
          /\ result \in [Caller -> Result]
      BY DecideType DEF Init, CedarInit, Pcs
    <2>2. lastPolicyHash \in Hash /\ pdpLeft \in 0..DiscoveryTtl
          /\ probeLeft \in [Caller -> 0..DiscoveryTtl] /\ addons \in SUBSET Addon
          /\ pdpAlive \in {"unknown", "yes", "no"}
      BY DEF Init, CedarInit, Hash
    <2>3. suspended \in BOOLEAN /\ snapshot \in BOOLEAN
      BY Zenon DEF Init, CedarInit
    <2> QED BY <2>1, <2>2, <2>3 DEF ClientType
  <1>2. PlaneType
    <2>1. stream \in Seq(Event) /\ wire \in [Caller -> Wire]
      BY NoWireType DEF Init
    <2>2. active \in BOOLEAN
      BY Zenon DEF Init
    <2>3. policy \in Version /\ bundle \in Version /\ applied \in Version
          /\ approved \in [Call -> 0..GrantTtl]
          /\ lags \in 0..MaxLags /\ toggles \in 0..MaxToggles /\ ticks \in 0..MaxTicks
      BY DEF Init, Version
    <2> QED BY <2>1, <2>2, <2>3 DEF PlaneType
  <1> QED BY <1>1, <1>2

(* Every step of the composed system keeps the type invariant. *)
LEMMA TypeStep == TypeOK /\ [Next]_vars => TypeOK'
  <1> SUFFICES ASSUME ClientType, PlaneType, [Next]_vars PROVE ClientType' /\ PlaneType'
    BY TypeSplit, TypeSplitNext
  <1>0. UNCHANGED clientVars => ClientType'
    BY DEF clientVars, ClientType
  <1>q. ASSUME Quiet, wire' \in [Caller -> Wire] PROVE PlaneType'
    BY <1>q DEF Quiet, PlaneType
  <1>1. ASSUME NEW c \in Caller, Invoke(c) PROVE ClientType' /\ PlaneType'
    <2>1. ClientType'
      BY <1>1, InvokeType DEF Invoke
    <2>2. PlaneType'
      BY <1>1 DEF Invoke, planeVars, PlaneType
    <2> QED BY <2>1, <2>2
  <1>2. ASSUME NEW c \in Caller, LocalStep(c) \/ ProbeStep(c) PROVE ClientType' /\ PlaneType'
    <2>1. ClientType'
      BY <1>2, FindType, LookupType, DiscoverType DEF LocalStep, ProbeStep
    <2>2. Quiet /\ wire' = wire
      BY <1>2 DEF LocalStep, ProbeStep
    <2> QED BY <1>q, <2>1, <2>2 DEF PlaneType
  <1>3. ASSUME NEW c \in Caller, ReplyStep(c) PROVE ClientType' /\ PlaneType'
    <2>1. wire[c] \in Wire
      BY DEF PlaneType
    <2>2. wire[c].eval \in Evaluation /\ wire[c].addons \in SUBSET Addon
      BY <2>1 DEF Wire
    <2>3. ClientType'
      BY <1>3, <2>2, DecidesType DEF ReplyStep
    <2>4. wire' \in [Caller -> Wire] /\ Quiet
      BY <1>3, NoWireType, WireType DEF ReplyStep, Hangup
    <2> QED BY <1>q, <2>3, <2>4
  <1>4. ASSUME NEW c \in Caller, FaultStep(c) PROVE ClientType' /\ PlaneType'
    <2>1. ClientType'
      BY <1>4, FaultType DEF FaultStep
    <2>2. wire' \in [Caller -> Wire] /\ Quiet
      BY <1>4, NoWireType, WireType DEF FaultStep, Hangup
    <2> QED BY <1>q, <2>1, <2>2
  <1>5. ASSUME NEW c \in Caller, PdpEvaluates(c) PROVE ClientType' /\ PlaneType'
    <2>1. PICK h \in Hashes(bundle), s \in Signal, a \in SUBSET Addon :
             wire' = [wire EXCEPT ![c] =
                        [plane |-> "pdp", eval |-> Verdict(call[c], bundle, h, PdpTtl),
                         signal |-> s, addons |-> a]]
      BY <1>5 DEF PdpEvaluates
    <2>2. Verdict(call[c], bundle, h, PdpTtl) \in Evaluation
      BY VerdictFacts DEF ClientType, PlaneType
    <2>3. [plane |-> "pdp", eval |-> Verdict(call[c], bundle, h, PdpTtl),
           signal |-> s, addons |-> a] \in Wire
      BY <2>2 DEF Wire
    <2>4. wire' \in [Caller -> Wire]
      BY <2>1, <2>3, WireType
    <2> QED BY <1>0, <1>5, <2>4 DEF PdpEvaluates, PlaneType
  <1>6. ASSUME NEW c \in Caller, CentralEvaluates(c) PROVE ClientType' /\ PlaneType'
    <2>1. PICK h \in Hashes(policy), t \in {0, PdpTtl} :
             wire' = [wire EXCEPT ![c] =
                        [plane |-> "central", eval |-> Verdict(call[c], policy, h, t),
                         signal |-> "none", addons |-> {}]]
      BY <1>6 DEF CentralEvaluates
    <2>2. Verdict(call[c], policy, h, t) \in Evaluation
      BY VerdictFacts DEF ClientType, PlaneType
    <2>3. [plane |-> "central", eval |-> Verdict(call[c], policy, h, t),
           signal |-> "none", addons |-> {}] \in Wire
      BY <2>2 DEF Wire, Signal
    <2>4. wire' \in [Caller -> Wire]
      BY <2>1, <2>3, WireType
    <2> QED BY <1>0, <1>6, <2>4 DEF CentralEvaluates, PlaneType
  <1>7. CASE PublishPolicy
    <2>1. policy + 1 \in Version
      BY <1>7 DEF PublishPolicy, PlaneType, Version
    <2>2. [kind |-> "policy", ver |-> policy + 1] \in Event
      BY <2>1, EventTypes
    <2>3. stream' \in Seq(Event) /\ lags' \in 0..MaxLags
      BY <1>7, <2>2, PublishType DEF PublishPolicy
    <2> QED BY <1>0, <1>7, <2>1, <2>3 DEF PublishPolicy, PlaneType
  <1>8. CASE PdpSyncs
    BY <1>0, <1>8 DEF PdpSyncs, PlaneType
  <1>9. CASE ToggleAgent
    <2>1. [kind |-> IF active THEN "suspended" ELSE "activated"] \in Event
      BY EventTypes
    <2>2. stream' \in Seq(Event) /\ lags' \in 0..MaxLags
      BY <1>9, <2>1, PublishType DEF ToggleAgent
    <2>3. active' \in BOOLEAN
      BY <1>9, Zenon DEF ToggleAgent
    <2>4. toggles' \in 0..MaxToggles
      BY <1>9 DEF ToggleAgent, PlaneType
    <2> QED BY <1>0, <1>9, <2>2, <2>3, <2>4 DEF ToggleAgent, PlaneType
  <1>10. ASSUME NEW k \in Approvable, OperatorApproves(k) PROVE ClientType' /\ PlaneType'
    <2>1. k \in Call /\ GrantTtl \in 0..GrantTtl
      OBVIOUS
    <2>2. [kind |-> "grant", of |-> k, left |-> GrantTtl] \in Event
      BY <2>1, EventTypes
    <2>3. stream' \in Seq(Event) /\ lags' \in 0..MaxLags
      BY <1>10, <2>2, PublishType DEF OperatorApproves
    <2>4. approved' \in [Call -> 0..GrantTtl]
      BY <1>10, <2>1 DEF OperatorApproves, PlaneType
    <2> QED BY <1>0, <1>10, <2>3, <2>4 DEF OperatorApproves, PlaneType
  <1>11. ASSUME NEW k \in Approvable, SessionApproval(k) PROVE ClientType' /\ PlaneType'
    <2>1. k \in Call /\ GrantTtl \in 0..GrantTtl
      OBVIOUS
    <2>2. ClientType'
      BY <1>11, <2>1, NotifyType DEF SessionApproval
    <2>3. approved' \in [Call -> 0..GrantTtl]
      BY <1>11, <2>1 DEF SessionApproval, PlaneType
    <2> QED BY <1>11, <2>2, <2>3 DEF SessionApproval, PlaneType
  <1>12. CASE HandleEvent
    <2>1. Head(stream) \in Event /\ Tail(stream) \in Seq(Event)
      BY <1>12 DEF HandleEvent, PlaneType
    <2>2. ClientType'
      <3>1. CASE \E k \in Call, ttl \in 0..GrantTtl : recordApprovalGrant(k, ttl)
        BY <3>1, NotifyType
      <3>2. CASE invalidatePolicyCache \/ setSuspended(TRUE) \/ setSuspended(FALSE)
        BY <3>2, NotifyType
      <3>3. CASE UNCHANGED clientVars
        BY <1>0, <3>3
      <3> QED BY <1>12, <2>1, <3>1, <3>2, <3>3, EventFields
           DEF HandleEvent, handlePolicyEvent, handleAgentSuspended,
               handleAgentActivated, handleHitlGrant, dropEvent
    <2>3. applied' \in Version
      BY <1>12, <2>1, EventFields DEF HandleEvent, PlaneType
    <2> QED BY <1>12, <2>1, <2>2, <2>3 DEF HandleEvent, PlaneType
  <1>13. CASE Webhook
    <2>1. ClientType'
      BY <1>13, NotifyType DEF Webhook
    <2> QED BY <1>13, <2>1 DEF Webhook, planeVars, PlaneType
  <1>14. CASE Tick
    <2>1. ClientType'
      BY <1>14, ClientTickFacts DEF Tick
    <2>2. stream' \in Seq(Event)
      BY <1>14, AgedStreamFacts DEF Tick, AgedStream, PlaneType
    <2>3. approved' \in [Call -> 0..GrantTtl]
      BY <1>14 DEF Tick, Countdown, PlaneType
    <2>4. ticks' \in 0..MaxTicks
      BY <1>14 DEF Tick, PlaneType
    <2> QED BY <1>14, <2>1, <2>2, <2>3, <2>4 DEF Tick, PlaneType
  <1>15. CASE UNCHANGED vars
    BY <1>0, <1>15 DEF vars, planeVars, PlaneType
  <1> QED BY <1>1, <1>2, <1>3, <1>4, <1>5, <1>6, <1>7, <1>8, <1>9, <1>10, <1>11, <1>12,
             <1>13, <1>14, <1>15 DEF Next, Evaluating

(* The evaluator and its planes keep their types. *)
THEOREM TypeCorrect == Spec => []TypeOK
  BY TypeInit, TypeStep, PTL DEF Spec

-----------------------------------------------------------------------------
(***************************************************************************)
(* Fail closed.  AllowIsBacked is not inductive: a settled allow is backed *)
(* because the answer on the wire, or the entry of the cache, it came from *)
(* was.  Backing adds those two and that the PDP never runs ahead of       *)
(* central.                                                                *)
(***************************************************************************)

(* Genuine, with the newest published version as a parameter. *)
Under(p, e, k) ==
    /\ e.ver \in 1..p
    /\ e.hash \in {e.ver, NoHash}
    /\ e.decision = "allow" => k \in AllowedBy[e.ver]

CacheBacked(m, p) ==
    \A i \in DOMAIN m : Under(p, m[i].val, m[i].key[1]) /\ m[i].val.hash = m[i].key[2]

(* An answer in flight waits for the await of its plane, and is genuine. *)
WireBacked(w, l, k, p) ==
    w.plane \in {"pdp", "central"} => l = w.plane /\ Under(p, w.eval, k)

ResultBacked(r, k, p) ==
    /\ r.source \in {"cache", "local_pdp", "central"} => Under(p, r.eval, k)
    /\ r.source \in {"none", "suspended", "rejected"} => r.eval = Decide("deny")
    /\ r.source \in {"pdp_unauthorized", "fail_mode"} => r.eval = failClosed

Backing ==
    /\ bundle <= policy
    /\ CacheBacked(cache, policy)
    /\ \A c \in Caller : WireBacked(wire[c], pc[c], call[c], policy)
    /\ \A c \in Caller : ResultBacked(result[c], call[c], policy)

(* The inductive invariant gives both properties of the runs. *)
LEMMA BackingImplies == TypeOK /\ Backing => CacheCoherent /\ AllowIsBacked
  <1> SUFFICES ASSUME TypeOK, Backing PROVE CacheCoherent /\ AllowIsBacked
    OBVIOUS
  <1>1. CacheCoherent
    BY DEF Backing, CacheBacked, CacheCoherent, Under, Genuine
  <1>2. ASSUME FailMode = "deny", NEW c \in Caller, result[c].eval.decision = "allow",
               result[c].source # "approval_grant"
        PROVE  Genuine(result[c].eval, call[c])
    <2>1. result[c].source \in Source /\ ResultBacked(result[c], call[c], policy)
      BY DEF TypeOK, Result, Backing
    <2>2. failClosed.decision = "deny" /\ Decide("deny").decision = "deny"
      BY <1>2 DEF failClosed, Decide
    <2> QED BY <1>2, <2>1, <2>2 DEF ResultBacked, Source, Under, Genuine
  <1>3. AllowIsBacked
    BY <1>2 DEF AllowIsBacked
  <1> QED BY <1>1, <1>3

(* A step of one evaluation, given what it does to that one. *)
LEMMA OneCallerBacked ==
    ASSUME Backing, UNCHANGED <<policy, bundle>>, NEW c \in Caller,
           CacheBacked(cache', policy),
           \A q \in Caller \ {c} : /\ pc'[q] = pc[q] /\ call'[q] = call[q]
                                   /\ result'[q] = result[q] /\ wire'[q] = wire[q],
           WireBacked(wire'[c], pc'[c], call'[c], policy),
           ResultBacked(result'[c], call'[c], policy)
    PROVE  Backing'
  <1>1. \A q \in Caller : WireBacked(wire'[q], pc'[q], call'[q], policy)
    BY DEF Backing
  <1>2. \A q \in Caller : ResultBacked(result'[q], call'[q], policy)
    BY DEF Backing
  <1>3. bundle' <= policy'
    BY DEF Backing
  <1> QED BY <1>1, <1>2, <1>3 DEF Backing

(* An answer with no plane, and a made-up result, need no backing. *)
LEMMA NothingToBack ==
    ASSUME NEW l, NEW k, NEW p
    PROVE  /\ WireBacked(NoWire, l, k, p)
           /\ ResultBacked(NoResult, k, p)
           /\ \A src \in {"suspended", "rejected"} :
                 ResultBacked([source |-> src, eval |-> Decide("deny")], k, p)
           /\ \A src \in {"pdp_unauthorized", "fail_mode"} :
                 ResultBacked([source |-> src, eval |-> failClosed], k, p)
           /\ ResultBacked([source |-> "approval_grant", eval |-> Decide("allow")], k, p)
  BY DEF WireBacked, ResultBacked, NoWire, NoResult

(* An answer taken off the wire is put into the cache under its own hash.  *)
LEMMA CacheDecisionBacked ==
    ASSUME ClientType, Backing, NEW c \in Caller, NEW e \in Evaluation,
           CacheDecision(c, e), Under(policy, e, call[c])
    PROVE  CacheBacked(cache', policy)
  <1> DEFINE n == Entry(<<call[c], e.hash>>, e, CacheTtl)
  <1>1. cache \in Seq(CacheEntry)
    BY DEF ClientType
  <1>2. n \in CacheEntry /\ n.val = e /\ n.key[1] = call[c] /\ n.key[2] = e.hash
    BY DEF Entry, CacheEntry, CacheKey, ClientType, Evaluation
  <1>3. cache' = PutInPlace(cache, CacheMax, n) \/ cache' = cache
    BY DEF CacheDecision
  <1> HIDE DEF n
  <1>4. WithinOr(cache', cache, n)
    BY <1>1, <1>2, <1>3, PutInPlaceFacts DEF WithinOr
  <1> QED BY <1>2, <1>4 DEF CacheBacked, WithinOr, Backing

(* Starting an evaluation keeps every decision backed. *)
LEMMA BackingInvoke ==
    ASSUME TypeOK, Backing, NEW c \in Caller, Invoke(c)
    PROVE  Backing'
  <1>1. PICK k \in Call : EvaluateToolCall(c, k)
    BY DEF Invoke
  <1>2. UNCHANGED <<policy, bundle, wire, cache>> /\ pc[c] = "idle"
    BY <1>1 DEF Invoke, planeVars, EvaluateToolCall
  <1>3. wire[c].plane \notin {"pdp", "central"}
    BY <1>2 DEF Backing, WireBacked
  <1>4. /\ \A q \in Caller \ {c} : pc'[q] = pc[q] /\ call'[q] = call[q] /\ result'[q] = result[q]
        /\ \/ result'[c] = [source |-> "suspended", eval |-> Decide("deny")]
           \/ result'[c] = NoResult
    BY <1>1 DEF EvaluateToolCall, Settle, Goto, TypeOK
  <1>5. ResultBacked(result'[c], call'[c], policy)
    BY <1>4, NothingToBack
  <1>6. WireBacked(wire'[c], pc'[c], call'[c], policy)
    BY <1>2, <1>3 DEF WireBacked
  <1> QED BY <1>2, <1>4, <1>5, <1>6, OneCallerBacked DEF Backing

(* Grant and cache lookups keep every decision backed: a hit is genuine because its entry is. *)
LEMMA BackingLocal ==
    ASSUME TypeOK, Backing, NEW c \in Caller, LocalStep(c) \/ ProbeStep(c)
    PROVE  Backing'
  <1>0. ClientType
    BY TypeSplit
  <1>1. UNCHANGED <<policy, bundle, wire, call>> /\ pc[c] \in {"hash", "dims", "probe"}
    BY DEF LocalStep, ProbeStep, Quiet, FindApprovalGrant, LookupDecision, DiscoverPdp
  <1>2. wire[c].plane \notin {"pdp", "central"}
    BY <1>1 DEF Backing, WireBacked
  <1>3. \A q \in Caller \ {c} : pc'[q] = pc[q] /\ result'[q] = result[q]
    BY DEF LocalStep, ProbeStep, FindApprovalGrant, LookupDecision, DiscoverPdp, Route,
       Settle, Goto, TypeOK
  <1>4. CacheBacked(cache', policy)
    <2>1. Within(cache', cache)
      <3>1. cache \in Seq(CacheEntry)
        BY <1>0 DEF ClientType
      <3>2. \/ cache' = cache
            \/ cache' = AfterGet(cache, <<call[c], lastPolicyHash>>)
        BY DEF LocalStep, ProbeStep, FindApprovalGrant, LookupDecision, DiscoverPdp
      <3>3. Within(AfterGet(cache, <<call[c], lastPolicyHash>>), cache)
        BY <3>1, AfterGetFacts
      <3> QED BY <3>2, <3>3 DEF Within
    <2> QED BY <2>1 DEF Within, CacheBacked, Backing
  <1>5. ResultBacked(result'[c], call'[c], policy)
    <2>1. CASE result' = result
      BY <1>1, <2>1 DEF Backing
    <2>2. CASE Settle(c, "approval_grant", Decide("allow"))
      <3>1. result'[c] = [source |-> "approval_grant", eval |-> Decide("allow")]
        BY <2>2 DEF Settle, TypeOK
      <3> QED BY <3>1, NothingToBack
    <2>3. CASE /\ Live(cache, <<call[c], lastPolicyHash>>)
               /\ Settle(c, "cache", Lookup(cache, <<call[c], lastPolicyHash>>).val)
      <3> DEFINE key == <<call[c], lastPolicyHash>>
      <3>1. IndexOf(cache, key) \in DOMAIN cache /\ cache[IndexOf(cache, key)].key = key
        BY <2>3, IndexOfHas DEF Live
      <3>2. Under(policy, Lookup(cache, key).val, call[c])
        BY <3>1 DEF Backing, CacheBacked, Lookup
      <3>3. result'[c] = [source |-> "cache", eval |-> Lookup(cache, key).val]
        BY <2>3 DEF Settle, TypeOK
      <3> QED BY <1>1, <3>2, <3>3 DEF ResultBacked
    <2> QED BY <2>1, <2>2, <2>3
         DEF LocalStep, ProbeStep, FindApprovalGrant, LookupDecision, DiscoverPdp
  <1>6. WireBacked(wire'[c], pc'[c], call'[c], policy)
    BY <1>1, <1>2 DEF WireBacked
  <1> QED BY <1>1, <1>3, <1>4, <1>5, <1>6, OneCallerBacked

(* A reply keeps every decision backed: it is filed under the call and the hash it was computed for. *)
LEMMA BackingReply ==
    ASSUME TypeOK, Backing, NEW c \in Caller, ReplyStep(c)
    PROVE  Backing'
  <1>0. ClientType /\ wire[c].eval \in Evaluation
    BY TypeSplit DEF TypeOK, Wire
  <1>1. Under(policy, wire[c].eval, call[c])
    BY DEF ReplyStep, Backing, WireBacked
  <1>2. PICK src \in {"local_pdp", "central"} :
           Settle(c, src, wire[c].eval) /\ CacheDecision(c, wire[c].eval)
    BY DEF ReplyStep, PdpDecides, CentralDecides
  <1>3. UNCHANGED <<policy, bundle, call>> /\ Hangup(c)
    BY DEF ReplyStep, PdpDecides, CentralDecides, Quiet
  <1>4. CacheBacked(cache', policy)
    BY <1>0, <1>1, <1>2, CacheDecisionBacked
  <1>5. /\ \A q \in Caller \ {c} : pc'[q] = pc[q] /\ result'[q] = result[q] /\ wire'[q] = wire[q]
        /\ result'[c] = [source |-> src, eval |-> wire[c].eval] /\ wire'[c] = NoWire
    BY <1>2, <1>3 DEF Settle, Goto, Hangup, TypeOK
  <1>6. ResultBacked(result'[c], call'[c], policy)
    BY <1>1, <1>3, <1>5 DEF ResultBacked
  <1>7. WireBacked(wire'[c], pc'[c], call'[c], policy)
    BY <1>5, NothingToBack
  <1> QED BY <1>3, <1>4, <1>5, <1>6, <1>7, OneCallerBacked

(* An error path settles to the fail mode and keeps every decision backed. *)
LEMMA BackingFault ==
    ASSUME TypeOK, Backing, NEW c \in Caller, FaultStep(c)
    PROVE  Backing'
  <1>1. UNCHANGED <<policy, bundle, call, cache>> /\ Hangup(c)
    BY DEF FaultStep, PdpFails, PdpRefuses, PdpUnauthorized, PdpBodyThrows, CentralFails, Quiet
  <1>2. /\ \A q \in Caller \ {c} : pc'[q] = pc[q] /\ result'[q] = result[q] /\ wire'[q] = wire[q]
        /\ wire'[c] = NoWire
        /\ \/ result'[c] = result[c]
           \/ result'[c] = [source |-> "pdp_unauthorized", eval |-> failClosed]
           \/ result'[c] = [source |-> "fail_mode", eval |-> failClosed]
           \/ result'[c] = [source |-> "rejected", eval |-> Decide("deny")]
    BY <1>1 DEF FaultStep, PdpFails, PdpRefuses, PdpUnauthorized, PdpBodyThrows, CentralFails,
       Settle, Goto, Hangup, TypeOK
  <1>3. ResultBacked(result'[c], call'[c], policy)
    BY <1>1, <1>2, NothingToBack DEF Backing
  <1>4. WireBacked(wire'[c], pc'[c], call'[c], policy)
    BY <1>2, NothingToBack
  <1> QED BY <1>1, <1>2, <1>3, <1>4, OneCallerBacked DEF Backing

(* What a plane puts on the wire is a genuine answer to the call that was asked. *)
LEMMA BackingEvaluates ==
    ASSUME TypeOK, Backing, NEW c \in Caller, PdpEvaluates(c) \/ CentralEvaluates(c)
    PROVE  Backing'
  <1>0. policy \in Version /\ bundle \in Version /\ bundle <= policy /\ call[c] \in Call
    BY DEF TypeOK, Backing
  <1>1. UNCHANGED <<clientVars, policy, bundle>>
    BY DEF PdpEvaluates, CentralEvaluates
  <1>2. UNCHANGED <<pc, call, result, cache>>
    BY <1>1 DEF clientVars
  <1>3. ASSUME NEW v \in Version, v <= policy, NEW h \in Hashes(v), NEW t \in Nat
        PROVE  Under(policy, Verdict(call[c], v, h, t), call[c])
    <2>1. v \in 1..policy
      BY <1>0, <1>3 DEF Version
    <2> QED BY <1>0, <2>1, VerdictFacts DEF Under
  <1>4. ASSUME NEW l, NEW e, NEW s, NEW a, pc[c] = l, Under(policy, e, call[c]),
               wire' = [wire EXCEPT ![c] = [plane |-> l, eval |-> e, signal |-> s, addons |-> a]]
        PROVE  /\ \A q \in Caller \ {c} : wire'[q] = wire[q]
               /\ WireBacked(wire'[c], pc[c], call[c], policy)
    <2>1. wire'[c] = [plane |-> l, eval |-> e, signal |-> s, addons |-> a]
      BY <1>4 DEF TypeOK
    <2>2. \A q \in Caller \ {c} : wire'[q] = wire[q]
      BY <1>4 DEF TypeOK
    <2> QED BY <1>4, <2>1, <2>2 DEF WireBacked
  <1>5. /\ \A q \in Caller \ {c} : wire'[q] = wire[q]
        /\ WireBacked(wire'[c], pc[c], call[c], policy)
    <2>1. CASE PdpEvaluates(c)
      <3>1. PICK h \in Hashes(bundle), s \in Signal, a \in SUBSET Addon :
               wire' = [wire EXCEPT ![c] =
                          [plane |-> "pdp", eval |-> Verdict(call[c], bundle, h, PdpTtl),
                           signal |-> s, addons |-> a]]
        BY <2>1 DEF PdpEvaluates
      <3>2. Under(policy, Verdict(call[c], bundle, h, PdpTtl), call[c])
        BY <1>0, <1>3, ConstantsAssumption
      <3>3. pc[c] = "pdp"
        BY <2>1 DEF PdpEvaluates
      <3> QED BY <1>4, <3>1, <3>2, <3>3
    <2>2. CASE CentralEvaluates(c)
      <3>1. PICK h \in Hashes(policy), t \in {0, PdpTtl} :
               wire' = [wire EXCEPT ![c] =
                          [plane |-> "central", eval |-> Verdict(call[c], policy, h, t),
                           signal |-> "none", addons |-> {}]]
        BY <2>2 DEF CentralEvaluates
      <3>2. t \in Nat /\ policy <= policy
        BY <1>0, ConstantsAssumption DEF Version
      <3>3. Under(policy, Verdict(call[c], policy, h, t), call[c])
        BY <1>0, <1>3, <3>2
      <3>4. pc[c] = "central"
        BY <2>2 DEF CentralEvaluates
      <3> QED BY <1>4, <3>1, <3>3, <3>4
    <2> QED BY <2>1, <2>2
  <1> QED BY <1>1, <1>2, <1>5, OneCallerBacked DEF Backing

(* Publishing keeps every decision backed: published versions stay published. *)
LEMMA BackingPublish ==
    ASSUME TypeOK, Backing, PublishPolicy
    PROVE  Backing'
  <1>0. policy \in Nat /\ bundle \in Nat /\ policy' = policy + 1
    BY DEF TypeOK, Version, PublishPolicy
  <1>1. UNCHANGED <<pc, call, result, cache, wire, bundle>>
    BY DEF PublishPolicy, clientVars
  <1>2. \A e, k : Under(policy, e, k) => Under(policy', e, k)
    BY <1>0 DEF Under
  <1>3. bundle' <= policy'
    BY <1>0, <1>1 DEF Backing
  <1>4. CacheBacked(cache', policy')
    BY <1>1, <1>2 DEF Backing, CacheBacked
  <1>5. \A c \in Caller : WireBacked(wire'[c], pc'[c], call'[c], policy')
    BY <1>1, <1>2 DEF Backing, WireBacked
  <1>6. \A c \in Caller : ResultBacked(result'[c], call'[c], policy')
    BY <1>1, <1>2 DEF Backing, ResultBacked
  <1> QED BY <1>3, <1>4, <1>5, <1>6 DEF Backing

(* The remaining steps keep every decision backed. *)
LEMMA BackingElse ==
    ASSUME TypeOK, Backing,
           \/ PdpSyncs \/ ToggleAgent \/ HandleEvent \/ Webhook \/ Tick \/ UNCHANGED vars
           \/ \E k \in Approvable : OperatorApproves(k) \/ SessionApproval(k)
    PROVE  Backing'
  <1>0. ClientType
    BY TypeSplit
  <1>1. UNCHANGED <<pc, call, result, wire, policy>>
    BY DEF PdpSyncs, ToggleAgent, HandleEvent, handlePolicyEvent, handleAgentSuspended,
         handleAgentActivated, handleHitlGrant, dropEvent, Webhook, Tick, OperatorApproves,
       SessionApproval, clientVars, planeVars, vars, ClientTick, invalidatePolicyCache,
       invalidateAll, setSuspended, recordApprovalGrant
  <1>2. bundle' <= policy'
    <2>0. policy \in Nat
      BY DEF TypeOK, Version
    <2>1. bundle' = policy \/ bundle' = bundle
      BY DEF PdpSyncs, ToggleAgent, HandleEvent, handlePolicyEvent, handleAgentSuspended,
         handleAgentActivated, handleHitlGrant, dropEvent, Webhook, Tick, OperatorApproves,
         SessionApproval, planeVars, vars
    <2>2. bundle <= policy
      BY DEF Backing
    <2> QED BY <1>1, <2>0, <2>1, <2>2
  <1>3. CacheBacked(cache', policy')
    <2>1. CASE cache' = cache \/ cache' = <<>>
      <3>1. CASE cache' = cache
        BY <1>1, <3>1 DEF Backing
      <3>2. CASE cache' = <<>>
        BY <3>2 DEF CacheBacked
      <3> QED BY <2>1, <3>1, <3>2
    <2>2. CASE Tick
      <3>1. /\ DOMAIN cache' = DOMAIN cache
            /\ \A i \in DOMAIN cache : cache'[i].key = cache[i].key /\ cache'[i].val = Older(cache[i].val)
        BY <1>0, <2>2, ClientTickFacts DEF Tick
      <3>2. \A i \in DOMAIN cache : cache[i].val \in Evaluation
        <4>1. cache \in Seq(CacheEntry)
          BY <1>0 DEF ClientType
        <4>2. \A i \in DOMAIN cache : cache[i] \in CacheEntry
          BY <4>1
        <4> QED BY <4>2 DEF CacheEntry
      <3>3. \A i \in DOMAIN cache : Under(policy, cache'[i].val, cache'[i].key[1])
                                    /\ cache'[i].val.hash = cache'[i].key[2]
        <4> TAKE i \in DOMAIN cache
        <4>1. Under(policy, cache[i].val, cache[i].key[1]) /\ cache[i].val.hash = cache[i].key[2]
          BY DEF Backing, CacheBacked
        <4>2. /\ cache'[i].val.ver = cache[i].val.ver
              /\ cache'[i].val.hash = cache[i].val.hash
              /\ cache'[i].val.decision = cache[i].val.decision
          BY <3>1, <3>2, OlderType
        <4> QED BY <3>1, <4>1, <4>2 DEF Under
      <3> QED BY <1>1, <3>1, <3>3 DEF CacheBacked
    <2>3. \/ cache' = cache \/ cache' = <<>> \/ Tick
      BY DEF PdpSyncs, ToggleAgent, HandleEvent, handlePolicyEvent, handleAgentSuspended,
         handleAgentActivated, handleHitlGrant, dropEvent, Webhook, OperatorApproves, SessionApproval,
             clientVars, vars, invalidatePolicyCache, invalidateAll, setSuspended,
             recordApprovalGrant
    <2> QED BY <2>1, <2>2, <2>3
  <1> QED BY <1>1, <1>2, <1>3 DEF Backing

(* The inductive invariant holds in every reachable state. *)
LEMMA BackingAlways == Spec => []Backing
  <1>1. Init => Backing
    <2> SUFFICES ASSUME Init PROVE Backing
      OBVIOUS
    <2>1. bundle <= policy /\ CacheBacked(cache, policy)
      BY DEF Init, CedarInit, CacheBacked
    <2>2. \A c \in Caller : wire[c] = NoWire /\ result[c] = NoResult
      BY DEF Init, CedarInit
    <2> QED BY <2>1, <2>2, NothingToBack DEF Backing
  <1>2. TypeOK /\ Backing /\ [Next]_vars => Backing'
    BY BackingInvoke, BackingLocal, BackingReply, BackingFault, BackingEvaluates,
       BackingPublish, BackingElse DEF Next, Evaluating
  <1> QED BY <1>1, <1>2, TypeCorrect, PTL DEF Spec

(* With failMode "deny", evaluateToolCall resolves to allow only on an     *)
(* answer a plane really gave for that call under a published version, or  *)
(* on a HITL grant; for any number of evaluations in flight.               *)
THEOREM FailClosedCorrect == Spec => []AllowIsBacked
  BY BackingImplies, BackingAlways, TypeCorrect, PTL

(* Every entry of the decision cache is a genuine answer, filed under the  *)
(* call it was asked for and the hash it carried.                          *)
THEOREM CacheCoherence == Spec => []CacheCoherent
  BY BackingImplies, BackingAlways, TypeCorrect, PTL
-----------------------------------------------------------------------------
(***************************************************************************)
(* The life of a grant.  A grant enters the ledger with the life its event *)
(* carries, so GrantWithinApproval needs the same bound on the grants that *)
(* are still in the stream.                                                *)
(***************************************************************************)
LedgerWithin(m, a) == \A i \in DOMAIN m : m[i].left <= a[m[i].key]

StreamWithin(s, a) == \A i \in DOMAIN s : s[i].kind = "grant" => s[i].left <= a[s[i].of]

GrantLife == LedgerWithin(grants, approved) /\ StreamWithin(stream, approved)

(* What the ledger holds are grants. *)
LEMMA LedgerEntries ==
    ASSUME TypeOK
    PROVE  \A i \in DOMAIN grants : grants[i] \in GrantEntry
  <1>1. grants \in Seq(GrantEntry)
    BY DEF TypeOK, GrantEntry
  <1> QED BY <1>1

(* A ledger made of old entries, or of those and one within its approval, is within the approvals. *)
LEMMA LedgerUpdate ==
    ASSUME NEW m, NEW n, NEW a, LedgerWithin(m, a)
    PROVE  /\ Within(n, m) => LedgerWithin(n, a)
           /\ \A e : WithinOr(n, m, e) /\ e.left <= a[e.key] => LedgerWithin(n, a)
  BY DEF LedgerWithin, Within, WithinOr

(* Raising one approval from 0 to its full life takes nothing from any grant. *)
LEMMA ApprovalGrows ==
    ASSUME TypeOK, GrantLife, NEW k \in Call, approved[k] = 0,
           approved' = [approved EXCEPT ![k] = GrantTtl]
    PROVE  /\ LedgerWithin(grants, approved') /\ StreamWithin(stream, approved')
           /\ approved'[k] = GrantTtl
  <1>0. approved \in [Call -> 0..GrantTtl] /\ approved' \in [Call -> 0..GrantTtl]
    BY DEF TypeOK
  <1>1. \A j \in Call : approved[j] <= approved'[j]
    BY <1>0
  <1>2. \A i \in DOMAIN grants : grants[i] \in GrantEntry
    BY LedgerEntries
  <1>3. LedgerWithin(grants, approved')
    <2> SUFFICES ASSUME NEW i \in DOMAIN grants
                 PROVE  grants[i].left <= approved'[grants[i].key]
      BY DEF LedgerWithin
    <2>1. grants[i].key \in Call /\ grants[i].left \in 0..GrantTtl
      BY <1>2 DEF GrantEntry
    <2>2. grants[i].left <= approved[grants[i].key]
      BY DEF GrantLife, LedgerWithin
    <2> QED BY <1>0, <1>1, <2>1, <2>2
  <1>4. StreamWithin(stream, approved')
    <2> SUFFICES ASSUME NEW i \in DOMAIN stream, stream[i].kind = "grant"
                 PROVE  stream[i].left <= approved'[stream[i].of]
      BY DEF StreamWithin
    <2>1. stream[i] \in Event
      BY DEF TypeOK
    <2>2. stream[i].of \in Call /\ stream[i].left \in 0..GrantTtl
      BY <2>1, EventFields
    <2>3. stream[i].left <= approved[stream[i].of]
      BY DEF GrantLife, StreamWithin
    <2> QED BY <1>0, <1>1, <2>2, <2>3
  <1> QED BY <1>0, <1>3, <1>4

(* Publishing keeps the stream within the approvals, if the event is. *)
LEMMA PublishWithin ==
    ASSUME TypeOK, NEW e \in Event, NEW a, Publish(e), StreamWithin(stream, a),
           e.kind = "grant" => e.left <= a[e.of]
    PROVE  StreamWithin(stream', a)
  <1>0. stream \in Seq(Event) /\ Len(stream) \in Nat /\ DOMAIN stream = 1..Len(stream)
    BY DEF TypeOK
  <1>1. CASE stream' = Append(stream, e)
    <2>1. /\ DOMAIN stream' = 1..(Len(stream) + 1)
          /\ \A i \in 1..(Len(stream) + 1) :
                stream'[i] = IF i = Len(stream) + 1 THEN e ELSE stream[i]
      BY <1>0, <1>1
    <2> QED BY <1>0, <2>1 DEF StreamWithin
  <1>2. CASE stream' = <<[kind |-> "lagged"]>>
    BY <1>2 DEF StreamWithin
  <1> QED BY <1>1, <1>2 DEF Publish

(* The steps of an evaluation leave the stream and the approvals alone and *)
(* only reorder or drop grants.                                            *)
LEMMA GrantLifeEvaluation ==
    ASSUME TypeOK, GrantLife, NEW c \in Caller,
           Invoke(c) \/ Evaluating(c) \/ PdpEvaluates(c) \/ CentralEvaluates(c)
    PROVE  GrantLife'
  <1>0. grants \in Seq(GrantEntry)
    BY DEF TypeOK, GrantEntry
  <1>1. UNCHANGED <<stream, approved>>
    BY DEF Invoke, Evaluating, PdpEvaluates, CentralEvaluates, LocalStep, ProbeStep, ReplyStep,
       FaultStep, Quiet, planeVars
  <1>2. grants' = grants \/ grants' = AfterGet(grants, call[c])
    BY DEF Invoke, Evaluating, PdpEvaluates, CentralEvaluates, LocalStep, ProbeStep, ReplyStep,
       FaultStep, clientVars, EvaluateToolCall, FindApprovalGrant, LookupDecision, DiscoverPdp,
       PdpDecides, CentralDecides, PdpFails, CentralFails, PdpRefuses, PdpUnauthorized,
       PdpBodyThrows
  <1>3. LedgerWithin(grants', approved)
    BY <1>0, <1>2, AfterGetFacts, LedgerUpdate DEF GrantLife
  <1> QED BY <1>1, <1>3 DEF GrantLife

(* Recording a grant whose life is within its approval. *)
LEMMA RecordWithin ==
    ASSUME TypeOK, NEW k \in Call, NEW ttl \in 0..GrantTtl, NEW a,
           recordApprovalGrant(k, ttl), LedgerWithin(grants, a), ttl <= a[k]
    PROVE  LedgerWithin(grants', a)
  <1> DEFINE e == Entry(k, TRUE, ttl)
  <1>1. e \in GrantEntry /\ e.key = k /\ e.left = ttl
    BY DEF Entry, GrantEntry
  <1>2. grants \in Seq(GrantEntry)
    BY DEF TypeOK, GrantEntry
  <1>3. grants' = PutAtTail(grants, GrantMax, e) \/ grants' = grants
    BY DEF recordApprovalGrant
  <1> HIDE DEF e
  <1>4. WithinOr(PutAtTail(grants, GrantMax, e), grants, e)
    BY <1>1, <1>2, PutAtTailFacts
  <1> QED BY <1>1, <1>3, <1>4, LedgerUpdate

(* An approval, over the stream or through the session, starts its grant within it. *)
LEMMA GrantLifeApproval ==
    ASSUME TypeOK, GrantLife, NEW k \in Approvable, OperatorApproves(k) \/ SessionApproval(k)
    PROVE  GrantLife'
  <1>0. k \in Call /\ GrantTtl \in 0..GrantTtl
    OBVIOUS
  <1>1. /\ LedgerWithin(grants, approved') /\ StreamWithin(stream, approved')
        /\ approved'[k] = GrantTtl
    BY <1>0, ApprovalGrows DEF OperatorApproves, SessionApproval
  <1>2. CASE OperatorApproves(k)
    <2> DEFINE e == [kind |-> "grant", of |-> k, left |-> GrantTtl]
    <2>1. e \in Event /\ Publish(e) /\ grants' = grants
      BY <1>0, <1>2, EventTypes DEF OperatorApproves, clientVars
    <2>2. e.kind = "grant" => e.left <= approved'[e.of]
      BY <1>0, <1>1
    <2> HIDE DEF e
    <2>3. StreamWithin(stream', approved')
      BY <1>1, <2>1, <2>2, PublishWithin
    <2> QED BY <1>1, <2>1, <2>3 DEF GrantLife
  <1>3. CASE SessionApproval(k)
    <2>1. recordApprovalGrant(k, GrantTtl) /\ stream' = stream
      BY <1>3 DEF SessionApproval
    <2>2. GrantTtl <= approved'[k]
      BY <1>0, <1>1
    <2>3. LedgerWithin(grants', approved')
      BY <1>0, <1>1, <2>1, <2>2, RecordWithin
    <2> QED BY <1>1, <2>1, <2>3 DEF GrantLife
  <1> QED BY <1>2, <1>3

(* Handling an event moves the life it carries into the ledger, or nothing. *)
LEMMA GrantLifeEvent ==
    ASSUME TypeOK, GrantLife, HandleEvent
    PROVE  GrantLife'
  <1>0. /\ stream \in Seq(Event) /\ stream # <<>> /\ Len(stream) \in Nat
        /\ DOMAIN stream = 1..Len(stream)
    BY DEF TypeOK, HandleEvent
  <1>1. /\ Head(stream) = stream[1] /\ 1 \in DOMAIN stream /\ Head(stream) \in Event
        /\ approved' = approved /\ stream' = Tail(stream)
    BY <1>0 DEF HandleEvent
  <1>2. StreamWithin(stream', approved)
    <2>1. DOMAIN Tail(stream) = 1..(Len(stream) - 1)
          /\ \A i \in 1..(Len(stream) - 1) : Tail(stream)[i] = stream[i + 1]
      BY <1>0
    <2> QED BY <1>0, <1>1, <2>1 DEF StreamWithin, GrantLife
  <1>3. LedgerWithin(grants', approved)
    <2>1. CASE handleHitlGrant(Head(stream))
      <3>1. /\ Head(stream).of \in Call /\ Head(stream).left \in 0..GrantTtl
            /\ recordApprovalGrant(Head(stream).of, Head(stream).left)
        BY <1>1, <2>1, EventFields DEF handleHitlGrant
      <3>2. Head(stream).left <= approved[Head(stream).of]
        BY <1>1, <2>1 DEF handleHitlGrant, GrantLife, StreamWithin
      <3> QED BY <3>1, <3>2, RecordWithin DEF GrantLife
    <2>2. CASE grants' = grants
      BY <2>2 DEF GrantLife
    <2> QED BY <2>1, <2>2 DEF HandleEvent, handlePolicyEvent, handleAgentSuspended,
               handleAgentActivated, dropEvent, clientVars, invalidatePolicyCache, setSuspended
  <1> QED BY <1>1, <1>2, <1>3 DEF GrantLife

(* A tick shortens an approval and everything that lives on it alike. *)
LEMMA GrantLifeTick ==
    ASSUME TypeOK, GrantLife, Tick
    PROVE  GrantLife'
  <1>0. ClientType /\ approved \in [Call -> 0..GrantTtl]
        /\ \A k \in Call : approved'[k] = Countdown(approved[k])
    BY TypeSplit DEF TypeOK, Tick
  <1>1. \A m, n \in 0..GrantTtl : m <= n => Countdown(m) <= Countdown(n)
    BY DEF Countdown
  <1>2. LedgerWithin(grants', approved')
    <2>1. /\ DOMAIN grants' = DOMAIN grants
          /\ \A i \in DOMAIN grants : grants'[i].key = grants[i].key
                                      /\ grants'[i].left = Countdown(grants[i].left)
      BY <1>0, ClientTickFacts DEF Tick
    <2>2. \A i \in DOMAIN grants : grants[i] \in GrantEntry
      BY <1>0 DEF ClientType
    <2> SUFFICES ASSUME NEW i \in DOMAIN grants
                 PROVE  grants'[i].left <= approved'[grants'[i].key]
      BY <2>1 DEF LedgerWithin
    <2>3. grants[i].key \in Call /\ grants[i].left \in 0..GrantTtl
      BY <2>2 DEF GrantEntry
    <2>4. grants[i].left <= approved[grants[i].key] /\ approved[grants[i].key] \in 0..GrantTtl
      BY <1>0, <2>3 DEF GrantLife, LedgerWithin
    <2> QED BY <1>0, <1>1, <2>1, <2>3, <2>4
  <1>3. StreamWithin(stream', approved')
    <2>1. stream' = AgedStream /\ stream \in Seq(Event)
      BY DEF Tick, AgedStream, TypeOK
    <2>2. /\ DOMAIN stream' = DOMAIN stream
          /\ \A i \in DOMAIN stream :
                /\ stream'[i].kind = stream[i].kind
                /\ stream[i].kind = "grant" => /\ stream'[i].of = stream[i].of
                                               /\ stream'[i].left = Countdown(stream[i].left)
      BY <2>1, AgedStreamFacts
    <2> SUFFICES ASSUME NEW i \in DOMAIN stream, stream[i].kind = "grant"
                 PROVE  stream'[i].left <= approved'[stream'[i].of]
      BY <2>2 DEF StreamWithin
    <2>3. stream[i] \in Event
      BY <2>1
    <2>4. stream[i].of \in Call /\ stream[i].left \in 0..GrantTtl
      BY <2>3, EventFields
    <2>5. stream[i].left <= approved[stream[i].of] /\ approved[stream[i].of] \in 0..GrantTtl
      BY <1>0, <2>4 DEF GrantLife, StreamWithin
    <2> QED BY <1>0, <1>1, <2>2, <2>4, <2>5
  <1> QED BY <1>2, <1>3 DEF GrantLife

(* Publishing a policy or a lifecycle change, a bundle pull and a webhook add no grant. *)
LEMMA GrantLifeElse ==
    ASSUME TypeOK, GrantLife,
           PublishPolicy \/ PdpSyncs \/ ToggleAgent \/ Webhook \/ UNCHANGED vars
    PROVE  GrantLife'
  <1>1. approved' = approved /\ (grants' = grants \/ grants' = <<>>)
    BY DEF PublishPolicy, PdpSyncs, ToggleAgent, Webhook, clientVars, planeVars, vars, invalidateAll
  <1>2. LedgerWithin(grants', approved')
    BY <1>1 DEF GrantLife, LedgerWithin
  <1>3. StreamWithin(stream', approved)
    <2>1. CASE PublishPolicy
      <3> DEFINE e == [kind |-> "policy", ver |-> policy + 1]
      <3>1. policy + 1 \in Version
        BY <2>1 DEF PublishPolicy, TypeOK, Version
      <3>2. e \in Event /\ e.kind # "grant" /\ Publish(e)
        BY <2>1, <3>1, EventTypes DEF PublishPolicy
      <3> HIDE DEF e
      <3> QED BY <3>2, PublishWithin DEF GrantLife
    <2>2. CASE ToggleAgent
      <3> DEFINE e == [kind |-> IF active THEN "suspended" ELSE "activated"]
      <3>1. e \in Event /\ e.kind # "grant" /\ Publish(e)
        BY <2>2, EventTypes DEF ToggleAgent
      <3> HIDE DEF e
      <3> QED BY <3>1, PublishWithin DEF GrantLife
    <2>3. CASE stream' = stream
      BY <2>3 DEF GrantLife
    <2> QED BY <2>1, <2>2, <2>3 DEF PdpSyncs, Webhook, planeVars, vars
  <1> QED BY <1>1, <1>2, <1>3 DEF GrantLife

(* The lives of the grants, in the ledger and in the stream, stay within the approvals. *)
LEMMA GrantLifeAlways == Spec => []GrantLife
  <1>1. Init => GrantLife
    BY DEF Init, CedarInit, GrantLife, LedgerWithin, StreamWithin
  <1>2. TypeOK /\ GrantLife /\ [Next]_vars => GrantLife'
    BY GrantLifeEvaluation, GrantLifeApproval, GrantLifeEvent, GrantLifeTick, GrantLifeElse
       DEF Next
  <1> QED BY <1>1, <1>2, TypeCorrect, PTL DEF Spec

(* No grant of the ledger outlives the operator's approval, however long   *)
(* handleHitlGrant's event waited and whatever was approved, evicted,      *)
(* bumped or lost meanwhile; for any ledger size and any grant life.       *)
THEOREM GrantNeverOutlives == Spec => []GrantWithinApproval
  <1>1. GrantLife => GrantWithinApproval
    BY DEF GrantLife, LedgerWithin, GrantWithinApproval
  <1> QED BY <1>1, GrantLifeAlways, PTL

(* Only the grant short-circuit settles an evaluation to "approval_grant", *)
(* and it does so on a live entry of the ledger.                           *)
LEMMA GrantUseStep ==
    ASSUME TypeOK, GrantWithinApproval, [Next]_vars, NEW c \in Caller, pc[c] # "idle",
           pc'[c] = "idle", result'[c].source = "approval_grant"
    PROVE  approved[call[c]] > 0
  <1>0. pc \in [Caller -> Pcs] /\ result \in [Caller -> Result]
    BY DEF TypeOK, Pcs
  <1>1. ASSUME FindApprovalGrant(c) PROVE approved[call[c]] > 0
    <2>1. Live(grants, call[c])
      BY <1>0, <1>1 DEF FindApprovalGrant, Goto
    <2> DEFINE i == IndexOf(grants, call[c])
    <2>2. i \in DOMAIN grants /\ grants[i].key = call[c] /\ grants[i].left > 0
      BY <2>1, IndexOfHas DEF Live, Lookup
    <2>3. grants[i] \in GrantEntry
      BY <2>2, LedgerEntries
    <2>4. grants[i].left <= approved[call[c]] /\ approved[call[c]] \in 0..GrantTtl
      BY <2>2 DEF GrantWithinApproval, TypeOK
    <2> QED BY <2>2, <2>3, <2>4 DEF GrantEntry
  <1>2. ASSUME NEW q \in Caller, Invoke(q) \/ Evaluating(q) \/ PdpEvaluates(q) \/ CentralEvaluates(q)
        PROVE  approved[call[c]] > 0
    <2>1. q = c
      BY <1>0, <1>2 DEF Invoke, Evaluating, PdpEvaluates, CentralEvaluates, LocalStep, ProbeStep,
         ReplyStep, FaultStep, clientVars, EvaluateToolCall, FindApprovalGrant, LookupDecision,
         DiscoverPdp, PdpDecides, CentralDecides, PdpFails, CentralFails, PdpRefuses,
         PdpUnauthorized, PdpBodyThrows, Route, Settle, Goto
    <2>2. ~Settle(c, "cache", Lookup(cache, <<call[c], lastPolicyHash>>).val)
          /\ \A src, e : Settle(c, src, e) => src = "approval_grant"
      BY <1>0 DEF Settle
    <2>3. LocalStep(c) /\ FindApprovalGrant(c)
      BY <1>0, <1>2, <2>1, <2>2 DEF Invoke, Evaluating, PdpEvaluates, CentralEvaluates, LocalStep,
         ProbeStep, ReplyStep, FaultStep, clientVars, EvaluateToolCall, LookupDecision,
         DiscoverPdp, PdpDecides, CentralDecides, PdpFails, CentralFails, PdpRefuses,
         PdpUnauthorized, PdpBodyThrows, Route, Goto
    <2> QED BY <1>1, <2>3
  <1>3. CASE \/ PublishPolicy \/ PdpSyncs \/ ToggleAgent \/ HandleEvent \/ Webhook \/ Tick
             \/ UNCHANGED vars \/ \E k \in Approvable : OperatorApproves(k) \/ SessionApproval(k)
    <2>1. pc' = pc
      BY <1>3 DEF PublishPolicy, PdpSyncs, ToggleAgent, HandleEvent, handlePolicyEvent,
         handleAgentSuspended, handleAgentActivated, handleHitlGrant, dropEvent, Webhook, Tick,
         OperatorApproves, SessionApproval, clientVars, vars, ClientTick, invalidatePolicyCache,
         invalidateAll, setSuspended, recordApprovalGrant
    <2> QED BY <2>1
  <1> QED BY <1>2, <1>3 DEF Next

(* An evaluation resolves to allow through the ledger only while the       *)
(* operator's approval of that very call is running.                       *)
THEOREM GrantUseApproved == Spec => GrantUseIsApproved
  <1>1. TypeOK /\ GrantWithinApproval /\ [Next]_vars =>
          [\A c \in Caller :
             (pc[c] # "idle" /\ pc'[c] = "idle" /\ result'[c].source = "approval_grant")
                => approved[call[c]] > 0]_vars
    BY GrantUseStep
  <1> QED BY <1>1, TypeCorrect, GrantNeverOutlives, PTL DEF Spec, GrantUseIsApproved
-----------------------------------------------------------------------------
(***************************************************************************)
(* The age of a cached decision.  What an entry has lived and what it has  *)
(* left never exceed CacheTtl while it is live, and an answer on the wire  *)
(* has not aged.                                                           *)
(***************************************************************************)
EntriesYoung(m) == \A i \in DOMAIN m : m[i].left > 0 => m[i].val.age + m[i].left <= CacheTtl

AgeLife ==
    /\ EntriesYoung(cache)
    /\ \A c \in Caller : wire[c].eval.age = 0
    /\ CachedAgeBounded

(* A reply enters the cache with its whole life before it. *)
LEMMA AgeReply ==
    ASSUME TypeOK, AgeLife, NEW c \in Caller, ReplyStep(c)
    PROVE  AgeLife'
  <1> DEFINE e == wire[c].eval
             n == Entry(<<call[c], e.hash>>, e, CacheTtl)
  <1>0. cache \in Seq(CacheEntry) /\ e \in Evaluation /\ e.age = 0
    BY DEF TypeOK, Wire, CacheEntry, AgeLife
  <1>1. n \in CacheEntry /\ n.val = e /\ n.left = CacheTtl
    BY <1>0 DEF Entry, CacheEntry, CacheKey, TypeOK, Evaluation
  <1>2. PICK src \in {"local_pdp", "central"} : Settle(c, src, e) /\ CacheDecision(c, e)
    BY DEF ReplyStep, PdpDecides, CentralDecides
  <1>3. EntriesYoung(cache')
    <2>1. cache' = PutInPlace(cache, CacheMax, n) \/ cache' = cache
      BY <1>2 DEF CacheDecision
    <2> HIDE DEF n
    <2>2. WithinOr(cache', cache, n)
      BY <1>0, <1>1, <2>1, PutInPlaceFacts DEF WithinOr
    <2> QED BY <1>0, <1>1, <2>2 DEF WithinOr, EntriesYoung, AgeLife
  <1>4. \A q \in Caller : wire'[q].eval.age = 0
    <2>1. NoWire.eval.age = 0
      BY DEF NoWire, Decide
    <2> QED BY <2>1 DEF ReplyStep, Hangup, AgeLife, TypeOK
  <1>5. CachedAgeBounded'
    BY <1>2 DEF Settle, CachedAgeBounded, AgeLife, TypeOK
  <1> QED BY <1>3, <1>4, <1>5 DEF AgeLife

(* A hit is live, so it is younger than CacheTtl; a lookup only reorders or drops entries. *)
LEMMA AgeLookup ==
    ASSUME TypeOK, AgeLife, NEW c \in Caller, LookupDecision(c), wire' = wire
    PROVE  AgeLife'
  <1> DEFINE key == <<call[c], lastPolicyHash>>
             i   == IndexOf(cache, key)
  <1>0. cache \in Seq(CacheEntry)
    BY DEF TypeOK, CacheEntry
  <1>1. EntriesYoung(cache')
    <2>1. Within(cache', cache)
      BY <1>0, AfterGetFacts DEF LookupDecision
    <2> QED BY <2>1 DEF Within, EntriesYoung, AgeLife
  <1>2. CASE Live(cache, key) /\ Settle(c, "cache", Lookup(cache, key).val)
    <2>1. i \in DOMAIN cache /\ Lookup(cache, key) = cache[i] /\ cache[i].left > 0
      BY <1>2, IndexOfHas DEF Live, Lookup
    <2>2. cache[i] \in CacheEntry /\ cache[i].val.age + cache[i].left <= CacheTtl
      BY <1>0, <2>1 DEF AgeLife, EntriesYoung
    <2>3. cache[i].val.age \in Nat /\ cache[i].left \in Nat
      BY <2>2 DEF CacheEntry, Evaluation
    <2>4. Lookup(cache, key).val.age < CacheTtl
      BY <2>1, <2>2, <2>3
    <2>5. CachedAgeBounded'
      BY <1>2, <2>4 DEF Settle, CachedAgeBounded, AgeLife, TypeOK
    <2> QED BY <1>1, <2>5 DEF AgeLife
  <1>3. CASE result' = result
    BY <1>1, <1>3 DEF AgeLife, CachedAgeBounded
  <1> QED BY <1>2, <1>3 DEF LookupDecision

(* A plane's answer is new. *)
LEMMA AgeEvaluates ==
    ASSUME TypeOK, AgeLife, NEW c \in Caller, PdpEvaluates(c) \/ CentralEvaluates(c)
    PROVE  AgeLife'
  <1>0. cache' = cache /\ result' = result
    BY DEF PdpEvaluates, CentralEvaluates, clientVars
  <1>1. PICK w : wire' = [wire EXCEPT ![c] = w] /\ w.eval.age = 0
    <2>1. \A k, v, h, t : Verdict(k, v, h, t).age = 0
      BY DEF Verdict
    <2>2. \A l, k, v, h, t, sg, a :
             [plane |-> l, eval |-> Verdict(k, v, h, t), signal |-> sg, addons |-> a].eval.age = 0
      BY <2>1
    <2>3. CASE PdpEvaluates(c)
      <3>1. PICK h \in Hashes(bundle), sg \in Signal, a \in SUBSET Addon :
               wire' = [wire EXCEPT ![c] =
                          [plane |-> "pdp", eval |-> Verdict(call[c], bundle, h, PdpTtl),
                           signal |-> sg, addons |-> a]]
        BY <2>3 DEF PdpEvaluates
      <3> DEFINE x == [plane |-> "pdp", eval |-> Verdict(call[c], bundle, h, PdpTtl),
                       signal |-> sg, addons |-> a]
      <3>2. wire' = [wire EXCEPT ![c] = x] /\ x.eval.age = 0
        BY <2>2, <3>1
      <3> HIDE DEF x
      <3> QED BY <3>2
    <2>4. CASE CentralEvaluates(c)
      <3>1. PICK h \in Hashes(policy), t \in {0, PdpTtl} :
               wire' = [wire EXCEPT ![c] =
                          [plane |-> "central", eval |-> Verdict(call[c], policy, h, t),
                           signal |-> "none", addons |-> {}]]
        BY <2>4 DEF CentralEvaluates
      <3> DEFINE x == [plane |-> "central", eval |-> Verdict(call[c], policy, h, t),
                       signal |-> "none", addons |-> {}]
      <3>2. wire' = [wire EXCEPT ![c] = x] /\ x.eval.age = 0
        BY <2>2, <3>1
      <3> HIDE DEF x
      <3> QED BY <3>2
    <2> QED BY <2>3, <2>4
  <1>2. \A q \in Caller : wire'[q].eval.age = 0
    BY <1>1 DEF AgeLife, TypeOK
  <1> QED BY <1>0, <1>2 DEF AgeLife, CachedAgeBounded

(* A tick makes a live entry older by what it takes from its life. *)
LEMMA AgeTick ==
    ASSUME TypeOK, AgeLife, Tick
    PROVE  AgeLife'
  <1>0. ClientType /\ cache \in Seq(CacheEntry)
    BY TypeSplit DEF ClientType
  <1>1. /\ DOMAIN cache' = DOMAIN cache
        /\ \A i \in DOMAIN cache : /\ cache'[i].val = Older(cache[i].val)
                                   /\ cache'[i].left = Countdown(cache[i].left)
    BY <1>0, ClientTickFacts DEF Tick
  <1>2. EntriesYoung(cache')
    <2> SUFFICES ASSUME NEW i \in DOMAIN cache, cache'[i].left > 0
                 PROVE  cache'[i].val.age + cache'[i].left <= CacheTtl
      BY <1>1 DEF EntriesYoung
    <2>1. cache[i] \in CacheEntry
      BY <1>0
    <2>2. cache[i].val \in Evaluation /\ cache[i].left \in 0..CacheTtl /\ cache[i].val.age \in 0..AgeCap
      BY <2>1 DEF CacheEntry, Evaluation
    <2>3. cache[i].left > 0 /\ cache'[i].left = cache[i].left - 1
      BY <1>1, <2>2 DEF Countdown
    <2>4. cache[i].val.age + cache[i].left <= CacheTtl
      BY <2>3 DEF AgeLife, EntriesYoung
    <2>5. cache'[i].val.age <= cache[i].val.age + 1 /\ cache'[i].val.age \in Nat
      BY <1>1, <2>2, OlderType DEF AgeCap
    <2> QED BY <2>2, <2>3, <2>4, <2>5
  <1> QED BY <1>2 DEF Tick, ClientTick, AgeLife, CachedAgeBounded

(* The remaining steps settle to no cached decision and put no entry into the cache. *)
LEMMA AgeElse ==
    ASSUME TypeOK, AgeLife,
           \/ \E c \in Caller : \/ Invoke(c) \/ ProbeStep(c) \/ FaultStep(c)
                                \/ FindApprovalGrant(c) /\ wire' = wire
           \/ PublishPolicy \/ PdpSyncs \/ ToggleAgent \/ HandleEvent \/ Webhook \/ UNCHANGED vars
           \/ \E k \in Approvable : OperatorApproves(k) \/ SessionApproval(k)
    PROVE  AgeLife'
  <1>1. cache' = cache \/ cache' = <<>>
    BY DEF Invoke, EvaluateToolCall, ProbeStep, DiscoverPdp, FaultStep, PdpFails, CentralFails,
       PdpRefuses, PdpUnauthorized, PdpBodyThrows, FindApprovalGrant, PublishPolicy, PdpSyncs,
       ToggleAgent, HandleEvent, handlePolicyEvent, handleAgentSuspended, handleAgentActivated,
       handleHitlGrant, dropEvent, Webhook, OperatorApproves, SessionApproval, clientVars, vars,
       invalidatePolicyCache, invalidateAll, setSuspended, recordApprovalGrant
  <1>2. EntriesYoung(cache')
    BY <1>1 DEF AgeLife, EntriesYoung
  <1>3. \A q \in Caller : wire'[q].eval.age = 0
    <2>1. wire' = wire \/ \E c \in Caller : wire' = [wire EXCEPT ![c] = NoWire]
      BY DEF Invoke, ProbeStep, FaultStep, Hangup, PublishPolicy, PdpSyncs, ToggleAgent,
         HandleEvent, Webhook, OperatorApproves, SessionApproval, planeVars, vars
    <2>2. NoWire.eval.age = 0
      BY DEF NoWire, Decide
    <2> QED BY <2>1, <2>2 DEF AgeLife, TypeOK
  <1>4. \A q \in Caller : result'[q] = result[q] \/ result'[q].source # "cache"
    <2>0. result \in [Caller -> Result]
      BY DEF TypeOK
    <2>1. ASSUME NEW c \in Caller, NEW src \in Source \ {"cache"}, NEW e,
                 result' = [result EXCEPT ![c] = [source |-> src, eval |-> e]]
          PROVE  \A q \in Caller : result'[q] = result[q] \/ result'[q].source # "cache"
      BY <2>0, <2>1
    <2>2. ASSUME NEW c \in Caller, Invoke(c)
          PROVE  \E src \in Source \ {"cache"} : \E e :
                    result' = [result EXCEPT ![c] = [source |-> src, eval |-> e]]
      BY <2>2 DEF Invoke, EvaluateToolCall, Settle, NoResult, Source
    <2>3. ASSUME NEW c \in Caller, ProbeStep(c) \/ FaultStep(c) \/ FindApprovalGrant(c)
          PROVE  \/ result' = result
                 \/ \E src \in Source \ {"cache"} : \E e :
                       result' = [result EXCEPT ![c] = [source |-> src, eval |-> e]]
      BY <2>3 DEF ProbeStep, DiscoverPdp, FaultStep, PdpFails, CentralFails, PdpRefuses,
         PdpUnauthorized, PdpBodyThrows, FindApprovalGrant, Settle, Source
    <2>4. CASE \/ PublishPolicy \/ PdpSyncs \/ ToggleAgent \/ HandleEvent \/ Webhook
               \/ UNCHANGED vars \/ \E k \in Approvable : OperatorApproves(k) \/ SessionApproval(k)
      <3>1. result' = result
        BY <2>4 DEF PublishPolicy, PdpSyncs, ToggleAgent, HandleEvent, handlePolicyEvent,
           handleAgentSuspended, handleAgentActivated, handleHitlGrant, dropEvent, Webhook,
           OperatorApproves, SessionApproval, clientVars, vars, invalidatePolicyCache,
           invalidateAll, setSuspended, recordApprovalGrant
      <3> QED BY <3>1
    <2> QED BY <2>1, <2>2, <2>3, <2>4
  <1> QED BY <1>2, <1>3, <1>4 DEF AgeLife, CachedAgeBounded

(* The ages of cached and of in-flight decisions stay bounded. *)
LEMMA AgeLifeAlways == Spec => []AgeLife
  <1>1. Init => AgeLife
    BY DEF Init, CedarInit, AgeLife, EntriesYoung, CachedAgeBounded, NoWire, NoResult, Decide
  <1>2. TypeOK /\ AgeLife /\ [Next]_vars => AgeLife'
    BY AgeReply, AgeLookup, AgeEvaluates, AgeTick, AgeElse DEF Next, Evaluating, LocalStep
  <1> QED BY <1>1, <1>2, TypeCorrect, PTL DEF Spec

(* A decision served from the cache was received less than CacheTtl ago,   *)
(* however often a hit moved its entry to the tail.                        *)
THEOREM CachedAgeIsBounded == Spec => []CachedAgeBounded
  <1>1. AgeLife => CachedAgeBounded
    BY DEF AgeLife
  <1> QED BY <1>1, AgeLifeAlways, PTL
=============================================================================
