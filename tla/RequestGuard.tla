---------------------------- MODULE RequestGuard ----------------------------
(***************************************************************************)
(* The per-route guard of the web frameworks (frameworks/express/guard.ts  *)
(* and its Fastify, NestJS and Next.js siblings) over the state all routes *)
(* share: the DecisionCache with its fresh and stale stores, the           *)
(* CircuitBreaker and the HealthMonitor.                                   *)
(*                                                                         *)
(* Requests run concurrently; a request's pc names the await it stands at: *)
(*   "simulate"  await client.simulatePolicy                               *)
(*   "hook"      await opts.onHitlRequested                                *)
(*   "approval"  await session.requestApproval                             *)
(* A Key stands for (user, action, resource, context); a key in Anonymous  *)
(* has no user and hence no cache key.                                     *)
(***************************************************************************)
EXTENDS CircuitBreaker, LruMap

(* The outcomes of simulatePolicy.  A Deny may ask for a human twice over: *)
(* by the flag hitl_pending and by a require_hitl directive in its advice. *)
(*   "flagged"  the flag is true, and there is no advice                   *)
(*   "note"     advice without the directive, and no true flag             *)
(*   "noted"    advice without the directive, and the flag is true         *)
(*   "waived"   the directive, and the flag is false                       *)
(*   "advice"   the directive, and the flag is true or absent              *)
Outcome == {"allow", "deny", "flagged", "note", "noted", "waived", "advice"}

CONSTANTS
    Request,     \* request slots of the host process
    Key, Anonymous,
    CacheMax, CacheTtl,
    FailMode,    \* "closed", "open" or "cached"
    Framework,   \* which adapter: "express", "fastify", "nestjs" or "nextjs"
    Verdicts,    \* the outcomes the policies of this instance can yield
    HitlEnabled, \* escalation is on: the add-on, the option, NestJS's session
    HasHook,     \* opts.onHitlRequested is set
    HasHealth,   \* a HealthMonitor is configured
    Flaky,       \* a reachable server may still fail a call
    Checks,      \* bound: health probes in flight at once
    MaxFlips,    \* bound: times the server goes down or comes back
    MaxEdits     \* bound: policy edits

ASSUME GuardAssumption ==
    /\ Anonymous \subseteq Key
    /\ CacheMax \in Nat \ {0} /\ CacheTtl \in Nat
    /\ FailMode \in {"closed", "open", "cached"}
    /\ Framework \in {"express", "fastify", "nestjs", "nextjs"}
    /\ Verdicts \subseteq Outcome
    /\ HitlEnabled \in BOOLEAN /\ HasHook \in BOOLEAN
    /\ HasHealth \in BOOLEAN /\ Flaky \in BOOLEAN
    /\ MaxFlips \in Nat /\ MaxEdits \in Nat

VARIABLES
    pc, key, decision,  \* per request
    asked,       \* Request -> the Deny it asks a human about, while it does
    lost,        \* Request -> its call can only fail: the server was down
    fresh, stale,
    reachable,   \* HealthMonitor._reachable
    checks,      \* Checks -> a health probe in flight: "none", "good", "lost"
    up, flips, policy, edits,  \* the server
    said,        \* ghost: <<key, outcome>> pairs the server has answered
    cancelled,   \* ghost: those of them whose escalation a hook cancelled
    probers      \* ghost: requests admitted as a probe and not yet settled

requestVars == <<pc, key, decision, asked, lost, probers>>
serverVars  == <<up, flips, policy, edits>>
vars == <<breakerVars, requestVars, serverVars, fresh, stale, reachable, checks, said,
          cancelled>>
-----------------------------------------------------------------------------
Origin == {"none", "cache", "network", "breaker-open", "health-down", "fail",
           "hitl-approved", "hitl-denied", "hitl-timeout"}

Decision == [allowed : BOOLEAN, source : Origin]

Made(b, src) == [allowed |-> b, source |-> src]

toDecision(o, src) == Made(o = "allow", src)

(* Mutant: any stale decision lets the request pass. *)
fallbackOnAny(k, src) ==
    Made(\/ FailMode = "open"
         \/ FailMode = "cached" /\ k \notin Anonymous /\ Has(stale, k),
         src)

(* fallback(): open allows, cached asks the stale store, closed denies. *)
fallback(k, src) ==
    Made(\/ FailMode = "open"
         \/ /\ FailMode = "cached" /\ k \notin Anonymous /\ Has(stale, k)
            /\ Lookup(stale, k).val = "allow",
         src)

Init ==
    /\ BreakerInit
    /\ pc = [r \in Request |-> "idle"]
    /\ key \in [Request -> Key]
    /\ decision = [r \in Request |-> Made(FALSE, "none")]
    /\ asked = [r \in Request |-> "deny"]
    /\ lost = [r \in Request |-> FALSE]
    /\ fresh = <<>> /\ stale = <<>>
    /\ reachable = TRUE /\ checks = [i \in Checks |-> "none"]
    /\ up = TRUE /\ flips = 0
    /\ policy \in [Key -> Verdicts] /\ edits = 0
    /\ said = {} /\ cancelled = {} /\ probers = {}
-----------------------------------------------------------------------------
Goto(r, l) == pc' = [pc EXCEPT ![r] = l]

dispatch(r, d) == Goto(r, "idle") /\ decision' = [decision EXCEPT ![r] = d]

(* The guard up to simulatePolicy: cache, breaker, health, in that order.  *)
(* shouldSkip() has already taken the probe slot when health is consulted. *)
agentumGuard(r, k, skipCache) ==
    LET reads == k \notin Anonymous /\ ~skipCache
        hit   == reads /\ Live(fresh, k) IN
    /\ pc[r] = "idle"
    /\ key' = [key EXCEPT ![r] = k]
    /\ fresh' = IF reads THEN AfterGet(fresh, k) ELSE fresh
    /\ \/ /\ hit
          /\ dispatch(r, toDecision(Lookup(fresh, k).val, "cache"))
          /\ UNCHANGED <<breakerVars, lost, probers>>
       \/ /\ ~hit /\ ~Admits
          /\ dispatch(r, fallback(k, "breaker-open"))
          /\ UNCHANGED <<breakerVars, lost, probers>>
       \/ /\ ~hit /\ Admits /\ Admit /\ HasHealth /\ ~reachable
          /\ dispatch(r, fallback(k, "health-down"))
          /\ UNCHANGED <<lost, probers>>
       \/ /\ ~hit /\ Admits /\ Admit /\ ~(HasHealth /\ ~reachable)
          /\ Goto(r, "simulate")
          /\ decision' = [decision EXCEPT ![r] = Made(FALSE, "none")]
          /\ lost' = [lost EXCEPT ![r] = ~up]
          /\ probers' = IF MayProbe THEN probers \cup {r} ELSE probers
    /\ UNCHANGED <<serverVars, asked, stale, reachable, checks, said, cancelled>>

(* simulatePolicy rejected, whatever the reason: the breaker counts it. *)
SimulateFails(r) ==
    /\ pc[r] = "simulate"
    /\ lost[r] \/ Flaky
    /\ recordFailure
    /\ dispatch(r, fallback(key[r], "fail"))
    /\ lost' = [lost EXCEPT ![r] = FALSE]
    /\ probers' = probers \ {r}
    /\ UNCHANGED <<serverVars, key, asked, fresh, stale, reachable, checks, said,
                   cancelled>>

(* DecisionCache.put fills both stores; the stale one has twice the room   *)
(* and no expiry.                                                          *)
Put(k, o) ==
    /\ fresh' = PutInPlace(fresh, CacheMax, Entry(k, o, CacheTtl))
    /\ stale' = PutInPlace(stale, 2 * CacheMax, Entry(k, o, 0))

(* The Denys whose result.advice is not empty. *)
Advised == {"note", "noted", "waived", "advice"}

(* Mutant: the rule of Next.js everywhere. *)
CacheableAlways(k, o) == k \notin Anonymous

(* A Deny with advice is not cached; the route handler of Next.js caches   *)
(* every answer.                                                           *)
Cacheable(k, o) ==
    /\ k \notin Anonymous
    /\ o \notin Advised \/ Framework = "nextjs"

Conclude(r, k, o) ==
    /\ dispatch(r, toDecision(o, "network"))
    /\ \/ Cacheable(k, o) /\ Put(k, o)
       \/ ~Cacheable(k, o) /\ UNCHANGED <<fresh, stale>>

(* NestJS goes by the flag, and reads the advice where there is none;      *)
(* Express and Fastify only ever read the advice.                          *)
AsksHuman ==
    CASE Framework = "nestjs" -> {"flagged", "noted", "advice"}
      [] Framework = "nextjs" -> {}
      [] OTHER                -> {"waived", "advice"}

Escalates(o) == HitlEnabled /\ o \in AsksHuman

SimulateAnswers(r) ==
    LET o == policy[key[r]] IN
    /\ pc[r] = "simulate" /\ ~lost[r]
    /\ recordSuccess
    /\ said' = said \cup {<<key[r], o>>}
    /\ probers' = probers \ {r}
    /\ \/ /\ Escalates(o)
          /\ Goto(r, IF HasHook THEN "hook" ELSE "approval")
          /\ asked' = [asked EXCEPT ![r] = o]
          /\ UNCHANGED <<decision, fresh, stale>>
       \/ /\ ~Escalates(o)
          /\ Conclude(r, key[r], o)
          /\ UNCHANGED asked
    /\ UNCHANGED <<serverVars, key, lost, reachable, checks, cancelled>>

(* A null override cancels the escalation; Fastify goes on without one.    *)
HookCancels == Framework # "fastify"

(* onHitlRequested settled; undefined and a throw count as null.  After a  *)
(* cancellation the answer is treated as if it had not been escalated.     *)
HookSettles(r, override) ==
    /\ pc[r] = "hook"
    /\ \/ /\ override \/ ~HookCancels
          /\ Goto(r, "approval")
          /\ UNCHANGED <<decision, asked, fresh, stale, cancelled>>
       \/ /\ ~override /\ HookCancels
          /\ Conclude(r, key[r], asked[r])
          /\ cancelled' = cancelled \cup {<<key[r], asked[r]>>}
          /\ asked' = [asked EXCEPT ![r] = "deny"]
    /\ UNCHANGED <<breakerVars, serverVars, key, lost, probers,
                   reachable, checks, said>>

(* requestApproval settled: only "hitl-approved" turns the Deny around;    *)
(* an unexpected error is a hitl-denied.                                   *)
ApprovalSettles(r, src) ==
    /\ pc[r] = "approval"
    /\ dispatch(r, Made(src = "hitl-approved", src))
    /\ asked' = [asked EXCEPT ![r] = "deny"]
    /\ UNCHANGED <<breakerVars, serverVars, key, lost, probers, fresh, stale,
                   reachable, checks, said, cancelled>>
-----------------------------------------------------------------------------
(* HealthMonitor._tick: probes are started by an interval timer, whether   *)
(* or not the previous one has settled, and settle in any order.           *)
HealthTick(i) ==
    /\ HasHealth /\ checks[i] = "none"
    /\ checks' = [checks EXCEPT ![i] = IF up THEN "good" ELSE "lost"]
    /\ UNCHANGED <<breakerVars, requestVars, serverVars, fresh, stale, reachable, said,
                   cancelled>>

(* Mutant: a failed probe is never taken back. *)
HealthNeverBack(i) ==
    /\ checks[i] # "none"
    /\ reachable' = (reachable /\ checks[i] = "good")
    /\ checks' = [checks EXCEPT ![i] = "none"]
    /\ UNCHANGED <<breakerVars, requestVars, serverVars, fresh, stale, said, cancelled>>

HealthSettles(i) ==
    /\ checks[i] # "none"
    /\ reachable' = (checks[i] = "good")
    /\ checks' = [checks EXCEPT ![i] = "none"]
    /\ UNCHANGED <<breakerVars, requestVars, serverVars, fresh, stale, said, cancelled>>

(* The server goes down, taking with it the calls it had not answered. *)
ServerDown ==
    /\ up /\ flips < MaxFlips
    /\ up' = FALSE /\ flips' = flips + 1
    /\ lost' = [r \in Request |-> pc[r] = "simulate"]
    /\ checks' = [i \in Checks |-> IF checks[i] = "none" THEN "none" ELSE "lost"]
    /\ UNCHANGED <<breakerVars, pc, key, decision, asked, probers, policy, edits,
                   fresh, stale, reachable, said, cancelled>>

ServerUp ==
    /\ ~up /\ flips < MaxFlips
    /\ up' = TRUE /\ flips' = flips + 1
    /\ UNCHANGED <<breakerVars, requestVars, policy, edits, fresh, stale, reachable,
                   checks, said, cancelled>>

EditPolicy(k, o) ==
    /\ edits < MaxEdits
    /\ policy' = [policy EXCEPT ![k] = o] /\ edits' = edits + 1
    /\ UNCHANGED <<breakerVars, requestVars, up, flips, fresh, stale, reachable,
                   checks, said, cancelled>>

Tick ==
    /\ BreakerTick
    /\ fresh' = Elapse(fresh)
    /\ UNCHANGED <<requestVars, serverVars, stale, reachable, checks, said, cancelled>>

Arrive(r) == \E k \in Key, s \in BOOLEAN : agentumGuard(r, k, s)

Settling(r) ==
    \/ SimulateFails(r) \/ SimulateAnswers(r)
    \/ \E b \in BOOLEAN : HookSettles(r, b)
    \/ \E s \in {"hitl-approved", "hitl-denied", "hitl-timeout"} : ApprovalSettles(r, s)

Next ==
    \/ \E r \in Request : Arrive(r) \/ Settling(r)
    \/ \E i \in Checks : HealthTick(i) \/ HealthSettles(i)
    \/ ServerDown \/ ServerUp \/ Tick
    \/ \E k \in Key, o \in Verdicts : EditPolicy(k, o)

Spec == Init /\ [][Next]_vars

(* simulatePolicy has a timeout, requestApproval a deadline; the interval  *)
(* timer fires, its probes settle, and time passes.                        *)
FairSpec ==
    /\ Spec
    /\ \A r \in Request : WF_vars(Settling(r))
    /\ \A i \in Checks : WF_vars(HealthTick(i)) /\ WF_vars(HealthSettles(i))
    /\ WF_vars(Tick)
-----------------------------------------------------------------------------
(* Every variable holds a value of its type, whatever the adapter. *)
TypeOK ==
    /\ bState \in {"closed", "open", "half-open"} /\ failures \in 0..Threshold
    /\ openLeft \in 0..ResetTimeout /\ probing \in BOOLEAN
    /\ pc \in [Request -> {"idle", "simulate", "hook", "approval"}]
    /\ key \in [Request -> Key] /\ decision \in [Request -> Decision]
    /\ asked \in [Request -> Outcome] /\ lost \in [Request -> BOOLEAN]
    /\ fresh \in Seq([key : Key, val : Outcome, left : 0..CacheTtl])
    /\ stale \in Seq([key : Key, val : Outcome, left : {0}])
    /\ reachable \in BOOLEAN /\ checks \in [Checks -> {"none", "good", "lost"}]
    /\ up \in BOOLEAN /\ flips \in 0..MaxFlips
    /\ policy \in [Key -> Verdicts] /\ edits \in 0..MaxEdits
    /\ said \subseteq Key \X Outcome /\ cancelled \subseteq Key \X Outcome
    /\ probers \subseteq Request

(* The breaker's three fields agree after any interleaving of late         *)
(* successes and failures: the probe slot is taken exactly in half-open    *)
(* (taken in open, shouldSkip() would refuse every call for ever), and the *)
(* circuit is closed exactly while the failures are below the threshold.   *)
BreakerConsistent ==
    /\ probing <=> bState = "half-open"
    /\ bState = "closed" <=> failures < Threshold

(* Unless the fail mode is "open", a request passes only if the server     *)
(* answered Allow for that very key at some time, or answered a Deny the   *)
(* adapter escalates and a human approved: no fallback, late reply,        *)
(* eviction or cancelled hook lets another one through.                    *)
AllowIsVouched ==
    FailMode # "open" =>
        \A r \in Request : decision[r].allowed =>
            \/ <<key[r], "allow">> \in said
            \/ /\ decision[r].source = "hitl-approved"
               /\ \E o \in Outcome : Escalates(o) /\ <<key[r], o>> \in said

(* The stores hold answers of the server only, never an Allow that a human *)
(* gave.  Outside Next.js none of them carries advice; and a Deny that the *)
(* adapter escalates is there only once a hook cancelled that escalation:  *)
(* the next request must be escalated again.  NestJS does cache a flagged  *)
(* Deny without advice after a cancellation.                               *)
EscalationsUncached ==
    \A m \in {fresh, stale} : \A i \in DOMAIN m :
        /\ <<m[i].key, m[i].val>> \in said
        /\ m[i].val \in Advised => Framework = "nextjs"
        /\ Escalates(m[i].val) => <<m[i].key, m[i].val>> \in cancelled

(* The two stores keep their bounds and, where both hold a key, agree on   *)
(* it: the fallback never contradicts the fresh decision it outlives.      *)
StoresAgree ==
    /\ Len(fresh) <= CacheMax /\ Unique(fresh)
    /\ Len(stale) <= 2 * CacheMax /\ Unique(stale)
    /\ \A i \in DOMAIN fresh, j \in DOMAIN stale :
          fresh[i].key = stale[j].key => fresh[i].val = stale[j].val

(* circuit-breaker.ts, shouldSkip(): "half-open: probe is in flight".      *)
(* While everybody else is short-circuited, somebody is on the way to      *)
(* decide the state.  Holds without a HealthMonitor, fails with one.       *)
HalfOpenHasProbe == bState = "half-open" => \E r \in probers : pc[r] = "simulate"
-----------------------------------------------------------------------------
(* Requests keep coming, and keep asking past the decision cache. *)
Traffic == \A r \in Request : WF_vars(Arrive(r))

(* circuit-breaker.ts: "half-open --- success --> closed | --- failure --> *)
(* open".  When the server stays up and requests keep coming, the circuit  *)
(* closes again and stays closed, provided the HealthMonitor never called  *)
(* the server unreachable: the guard's health-down return leaves the probe *)
(* slot taken.                                                             *)
BreakerRecovers == (Traffic /\ <>[]up /\ []reachable) => <>[](bState = "closed")

(* Overlapping health probes settle in any order, so a late answer from    *)
(* before may undo a newer one; but once the server stays up the monitor   *)
(* ends up calling it reachable for good.                                  *)
HealthRecovers == <>[]up => <>[]reachable

(* The breaker and the monitor both recover once the server has.           *)
GuardRecovers == BreakerRecovers /\ HealthRecovers
=============================================================================
