----------------------------- MODULE Enrichment -----------------------------
(***************************************************************************)
(* The enrichment webhook of one ref (enrichment/client.ts, cache.ts,      *)
(* circuit-breaker.ts, rate-limit.ts): resolveEnrichment answers from the  *)
(* cache and renews an old entry in the background, or joins the fetch in  *)
(* flight for its key, or starts one.  Breaker and bucket are per ref.     *)
(*                                                                         *)
(* A fetch is "net" from its signature to the end of its body, "settling"  *)
(* while its promise callbacks are still to run.  A caller awaits it       *)
(* ("await") and then caches the result itself ("resume").  Those two are  *)
(* microtasks: the clock and the network wait for them.  The webhook's     *)
(* secret is set and node:crypto is there (no EnrichmentConfigError).      *)
(* Times are in ticks; a tick fills the token bucket.                      *)
(***************************************************************************)
EXTENDS Naturals, Sequences

CONSTANTS
    Askers, Keys, NoKey,
    Fetches,         \* fetches in flight at once
    Modes,           \* on_failure: "fail_open", "fail_closed"
    Ttl, NegTtl,     \* cache.ttl_ms, cache.negative_ttl_ms
    FailuresToOpen, Window, OpenFor,
    Capacity,        \* of the token bucket
    MaxAge,          \* bound: ages are not told apart beyond
    MaxFlips         \* bound: times the webhook goes down or comes back

ASSUME EnrichAssumption ==
    /\ Ttl \in Nat /\ NegTtl \in Nat /\ MaxAge \in Nat /\ MaxAge >= Ttl
    /\ Window \in Nat /\ OpenFor \in Nat /\ Capacity \in Nat

VARIABLES
    mode,
    cache,           \* key -> its entry: kind, age since cachedAt, ticks left
    fetch,           \* Fetches -> stage, key, background, the hit it renews, result
    at, key, got,    \* per caller: what it awaits, and was given
    bState, failureTimes, openLeft,  \* the breaker; failure times are ages
    tokens,
    up, flips,       \* the webhook
    swallowed        \* ghost: a caller was given the hit of a renewal that failed

callerVars  == <<at, key, got>>
breakerVars == <<bState, failureTimes, openLeft>>
hookVars    == <<up, flips>>
enrichVars == <<mode, cache, fetch, callerVars, breakerVars, tokens, hookVars, swallowed>>

(* An EnrichmentResult: a value, or the null of fail_open; "error" is a throw. *)
Result(kind, age) == [kind |-> kind, age |-> age]
None == Result("none", 0)
Unused == [stage |-> "free", key |-> NoKey, bg |-> FALSE, hit |-> 0, res |-> None]

EnrichInit ==
    /\ mode \in Modes
    /\ cache = [k \in Keys |-> [kind |-> "none", age |-> 0, left |-> 0]]
    /\ fetch = [f \in Fetches |-> Unused] /\ key = [c \in Askers |-> NoKey]
    /\ at = [c \in Askers |-> "idle"] /\ got = [c \in Askers |-> None]
    /\ bState = "closed" /\ failureTimes = <<>> /\ openLeft = 0
    /\ tokens = Capacity /\ up = TRUE /\ flips = 0 /\ swallowed = FALSE
-----------------------------------------------------------------------------
(* External: lru-cache drops an entry past its ttl. *)
Live(k) == cache[k].kind # "none" /\ cache[k].left > 0

(* cache.set with the ttl of the kind of result. *)
CacheSet(k, r) ==
    [cache EXCEPT ![k] = [kind |-> r.kind, age |-> r.age,
                          left |-> IF r.kind = "null" THEN NegTtl ELSE Ttl]]

(* IN_FLIGHT: the fetches for key k. *)
InFlight(k) == {f \in Fetches : fetch[f].stage # "free" /\ fetch[f].key = k}

(* Mutant: the breaker stays open. *)
checkBreakerStuck == bState

(* checkBreaker: open turns half_open once its time is over. *)
checkBreaker == IF bState = "open" /\ openLeft = 0 THEN "half_open" ELSE bState

(* failureResult: thrown when fail_closed, a null when fail_open. *)
failureResult == Result(IF mode = "fail_closed" THEN "error" ELSE "null", 0)

(* fetchEnrichment up to its first await, as fetch f. *)
fetchEnrichment(f, k, bg) ==
    LET may == checkBreaker # "open" /\ tokens > 0
    IN  /\ bState' = checkBreaker
        /\ tokens' = IF may THEN tokens - 1 ELSE tokens
        /\ fetch' = [fetch EXCEPT ![f] =
              [stage |-> IF may THEN "net" ELSE "settling", key |-> k, bg |-> bg,
               hit |-> IF bg THEN cache[k].age ELSE 0,
               res |-> IF may THEN None ELSE failureResult]]
        /\ UNCHANGED <<failureTimes, openLeft>>

NoFetch == UNCHANGED <<fetch, tokens, breakerVars>>

Free == {f \in Fetches : fetch[f].stage = "free"}
Start(k, bg) == Free # {} /\ fetchEnrichment(CHOOSE f \in Free : TRUE, k, bg)

(* An entry past half its life is renewed; a negative one never is. *)
Renewable(k) == cache[k].kind = "value" /\ 2 * cache[k].age > Ttl

(* Mutant: IN_FLIGHT is not consulted. *)
maybeBackgroundRefreshBlind(k) == IF Renewable(k) THEN Start(k, TRUE) ELSE NoFetch

maybeBackgroundRefresh(k) ==
    IF Renewable(k) /\ InFlight(k) = {} THEN Start(k, TRUE) ELSE NoFetch

(* resolveEnrichment up to its await: a hit, a fetch to join, or a new one. *)
resolveEnrichment(c) ==
    /\ at[c] = "idle"
    /\ \E k \in Keys :
          \/ Live(k) /\ maybeBackgroundRefresh(k) /\ UNCHANGED <<at, key>>
          \/ /\ ~Live(k)
             /\ IF InFlight(k) # {} THEN NoFetch ELSE Start(k, FALSE)
             /\ at' = [at EXCEPT ![c] = "await"] /\ key' = [key EXCEPT ![c] = k]
    /\ UNCHANGED <<mode, cache, got, hookVars, swallowed>>
-----------------------------------------------------------------------------
recordBreakerSuccess == bState' = "closed" /\ failureTimes' = <<>> /\ openLeft' = 0

TripOpen == bState' = "open" /\ failureTimes' = <<>> /\ openLeft' = OpenFor

(* recordBreakerFailure: half_open reopens, open ignores it, closed counts *)
(* the failures of the window.                                             *)
recordBreakerFailure ==
    LET recent == Append(SelectSeq(failureTimes, LAMBDA a : a <= Window), 0)
    IN  \/ bState = "half_open" /\ TripOpen
        \/ bState = "open" /\ UNCHANGED breakerVars
        \/ /\ bState = "closed"
           /\ IF Len(recent) >= FailuresToOpen
              THEN TripOpen
              ELSE failureTimes' = recent /\ UNCHANGED <<bState, openLeft>>

(* No promise callback is waiting to run. *)
Drained ==
    /\ \A f \in Fetches : fetch[f].stage # "settling"
    /\ \A c \in Askers : at[c] # "resume"

Settling(f, r) == fetch' = [fetch EXCEPT ![f].stage = "settling", ![f].res = r]

(* fetchEnrichment after the webhook's answer: well-formed, or one of the  *)
(* failures (network, timeout, status, JSON, shape).                       *)
FetchAnswered(f) ==
    /\ fetch[f].stage = "net" /\ up /\ Drained
    /\ recordBreakerSuccess /\ Settling(f, Result("value", 0))
    /\ UNCHANGED <<mode, cache, callerVars, tokens, hookVars, swallowed>>

FetchFailed(f) ==
    /\ fetch[f].stage = "net" /\ ~up /\ Drained
    /\ recordBreakerFailure /\ Settling(f, failureResult)
    /\ UNCHANGED <<mode, cache, callerVars, tokens, hookVars, swallowed>>

Hit(f) == Result("value", fetch[f].hit)

(* What the promise of fetch f brings: a renewal that throws brings its hit. *)
FetchOutcome(f) == IF fetch[f].bg /\ fetch[f].res.kind = "error" THEN Hit(f) ELSE fetch[f].res

(* Mutant: a failed renewal caches its hit again. *)
RenewedAgain(f) == IF fetch[f].bg THEN CacheSet(fetch[f].key, FetchOutcome(f)) ELSE cache

(* A renewal caches its own result, unless it throws. *)
Renewed(f) ==
    IF fetch[f].bg /\ fetch[f].res.kind # "error"
    THEN CacheSet(fetch[f].key, fetch[f].res) ELSE cache

(* The then, catch and finally of the promise: IN_FLIGHT forgets it and    *)
(* its callers go on.                                                      *)
Settle(f) ==
    LET mine == {c \in Askers : at[c] = "await" /\ key[c] = fetch[f].key}
    IN  /\ fetch[f].stage = "settling"
        /\ cache' = Renewed(f)
        /\ fetch' = [fetch EXCEPT ![f] = Unused]
        /\ at' = [c \in Askers |-> IF c \in mine THEN "resume" ELSE at[c]]
        /\ got' = [c \in Askers |-> IF c \in mine THEN FetchOutcome(f) ELSE got[c]]
        /\ swallowed' = (swallowed \/ (mine # {} /\ fetch[f].bg /\ fetch[f].res.kind = "error"))
        /\ UNCHANGED <<mode, key, breakerVars, tokens, hookVars>>

(* resolveEnrichment after its await: the caller caches what it was given. *)
Resume(c) ==
    /\ at[c] = "resume" /\ at' = [at EXCEPT ![c] = "idle"]
    /\ cache' = IF got[c].kind = "error" THEN cache ELSE CacheSet(key[c], got[c])
    /\ key' = [key EXCEPT ![c] = NoKey] /\ got' = [got EXCEPT ![c] = None]
    /\ UNCHANGED <<mode, fetch, breakerVars, tokens, hookVars, swallowed>>
-----------------------------------------------------------------------------
Fewer(n) == IF n = 0 THEN 0 ELSE n - 1
More(n, top) == IF n < top THEN n + 1 ELSE n

EnrichTick ==
    /\ Drained
    /\ cache' = [k \in Keys |-> IF cache[k].left <= 1
                   THEN [kind |-> "none", age |-> 0, left |-> 0]
                   ELSE [cache[k] EXCEPT !.left = @ - 1, !.age = More(@, MaxAge)]]
    /\ fetch' = [f \in Fetches |->
          IF fetch[f].bg THEN [fetch[f] EXCEPT !.hit = More(@, MaxAge)] ELSE fetch[f]]
    /\ failureTimes' = [i \in DOMAIN failureTimes |-> More(failureTimes[i], Window + 1)]
    /\ openLeft' = Fewer(openLeft) /\ tokens' = Capacity
    /\ UNCHANGED <<mode, callerVars, bState, hookVars, swallowed>>

(* External: lru-cache evicts an entry to make room. *)
Evict(k) ==
    /\ Live(k)
    /\ cache' = [cache EXCEPT ![k] = [kind |-> "none", age |-> 0, left |-> 0]]
    /\ UNCHANGED <<mode, fetch, callerVars, breakerVars, tokens, hookVars, swallowed>>

(* External: the webhook goes down or comes back. *)
Flip ==
    /\ flips < MaxFlips /\ flips' = flips + 1 /\ up' = ~up
    /\ UNCHANGED <<mode, cache, fetch, callerVars, breakerVars, tokens, swallowed>>

EnrichNext ==
    \/ \E c \in Askers : resolveEnrichment(c) \/ Resume(c)
    \/ \E f \in Fetches : FetchAnswered(f) \/ FetchFailed(f) \/ Settle(f)
    \/ \E k \in Keys : Evict(k)
    \/ EnrichTick \/ Flip

EnrichSpec == EnrichInit /\ [][EnrichNext]_enrichVars

(* The clock and the network wait for the microtasks, again and again: strong fairness. *)
EnrichFairSpec ==
    /\ EnrichSpec
    /\ \A c \in Askers : WF_enrichVars(Resume(c))
    /\ \A f \in Fetches : SF_enrichVars(FetchAnswered(f) \/ FetchFailed(f)) /\ WF_enrichVars(Settle(f))
    /\ SF_enrichVars(EnrichTick)
-----------------------------------------------------------------------------
(* At most one fetch per key is in flight, foreground or background, and   *)
(* whoever awaits one is woken by it.                                      *)
OneFetch ==
    \A k \in Keys :
        /\ \A f, g \in InFlight(k) : f = g
        /\ (\E c \in Askers : at[c] = "await" /\ key[c] = k) => InFlight(k) # {}

(* client.ts, maybeBackgroundRefresh: "the original cache entry survives   *)
(* until its own TTL".  No value is served or cached when older than the   *)
(* ttl, whatever renewals failed in between, until a caller is given the   *)
(* hit of a failed renewal it had joined.  With fail_closed no null is.    *)
AgeBounded ==
    /\ swallowed \/ \A k \in Keys : cache[k].kind = "value" => cache[k].age + cache[k].left = Ttl
    /\ mode = "fail_closed" =>
          /\ \A k \in Keys : cache[k].kind # "null"
          /\ \A c \in Askers : got[c].kind # "null"

(* Askers keep asking, and do not starve the event loop by doing so from  *)
(* microtasks only.                                                        *)
Traffic == (\A c \in Askers : WF_enrichVars(resolveEnrichment(c))) /\ []<>Drained

(* circuit-breaker.ts: "half-open -> closed (on next success)".  When the  *)
(* webhook stays up and callers keep asking, the breaker closes for good:  *)
(* late failures of fetches sent before do not keep it open.               *)
WebhookRecovers == (Traffic /\ <>[]up) => <>[](bState = "closed")

(* maybeBackgroundRefresh: "failures are swallowed (the original cache     *)
(* entry survives until its own TTL)".  A value that is still live is not  *)
(* replaced by the null of a failure.                                      *)
EntrySurvives == [][\A k \in Keys : Live(k) /\ cache[k].kind = "value" => cache'[k].kind # "null"]_enrichVars
=============================================================================
