------------------------------ MODULE Session ------------------------------
(***************************************************************************)
(* AgentumSession (session.ts): a session JWT that is refreshed before it  *)
(* expires, the calls that need it, the HITL approval loop and close().    *)
(* Calls run concurrently; the pc of a call names the await it stands at:  *)
(*   "fresh"     await this.refresh(), the shared promise; "renewed"   *)
(*               and "unrenewed" once that promise has settled             *)
(*   "sent"      await of a client request                                 *)
(*   "recover"   the client's await of tokenRefreshFn after a 401; the     *)
(*               session's callback has run once it is at "install"        *)
(*   "sleep"     the pause of requestApproval between two polls            *)
(*   "join"      await of another caller's close()                         *)
(* JWTs are numbered in the order central mints them (0: no token).  They  *)
(* age in that order: isNearExpiry() holds up to number aged, and central  *)
(* may answer 401 to a request that carries such a token or none.  The     *)
(* retries of a client request are part of its await; its one token        *)
(* refresh is modelled.  refreshFn starts a session on a client of its     *)
(* own, which may fail.  The audit flush, which also refreshes, is in      *)
(* AuditBuffer, and the evaluator behind evaluateToolCall in CedarClient.  *)
(***************************************************************************)
EXTENDS Naturals

CONSTANTS
    Callers,     \* calls of the host in flight at once
    Approvers,   \* the callers that ask for approvals
    Runs,        \* _doRefresh calls in flight at once, if they did not coalesce
    Timeout,     \* opts.timeout of requestApproval, in ticks
    PollEvery,   \* pollIntervalMs, in ticks
    MaxMints,    \* bound: JWTs minted
    MaxCalls     \* bound: calls made

ASSUME SessionAssumption ==
    /\ Runs # {} /\ Callers \cap Runs = {}
    /\ Timeout \in Nat /\ PollEvery \in Nat /\ MaxMints \in Nat /\ MaxCalls \in Nat

VARIABLES
    jwt,         \* _jwt, and with it _sessionId and _expiresAt
    token,       \* the client's token
    asked,       \* refreshFn calls central has not answered
    answer,      \* refreshFn call -> the JWT on its way back
    closing,     \* _closePromise: "none", "ending" or "closed"
    pc, op, res, \* per call: where it stands, what it is, how it ended
    run,         \* the _doRefresh whose promise it awaits
    sent,        \* the token of its request
    refreshed,   \* refreshedOnce of its request
    named,       \* opts.toolName is given
    left, wake,  \* until the deadline, until the end of the pause
    aborted,     \* calls whose opts.signal is aborted
    hitl, was,   \* the approval request at central: now, and when a poll was sent
    minted, aged, calls,
    grants,      \* calls whose approval was recorded as a grant
    recovered    \* ghost: tokenRefreshFn has been called

jwtVars  == <<jwt, token, asked, answer>>
waitVars == <<left, wake, aborted, named>>
hitlVars == <<hitl, was, grants>>
serverVars == <<minted, aged, recovered>>
callVars == <<pc, op, res, run, sent, refreshed>>
vars == <<jwtVars, closing, callVars, waitVars, hitlVars, serverVars, calls>>
-----------------------------------------------------------------------------
Init ==
    /\ jwt = 1 /\ token = 1 /\ minted = 1 /\ aged = 0
    /\ asked = {} /\ answer = [x \in Callers \cup Runs |-> 0]
    /\ closing = "none" /\ recovered = FALSE /\ calls = 0 /\ aborted = {} /\ grants = {}
    /\ pc = [c \in Callers |-> "idle"] /\ op = [c \in Callers |-> "check"]
    /\ run = [c \in Callers |-> CHOOSE x \in Runs : TRUE]
    /\ res = [c \in Callers |-> "none"] /\ sent = [c \in Callers |-> 0]
    /\ refreshed = [c \in Callers |-> FALSE] /\ named = [c \in Callers |-> FALSE]
    /\ left = [c \in Callers |-> 0] /\ wake = [c \in Callers |-> 0]
    /\ hitl = [c \in Callers |-> "none"] /\ was = [c \in Callers |-> "none"]

isNearExpiry == jwt <= aged

(* _refreshPromise: the _doRefresh in flight. *)
Refreshing == {x \in Runs : x \in asked \/ answer[x] # 0}

(* The call ends with outcome r. *)
Finish(c, r) ==
    /\ pc' = [pc EXCEPT ![c] = "idle"] /\ res' = [res EXCEPT ![c] = r]
    /\ sent' = [sent EXCEPT ![c] = 0] /\ refreshed' = [refreshed EXCEPT ![c] = FALSE]
    /\ UNCHANGED run

(* A client request with the token of this moment; h is the status of the  *)
(* call's approval request at central.                                     *)
Send(c, o, h) ==
    /\ pc' = [pc EXCEPT ![c] = "sent"] /\ op' = [op EXCEPT ![c] = o]
    /\ sent' = [sent EXCEPT ![c] = token] /\ refreshed' = [refreshed EXCEPT ![c] = FALSE]
    /\ was' = [was EXCEPT ![c] = IF o = "poll" THEN h ELSE @] /\ UNCHANGED <<res, run>>

Awaits(c, x) == run' = [run EXCEPT ![c] = x] /\ pc' = [pc EXCEPT ![c] = "fresh"]

(* Mutant: every caller runs _doRefresh itself. *)
refreshAlone(c) == \E x \in Runs \ Refreshing : asked' = asked \cup {x} /\ Awaits(c, x)

(* refresh(): join the refresh in flight or start one. *)
refresh(c) ==
    \/ \E x \in Refreshing : Awaits(c, x) /\ UNCHANGED asked
    \/ /\ Refreshing = {}
       /\ LET x == CHOOSE x \in Runs : TRUE IN asked' = asked \cup {x} /\ Awaits(c, x)

NoSend == UNCHANGED <<sent, refreshed, was>>

(* What a call does once _ensureFresh has returned: the requests go out,   *)
(* an audit event is enqueued, and evaluateToolCall leaves for the         *)
(* evaluator, which has an API key and no need of the token.               *)
Proceed(c, o, h) ==
    \/ o \in {"check", "create", "poll"} /\ Send(c, o, h) /\ UNCHANGED asked
    \/ o \in {"ingest", "evaluate", "refresh"} /\ Finish(c, "ok")
       /\ op' = [op EXCEPT ![c] = o] /\ UNCHANGED <<was, asked>>

(* _ensureFresh: wait for a refresh when the JWT is near its expiry. *)
ensureFresh(c, o, h) ==
    IF isNearExpiry
    THEN refresh(c) /\ op' = [op EXCEPT ![c] = o] /\ NoSend /\ UNCHANGED res
    ELSE Proceed(c, o, h)

(* A new call of the host, and nothing known of its approval request. *)
Begin(c) ==
    /\ pc[c] = "idle" /\ calls < MaxCalls /\ calls' = calls + 1
    /\ hitl' = [hitl EXCEPT ![c] = "none"] /\ grants' = grants \ {c}
    /\ aborted' = aborted \ {c} /\ left' = [left EXCEPT ![c] = 0]
    /\ UNCHANGED <<jwt, token, answer, wake, serverVars>>

(* isAllowed and checkPolicy, evaluateToolCall, ingestAuditEvent and       *)
(* requestApproval, up to the first await.                                 *)
Call(c) ==
    /\ Begin(c)
    /\ \E o \in {"check", "evaluate", "ingest", "create"}, b \in BOOLEAN :
          /\ o = "create" => c \in Approvers
          /\ b => o = "create"
          /\ named' = [named EXCEPT ![c] = b]
          /\ ensureFresh(c, o, "none")
    /\ UNCHANGED closing

(* refresh() called by the host. *)
Refresh(c) ==
    /\ Begin(c)
    /\ refresh(c) /\ op' = [op EXCEPT ![c] = "refresh"]
    /\ NoSend /\ UNCHANGED <<res, named, closing>>

(* close(): the first caller ends the session, the others share its promise. *)
close(c) ==
    /\ Begin(c)
    /\ IF closing = "none"
       THEN closing' = "ending" /\ Send(c, "end", "none")
       ELSE /\ pc' = [pc EXCEPT ![c] = "join"] /\ op' = [op EXCEPT ![c] = "close"]
            /\ NoSend /\ UNCHANGED <<closing, res, run>>
    /\ UNCHANGED <<asked, named>>

Joined(c) ==
    /\ pc[c] = "join" /\ closing = "closed"
    /\ Finish(c, "ok")
    /\ UNCHANGED <<jwtVars, closing, op, waitVars, hitlVars, serverVars, calls>>
-----------------------------------------------------------------------------
(* External: central starts a session and mints its JWT ... *)
Mint(x) ==
    /\ x \in asked /\ minted < MaxMints
    /\ minted' = minted + 1 /\ answer' = [answer EXCEPT ![x] = minted + 1]
    /\ asked' = asked \ {x}
    /\ UNCHANGED <<jwt, token, closing, callVars, waitVars, hitlVars, aged, recovered, calls>>

(* ... and the JWTs minted so far come near their expiry. *)
Age ==
    /\ aged < minted /\ aged' = minted
    /\ UNCHANGED <<jwtVars, closing, callVars, waitVars, hitlVars, minted, recovered, calls>>

(* The waiters of a refresh. *)
Wakes(x, how) == [c \in Callers |-> IF pc[c] = "fresh" /\ run[c] = x THEN how ELSE pc[c]]

(* _doRefresh after its await: the session and its client take the JWT. *)
doRefresh(x) ==
    /\ answer[x] # 0
    /\ jwt' = answer[x] /\ token' = answer[x]
    /\ answer' = [answer EXCEPT ![x] = 0]
    /\ pc' = Wakes(x, "renewed")
    /\ UNCHANGED <<asked, closing, op, res, run, sent, refreshed, waitVars, hitlVars, serverVars, calls>>

RefreshFails(x) ==
    /\ x \in asked /\ asked' = asked \ {x}
    /\ pc' = Wakes(x, "unrenewed")
    /\ UNCHANGED <<jwt, token, answer, closing, op, res, run, sent, refreshed, waitVars, hitlVars,
                   serverVars, calls>>

(* The caller after the shared refresh.  When it failed, isAllowed and     *)
(* checkPolicy answer a deny, evaluateToolCall and refresh() reject; an    *)
(* audit event, an approval request and a poll go ahead.                   *)
Refreshed(c) ==
    /\ pc[c] \in {"renewed", "unrenewed"}
    /\ \/ /\ pc[c] = "renewed" \/ op[c] \in {"ingest", "create", "poll"}
          /\ Proceed(c, op[c], hitl[c])
       \/ /\ pc[c] = "unrenewed" /\ op[c] \in {"check", "evaluate", "refresh"}
          /\ Finish(c, IF op[c] = "check" THEN "deny" ELSE "error")
          /\ UNCHANGED <<was, op, asked>>
    /\ UNCHANGED <<jwt, token, answer, closing, waitVars, hitl, grants, serverVars, calls>>
-----------------------------------------------------------------------------
(* A 401: requestWithResponse asks tokenRefreshFn, once. *)
Unauthorized(c) ==
    /\ pc[c] = "sent" /\ sent[c] <= aged
    /\ ~refreshed[c]
    /\ refreshed' = [refreshed EXCEPT ![c] = TRUE]
    /\ pc' = [pc EXCEPT ![c] = "recover"] /\ asked' = asked \cup {c}
    /\ recovered' = TRUE
    /\ UNCHANGED <<jwt, token, answer, closing, op, res, run, sent, waitVars, hitlVars, minted, aged,
                   calls>>

(* The callback the session gave to setTokenRefreshFn, after its await. *)
tokenRefreshFn(c) ==
    /\ pc[c] = "recover" /\ answer[c] # 0
    /\ jwt' = answer[c]
    /\ pc' = [pc EXCEPT ![c] = "install"]
    /\ UNCHANGED <<token, asked, answer, closing, op, res, run, sent, refreshed, waitVars, hitlVars,
                   serverVars, calls>>

(* The client takes the fresh token and sends the request again. *)
Install(c) ==
    /\ pc[c] = "install"
    /\ token' = answer[c] /\ sent' = [sent EXCEPT ![c] = answer[c]]
    /\ answer' = [answer EXCEPT ![c] = 0]
    /\ pc' = [pc EXCEPT ![c] = "sent"]
    /\ was' = [was EXCEPT ![c] = IF op[c] = "poll" THEN hitl[c] ELSE @]
    /\ UNCHANGED <<jwt, asked, closing, op, res, run, refreshed, waitVars, hitl, grants, serverVars,
                   calls>>

(* close() after endSession, resolved or rejected: clearToken() runs in    *)
(* the finally.  The drain of an owned client that follows is AuditBuffer. *)
Ended(c, r) == op[c] = "end" /\ token' = 0 /\ closing' = "closed" /\ Finish(c, r)

(* The request fails: a network error, a 5xx, or a 401 that a refresh did  *)
(* not cure.  It is thrown at the caller, at requestApproval too.          *)
RequestFails(c) ==
    /\ \/ pc[c] = "sent" /\ UNCHANGED asked
       \/ pc[c] = "recover" /\ c \in asked /\ asked' = asked \ {c}
    /\ \/ Ended(c, "error")
       \/ op[c] # "end" /\ Finish(c, "error") /\ UNCHANGED <<token, closing>>
    /\ UNCHANGED <<jwt, answer, op, waitVars, hitlVars, serverVars, calls>>

Replied(c, o) == pc[c] = "sent" /\ op[c] = o

(* Central answers simulatePolicy, or endSession. *)
Answered(c) ==
    /\ \/ Replied(c, "check") /\ (\E r \in {"allow", "deny"} : Finish(c, r))
          /\ UNCHANGED <<token, closing>>
       \/ Replied(c, "end") /\ Ended(c, "ok")
    /\ UNCHANGED <<jwt, asked, answer, op, waitVars, hitlVars, serverVars, calls>>
-----------------------------------------------------------------------------
(* The top of the loop of requestApproval: the deadline, the signal, and   *)
(* _ensureFresh before the poll.                                           *)
LoopTop(c, h, time) ==
    \/ time = 0 /\ Finish(c, "timeout") /\ UNCHANGED <<was, op, asked>>
    \/ time > 0 /\ c \in aborted
       /\ Finish(c, "aborted") /\ UNCHANGED <<was, op, asked>>
    \/ time > 0 /\ c \notin aborted /\ ensureFresh(c, "poll", h)

(* createHitlAgentRequest is answered: the deadline is set, the loop begins. *)
Created(c) ==
    /\ Replied(c, "create")
    /\ hitl' = [hitl EXCEPT ![c] = "pending"]
    /\ left' = [left EXCEPT ![c] = Timeout]
    /\ LoopTop(c, "pending", Timeout)
    /\ UNCHANGED <<jwt, token, answer, closing, wake, aborted, named, grants, serverVars, calls>>

(* External: a reviewer, or central's own sweeper, decides (nobody reads   *)
(* what is decided after the call).                                        *)
Decide(c) ==
    /\ hitl[c] = "pending" /\ pc[c] # "idle"
    /\ \E s \in {"approved", "denied", "timeout"} : hitl' = [hitl EXCEPT ![c] = s]
    /\ UNCHANGED <<jwtVars, closing, callVars, waitVars, was, grants, serverVars, calls>>

(* The host aborts opts.signal. *)
Abort(c) ==
    /\ pc[c] # "idle" /\ op[c] \in {"create", "poll"} /\ c \notin aborted
    /\ aborted' = aborted \cup {c}
    /\ UNCHANGED <<jwtVars, closing, callVars, left, wake, named, hitlVars, serverVars, calls>>

(* recordApprovalGrant, for a caller that named its tool. *)
recordApprovalGrant(c, s) ==
    grants' = IF s = "approved" /\ named[c] THEN grants \cup {c} ELSE grants

(* An answer other than "pending" ends the loop, whatever the clock says. *)
Decided(c, s) == s # "pending" /\ Finish(c, s) /\ recordApprovalGrant(c, s) /\ UNCHANGED wake

(* "pending": pause for the poll interval, but not past the deadline. *)
Pause(c) ==
    /\ UNCHANGED grants
    /\ \/ left[c] = 0 /\ Finish(c, "timeout") /\ UNCHANGED wake
       \/ /\ left[c] > 0 /\ pc' = [pc EXCEPT ![c] = "sleep"]
          /\ UNCHANGED <<res, run, sent, refreshed>>
          /\ wake' = [wake EXCEPT ![c] = IF PollEvery < left[c] THEN PollEvery ELSE left[c]]

(* Mutant: the deadline is tested before the answer. *)
PolledInTime(c, s) ==
    \/ left[c] > 0 /\ Decided(c, s)
    \/ (left[c] = 0 \/ s = "pending") /\ Pause(c)

(* What requestApproval does with the status s of a poll. *)
Polled(c, s) == Decided(c, s) \/ (s = "pending" /\ Pause(c))

(* getHitlAgentRequest is answered: central looked at some time since the poll was sent. *)
PollAnswered(c) ==
    /\ Replied(c, "poll")
    /\ \E s \in {was[c], hitl[c]} : Polled(c, s)
    /\ UNCHANGED <<jwtVars, closing, op, left, aborted, named, hitl, was, serverVars, calls>>

Awake(c) ==
    /\ pc[c] = "sleep" /\ wake[c] = 0
    /\ LoopTop(c, hitl[c], left[c])
    /\ UNCHANGED <<jwt, token, answer, closing, waitVars, hitl, grants, serverVars, calls>>

Less(n) == IF n = 0 THEN 0 ELSE n - 1

Tick ==
    /\ \E c \in Callers : pc[c] # "idle" /\ left[c] > 0
    /\ left' = [c \in Callers |-> IF pc[c] = "idle" THEN left[c] ELSE Less(left[c])]
    /\ wake' = [c \in Callers |-> Less(wake[c])]
    /\ UNCHANGED <<jwtVars, closing, callVars, aborted, named, hitlVars, serverVars, calls>>

Next ==
    \/ \E c \in Callers :
          \/ Call(c) \/ Refresh(c) \/ close(c) \/ Abort(c)
          \/ Refreshed(c) \/ Joined(c) \/ Unauthorized(c) \/ tokenRefreshFn(c) \/ Install(c)
          \/ RequestFails(c) \/ Answered(c) \/ Created(c) \/ Decide(c) \/ PollAnswered(c) \/ Awake(c)
    \/ \E x \in Callers \cup Runs : Mint(x)
    \/ \E x \in Runs : doRefresh(x) \/ RefreshFails(x)
    \/ Age \/ Tick

Spec == Init /\ [][Next]_vars
-----------------------------------------------------------------------------
(* requestApproval ends as central decided.  It resolves, and records a    *)
(* grant for a named tool, only on an approval of its own request; it      *)
(* rejects as denied only on a denial; it times out only when central did  *)
(* or the deadline has passed, and then no poll was sent after a decision  *)
(* (with a timeout of 0 none is sent).                                     *)
ApprovalSound ==
    \A c \in Callers :
        /\ res[c] \in {"approved", "denied"} => hitl[c] = res[c] \/ pc[c] # "idle"
        /\ res[c] = "timeout" /\ pc[c] = "idle" =>
              /\ Timeout > 0 => was[c] \in {"pending", "timeout"}
              /\ hitl[c] = "timeout" \/ left[c] = 0
        /\ pc[c] = "idle" => (c \in grants <=> res[c] = "approved" /\ named[c])

(* session.ts, refresh(): "Concurrent calls coalesce".  However many calls *)
(* refresh at once, the token of the client is never replaced by one that  *)
(* was minted earlier, until a request recovers from a 401 by itself:      *)
(* that refresh does not coalesce with the others.                         *)
TokenMonotone == [][token' >= token \/ closing' = "closed" \/ recovered]_vars

(* close() is there to "de-authenticate the underlying client": once it    *)
(* has settled the client holds no token.                                  *)
SignedOut == closing = "closed" => token = 0
=============================================================================
