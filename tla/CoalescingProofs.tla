-------------------------- MODULE CoalescingProofs --------------------------
(***************************************************************************)
(* The two clients whose concurrent callers share one request.  First      *)
(* AgentumSession: its approvals and its refreshes, for any number of      *)
(* concurrent calls, any timeout and poll interval and any number of JWTs. *)
(* Then the enrichment client: the one fetch per key and the ages of its   *)
(* cache, for any number of callers, keys and slots and any ttl.           *)
(***************************************************************************)
EXTENDS Session, Enrichment, TLAPS

USE SessionAssumption

PCs      == {"idle", "fresh", "renewed", "unrenewed", "sent", "recover", "install", "sleep", "join"}
Ops      == {"check", "evaluate", "ingest", "create", "refresh", "poll", "end", "close"}
Status   == {"none", "pending", "approved", "denied", "timeout"}
Outcomes == Status \cup {"ok", "error", "allow", "deny", "aborted"}

CallType ==
    /\ pc \in [Callers -> PCs] /\ op \in [Callers -> Ops] /\ res \in [Callers -> Outcomes]
    /\ hitl \in [Callers -> Status] /\ was \in [Callers -> Status]
    /\ left \in [Callers -> Nat] /\ named \in [Callers -> BOOLEAN] /\ grants \subseteq Callers

(* A call under way has no grant; once it polls there is an approval       *)
(* request; the poll that is out was sent while the request was pending or *)
(* as it is now, and a call only pauses after a poll sent in time.  A call *)
(* that is over ended as ApprovalSound says.                               *)
CallOK(c) ==
    /\ pc[c] # "idle" => c \notin grants
    /\ pc[c] # "idle" /\ op[c] = "poll" => hitl[c] # "none"
    /\ pc[c] \in {"sent", "recover", "install"} /\ op[c] = "poll" => was[c] # "none" /\ was[c] \in {"pending", hitl[c]}
    /\ pc[c] = "sleep" => op[c] = "poll" /\ was[c] = "pending"
    /\ pc[c] = "idle" /\ res[c] \in {"approved", "denied"} => hitl[c] = res[c]
    /\ pc[c] = "idle" /\ res[c] = "timeout" =>
          /\ Timeout > 0 => was[c] \in {"pending", "timeout"}
          /\ hitl[c] = "timeout" \/ left[c] = 0
    /\ pc[c] = "idle" => (c \in grants <=> res[c] = "approved" /\ named[c])

CallInv == CallType /\ \A c \in Callers : CallOK(c)

(* The other calls are left as they are. *)
OthersStay(c) == \A d \in Callers \ {c} :
    /\ pc'[d] = pc[d] /\ op'[d] = op[d] /\ res'[d] = res[d] /\ hitl'[d] = hitl[d]
    /\ was'[d] = was[d] /\ left'[d] = left[d] /\ named'[d] = named[d]
    /\ d \in grants' <=> d \in grants
-----------------------------------------------------------------------------
(* A step of one call keeps the invariant of the others. *)
LEMMA Frame ==
    ASSUME CallInv, NEW c \in Callers, CallType', OthersStay(c), CallOK(c)'
    PROVE  CallInv'
<1>1. ASSUME NEW d \in Callers \ {c} PROVE CallOK(d)'
  BY DEF CallInv, OthersStay, CallOK
<1> QED BY <1>1 DEF CallInv

(* The end of a call. *)
LEMMA FinishShape ==
    ASSUME CallType, NEW c \in Callers, NEW r \in Outcomes, Finish(c, r)
    PROVE  /\ pc' \in [Callers -> PCs] /\ res' \in [Callers -> Outcomes]
           /\ pc'[c] = "idle" /\ res'[c] = r
           /\ \A d \in Callers \ {c} : pc'[d] = pc[d] /\ res'[d] = res[d]
BY DEF CallType, Finish, PCs

(* A request that goes out. *)
LEMMA SendShape ==
    ASSUME CallType, NEW c \in Callers, NEW o \in Ops, NEW h \in Status, Send(c, o, h)
    PROVE  /\ pc' \in [Callers -> PCs] /\ op' \in [Callers -> Ops] /\ was' \in [Callers -> Status]
           /\ pc'[c] = "sent" /\ op'[c] = o /\ was'[c] = (IF o = "poll" THEN h ELSE was[c])
           /\ res' = res
           /\ \A d \in Callers \ {c} : pc'[d] = pc[d] /\ op'[d] = op[d] /\ was'[d] = was[d]
BY DEF CallType, Send, PCs

(* What a call does up to its next await: it waits for a refresh, sends    *)
(* its request, or is over.                                                *)
Waits(c) == pc'[c] = "fresh" /\ was' = was /\ res' = res
Sends(c, o, h) ==
    /\ o \in {"check", "create", "poll"} /\ pc'[c] = "sent"
    /\ was'[c] = (IF o = "poll" THEN h ELSE was[c]) /\ res' = res
Over(c, o) == o \in {"ingest", "evaluate", "refresh"} /\ pc'[c] = "idle" /\ res'[c] = "ok" /\ was' = was

Goes(c, o) ==
    /\ pc' \in [Callers -> PCs] /\ op' \in [Callers -> Ops] /\ res' \in [Callers -> Outcomes]
    /\ was' \in [Callers -> Status]
    /\ op'[c] = o
    /\ \A d \in Callers \ {c} : /\ pc'[d] = pc[d] /\ op'[d] = op[d] /\ res'[d] = res[d]
                                /\ was'[d] = was[d]

LEMMA ProceedShape ==
    ASSUME CallType, NEW c \in Callers, NEW o \in Ops, NEW h \in Status, Proceed(c, o, h)
    PROVE  Goes(c, o) /\ (Sends(c, o, h) \/ Over(c, o))
<1>1. CASE o \in {"check", "create", "poll"} /\ Send(c, o, h)
  BY <1>1, SendShape DEF Goes, Sends, CallType
<1>2. CASE /\ o \in {"ingest", "evaluate", "refresh"} /\ Finish(c, "ok")
           /\ op' = [op EXCEPT ![c] = o] /\ UNCHANGED was
  <2>1. "ok" \in Outcomes
    BY DEF Outcomes
  <2>2. op' \in [Callers -> Ops] /\ op'[c] = o /\ \A d \in Callers \ {c} : op'[d] = op[d]
    BY <1>2 DEF CallType
  <2> QED BY <1>2, <2>1, <2>2, FinishShape DEF Goes, Over, CallType
<1> QED BY <1>1, <1>2 DEF Proceed

LEMMA RefreshShape ==
    ASSUME CallType, NEW c \in Callers, NEW o \in Ops, refresh(c),
           op' = [op EXCEPT ![c] = o], UNCHANGED <<was, res>>
    PROVE  Goes(c, o) /\ Waits(c)
<1>1. pc' = [pc EXCEPT ![c] = "fresh"]
  BY DEF refresh, Awaits
<1> QED BY <1>1 DEF CallType, Goes, Waits, PCs

LEMMA EnsureShape ==
    ASSUME CallType, NEW c \in Callers, NEW o \in Ops, NEW h \in Status, ensureFresh(c, o, h)
    PROVE  Goes(c, o) /\ (Waits(c) \/ Sends(c, o, h) \/ Over(c, o))
<1>1. CASE isNearExpiry
  BY <1>1, RefreshShape DEF ensureFresh, NoSend
<1>2. CASE ~isNearExpiry
  BY <1>2, ProceedShape DEF ensureFresh
<1> QED BY <1>1, <1>2
-----------------------------------------------------------------------------
(* The start of a call: it is none that polls, and nothing of an earlier   *)
(* approval of the same caller is left.                                    *)
LEMMA BeginShape ==
    ASSUME CallType, NEW c \in Callers, Begin(c)
    PROVE  /\ pc[c] = "idle" /\ hitl' \in [Callers -> Status] /\ left' \in [Callers -> Nat]
           /\ grants' \subseteq Callers /\ c \notin grants'
           /\ \A d \in Callers \ {c} : /\ hitl'[d] = hitl[d] /\ left'[d] = left[d]
                                       /\ d \in grants' <=> d \in grants
BY DEF CallType, Begin, Status

LEMMA CallKeeps == ASSUME CallInv, NEW c \in Callers, Call(c) PROVE CallInv'
<1>0. CallType /\ Begin(c)
  BY DEF CallInv, Call
<1>1. PICK o \in {"check", "evaluate", "ingest", "create"}, b \in BOOLEAN :
         named' = [named EXCEPT ![c] = b] /\ ensureFresh(c, o, "none")
  BY DEF Call
<1>2. o \in Ops /\ o # "poll" /\ "none" \in Status
  BY DEF Ops, Status
<1>3. Goes(c, o) /\ (Waits(c) \/ Sends(c, o, "none") \/ Over(c, o))
  BY <1>0, <1>1, <1>2, EnsureShape
<1>4. CallType' /\ OthersStay(c)
  BY <1>0, <1>1, <1>3, BeginShape DEF CallType, Goes, OthersStay
<1>5. CallOK(c)'
  BY <1>0, <1>2, <1>3, BeginShape DEF CallOK, Goes, Waits, Sends, Over
<1> QED BY <1>4, <1>5, Frame

LEMMA HostRefreshKeeps == ASSUME CallInv, NEW c \in Callers, Refresh(c) PROVE CallInv'
<1>0. CallType /\ Begin(c) /\ named' = named
  BY DEF CallInv, Refresh
<1>1. Goes(c, "refresh") /\ Waits(c)
  BY <1>0, RefreshShape DEF Refresh, NoSend, Ops
<1>2. CallType' /\ OthersStay(c)
  BY <1>0, <1>1, BeginShape DEF CallType, Goes, OthersStay
<1>3. CallOK(c)'
  BY <1>0, <1>1, BeginShape DEF CallOK, Goes, Waits
<1> QED BY <1>2, <1>3, Frame

LEMMA CloseKeeps == ASSUME CallInv, NEW c \in Callers, close(c) PROVE CallInv'
<1>0. CallType /\ Begin(c) /\ named' = named
  BY DEF CallInv, close
<1>1. CASE Send(c, "end", "none")
  <2>1. "end" \in Ops /\ "none" \in Status
    BY DEF Ops, Status
  <2>2. CallType' /\ OthersStay(c)
    BY <1>0, <1>1, <2>1, BeginShape, SendShape DEF CallType, OthersStay
  <2>3. CallOK(c)'
    BY <1>0, <1>1, <2>1, BeginShape, SendShape DEF CallOK
  <2> QED BY <2>2, <2>3, Frame
<1>2. CASE /\ pc' = [pc EXCEPT ![c] = "join"] /\ op' = [op EXCEPT ![c] = "close"]
           /\ UNCHANGED <<was, res>>
  <2>1. CallType' /\ OthersStay(c)
    BY <1>0, <1>2, BeginShape DEF CallType, OthersStay, PCs, Ops
  <2>2. CallOK(c)'
    BY <1>0, <1>2, BeginShape DEF CallOK, CallType
  <2> QED BY <2>1, <2>2, Frame
<1> QED BY <1>1, <1>2 DEF close, NoSend
-----------------------------------------------------------------------------
(* A call that ends otherwise than by a decision on its request. *)
LEMMA EndsKeeps ==
    ASSUME CallInv, NEW c \in Callers, NEW r \in {"ok", "error", "allow", "deny", "aborted"},
           pc[c] # "idle", Finish(c, r), UNCHANGED <<op, hitl, was, left, named, grants>>
    PROVE  CallInv'
<1>0. CallType /\ r \in Outcomes
  BY DEF CallInv, Outcomes
<1>1. CallType' /\ OthersStay(c)
  BY <1>0, FinishShape DEF CallType, OthersStay
<1>2. CallOK(c)'
  BY <1>0, FinishShape DEF CallInv, CallOK
<1> QED BY <1>1, <1>2, Frame

LEMMA JoinedKeeps == ASSUME CallInv, NEW c \in Callers, Joined(c) PROVE CallInv'
BY EndsKeeps DEF Joined, waitVars, hitlVars

LEMMA RequestFailsKeeps == ASSUME CallInv, NEW c \in Callers, RequestFails(c) PROVE CallInv'
BY EndsKeeps DEF RequestFails, Ended, waitVars, hitlVars

LEMMA AnsweredKeeps == ASSUME CallInv, NEW c \in Callers, Answered(c) PROVE CallInv'
BY EndsKeeps DEF Answered, Replied, Ended, waitVars, hitlVars

(* The call goes on once the refresh it waited for has settled. *)
LEMMA RefreshedKeeps == ASSUME CallInv, NEW c \in Callers, Refreshed(c) PROVE CallInv'
<1>0. CallType /\ CallOK(c) /\ pc[c] \in {"renewed", "unrenewed"}
  BY DEF CallInv, Refreshed
<1>1. UNCHANGED <<hitl, left, named, grants>>
  BY DEF Refreshed, waitVars
<1>2. CASE Proceed(c, op[c], hitl[c])
  <2>1. op[c] \in Ops /\ hitl[c] \in Status
    BY <1>0 DEF CallType
  <2>2. Goes(c, op[c]) /\ (Sends(c, op[c], hitl[c]) \/ Over(c, op[c]))
    BY <1>0, <1>2, <2>1, ProceedShape
  <2>3. CallType' /\ OthersStay(c)
    BY <1>0, <1>1, <2>2 DEF CallType, Goes, OthersStay
  <2>4. CallOK(c)'
    BY <1>0, <1>1, <2>2 DEF CallOK, Goes, Sends, Over
  <2> QED BY <2>3, <2>4, Frame
<1>3. CASE /\ Finish(c, IF op[c] = "check" THEN "deny" ELSE "error")
           /\ UNCHANGED <<was, op>>
  BY <1>0, <1>1, <1>3, EndsKeeps
<1> QED BY <1>2, <1>3 DEF Refreshed

(* A 401 and what follows it leave the approval as it is; the request is   *)
(* sent again, with the status of that moment if it is a poll.             *)
LEMMA RecoveryKeeps ==
    ASSUME CallInv, NEW c \in Callers, Unauthorized(c) \/ tokenRefreshFn(c) PROVE CallInv'
<1>0. CallType /\ CallOK(c) /\ pc[c] \in {"sent", "recover"}
  BY DEF CallInv, Unauthorized, tokenRefreshFn
<1>1. /\ pc' = [pc EXCEPT ![c] = "recover"] \/ pc' = [pc EXCEPT ![c] = "install"]
      /\ UNCHANGED <<op, res, hitl, was, left, named, grants>>
  BY DEF Unauthorized, tokenRefreshFn, waitVars, hitlVars
<1>2. CallType' /\ OthersStay(c)
  BY <1>0, <1>1 DEF CallType, OthersStay, PCs
<1>3. pc'[c] \in {"recover", "install"}
  BY <1>0, <1>1 DEF CallType
<1>4. CallOK(c)'
  BY <1>0, <1>1, <1>3 DEF CallOK
<1> QED BY <1>2, <1>4, Frame

LEMMA InstallKeeps == ASSUME CallInv, NEW c \in Callers, Install(c) PROVE CallInv'
<1>0. CallType /\ CallOK(c) /\ pc[c] = "install"
  BY DEF CallInv, Install
<1>1. /\ pc' = [pc EXCEPT ![c] = "sent"]
      /\ was' = [was EXCEPT ![c] = IF op[c] = "poll" THEN hitl[c] ELSE was[c]]
      /\ UNCHANGED <<op, res, hitl, left, named, grants>>
  BY DEF Install, waitVars
<1>2. CallType' /\ OthersStay(c)
  BY <1>0, <1>1 DEF CallType, OthersStay, PCs
<1>3. pc'[c] = "sent" /\ was'[c] = IF op[c] = "poll" THEN hitl[c] ELSE was[c]
  BY <1>0, <1>1 DEF CallType
<1>4. CallOK(c)'
  BY <1>0, <1>1, <1>3 DEF CallOK
<1> QED BY <1>2, <1>4, Frame
-----------------------------------------------------------------------------
(* The top of the approval loop: the request is there, and what is left of *)
(* the time is given.                                                      *)
LEMMA LoopKeeps ==
    ASSUME CallInv, NEW c \in Callers, NEW h \in Status \ {"none"}, NEW time \in Nat,
           pc[c] # "idle", LoopTop(c, h, time),
           hitl' \in [Callers -> Status], hitl'[c] = h,
           left' \in [Callers -> Nat], left'[c] = time,
           \A d \in Callers \ {c} : hitl'[d] = hitl[d] /\ left'[d] = left[d],
           UNCHANGED <<named, grants>>,
           Timeout = 0 \/ time > 0 \/ was[c] = "pending"
    PROVE  CallInv'
<1>0. CallType /\ CallOK(c) /\ c \notin grants
  BY DEF CallInv, CallOK
<1>1. CASE time = 0 /\ Finish(c, "timeout") /\ UNCHANGED <<was, op>>
  <2>1. "timeout" \in Outcomes
    BY DEF Outcomes, Status
  <2>2. CallType' /\ OthersStay(c)
    BY <1>0, <1>1, <2>1, FinishShape DEF CallType, OthersStay
  <2>3. CallOK(c)'
    BY <1>0, <1>1, <2>1, FinishShape DEF CallOK
  <2> QED BY <2>2, <2>3, Frame
<1>2. CASE Finish(c, "aborted") /\ UNCHANGED <<was, op>>
  <2>1. "aborted" \in Outcomes
    BY DEF Outcomes
  <2>2. CallType' /\ OthersStay(c)
    BY <1>0, <1>2, <2>1, FinishShape DEF CallType, OthersStay
  <2>3. CallOK(c)'
    BY <1>0, <1>2, <2>1, FinishShape DEF CallOK
  <2> QED BY <2>2, <2>3, Frame
<1>3. CASE ensureFresh(c, "poll", h)
  <2>1. "poll" \in Ops
    BY DEF Ops
  <2>2. Goes(c, "poll") /\ (Waits(c) \/ Sends(c, "poll", h))
    BY <1>0, <1>3, <2>1, EnsureShape DEF Over
  <2>3. CallType' /\ OthersStay(c)
    BY <1>0, <2>2 DEF CallType, Goes, OthersStay
  <2>4. CallOK(c)'
    BY <1>0, <2>2 DEF CallOK, Goes, Waits, Sends
  <2> QED BY <2>3, <2>4, Frame
<1> QED BY <1>1, <1>2, <1>3 DEF LoopTop

LEMMA CreatedKeeps == ASSUME CallInv, NEW c \in Callers, Created(c) PROVE CallInv'
<1>0. CallType /\ pc[c] # "idle"
  BY DEF CallInv, Created, Replied
<1>1. /\ hitl' = [hitl EXCEPT ![c] = "pending"] /\ left' = [left EXCEPT ![c] = Timeout]
      /\ LoopTop(c, "pending", Timeout) /\ UNCHANGED <<named, grants>>
  BY DEF Created
<1>2. /\ hitl' \in [Callers -> Status] /\ hitl'[c] = "pending" /\ "pending" \in Status \ {"none"}
      /\ left' \in [Callers -> Nat] /\ left'[c] = Timeout
      /\ \A d \in Callers \ {c} : hitl'[d] = hitl[d] /\ left'[d] = left[d]
  BY <1>0, <1>1 DEF CallType, Status
<1> QED BY <1>0, <1>1, <1>2, LoopKeeps

LEMMA AwakeKeeps == ASSUME CallInv, NEW c \in Callers, Awake(c) PROVE CallInv'
<1>0. CallType /\ CallOK(c) /\ pc[c] = "sleep"
  BY DEF CallInv, Awake
<1>1. LoopTop(c, hitl[c], left[c]) /\ UNCHANGED <<hitl, left, named, grants>>
  BY DEF Awake, waitVars
<1>2. hitl[c] \in Status \ {"none"} /\ left[c] \in Nat /\ was[c] = "pending"
  BY <1>0 DEF CallType, CallOK
<1> QED BY <1>0, <1>1, <1>2, LoopKeeps DEF CallType

(* The answer to a poll: a status the request had since the poll was sent, *)
(* so a decision is the one that stands.                                   *)
LEMMA PollKeeps == ASSUME CallInv, NEW c \in Callers, PollAnswered(c) PROVE CallInv'
<1>0. CallType /\ CallOK(c) /\ pc[c] = "sent" /\ op[c] = "poll"
  BY DEF CallInv, PollAnswered, Replied
<1>1. PICK s \in {was[c], hitl[c]} : Polled(c, s)
  BY DEF PollAnswered
<1>2. UNCHANGED <<op, left, named, hitl, was>>
  BY DEF PollAnswered
<1>3. /\ s \in Status \ {"none"} /\ s \in Outcomes
      /\ s # "pending" => s = hitl[c]
      /\ s = "pending" => was[c] = "pending"
  BY <1>0, <1>1 DEF CallType, CallOK, Outcomes
<1>4. CASE Decided(c, s)
  <2>1. s # "pending" /\ Finish(c, s) /\ recordApprovalGrant(c, s)
    BY <1>4 DEF Decided
  <2>2. grants' = IF s = "approved" /\ named[c] THEN grants \cup {c} ELSE grants
    BY <2>1 DEF recordApprovalGrant
  <2>3. CallType' /\ OthersStay(c)
    BY <1>0, <1>2, <1>3, <2>1, <2>2, FinishShape DEF CallType, OthersStay
  <2>4. pc'[c] = "idle" /\ res'[c] = s /\ hitl'[c] = s /\ was[c] \in {"pending", s}
    BY <1>0, <1>2, <1>3, <2>1, FinishShape DEF CallOK
  <2>5. c \in grants' <=> s = "approved" /\ named[c]
    BY <1>0, <2>2 DEF CallOK
  <2>6. CallOK(c)'
    BY <1>2, <2>4, <2>5 DEF CallOK
  <2> QED BY <2>3, <2>6, Frame
<1>5. CASE s = "pending" /\ Pause(c)
  <2>1. CASE left[c] = 0 /\ Finish(c, "timeout") /\ UNCHANGED grants
    <3>1. "timeout" \in Outcomes
      BY DEF Outcomes, Status
    <3>2. CallType' /\ OthersStay(c)
      BY <1>0, <1>2, <2>1, <3>1, FinishShape DEF CallType, OthersStay
    <3>3. CallOK(c)'
      BY <1>0, <1>2, <1>3, <1>5, <2>1, <3>1, FinishShape DEF CallOK
    <3> QED BY <3>2, <3>3, Frame
  <2>2. CASE pc' = [pc EXCEPT ![c] = "sleep"] /\ UNCHANGED <<res, grants>>
    <3>1. CallType' /\ OthersStay(c)
      BY <1>0, <1>2, <2>2 DEF CallType, OthersStay, PCs
    <3>2. pc'[c] = "sleep"
      BY <1>0, <2>2 DEF CallType
    <3>3. CallOK(c)'
      BY <1>0, <1>2, <1>3, <1>5, <2>2, <3>2 DEF CallOK
    <3> QED BY <3>1, <3>3, Frame
  <2> QED BY <1>5, <2>1, <2>2 DEF Pause
<1> QED BY <1>1, <1>4, <1>5 DEF Polled

(* A decision is made once, and while the call is under way. *)
LEMMA DecideKeeps == ASSUME CallInv, NEW c \in Callers, Decide(c) PROVE CallInv'
<1>0. CallType /\ CallOK(c) /\ pc[c] # "idle" /\ hitl[c] = "pending"
  BY DEF CallInv, Decide
<1>1. PICK s \in {"approved", "denied", "timeout"} : hitl' = [hitl EXCEPT ![c] = s]
  BY DEF Decide
<1>2. UNCHANGED <<pc, op, res, was, left, named, grants>>
  BY DEF Decide, callVars, waitVars
<1>3. CallType' /\ OthersStay(c) /\ hitl'[c] = s
  BY <1>0, <1>1, <1>2 DEF CallType, OthersStay, Status
<1>4. CallOK(c)'
  BY <1>0, <1>2, <1>3 DEF CallOK
<1> QED BY <1>3, <1>4, Frame

(* Time, the JWTs and their refreshes leave every approval as it is. *)
LEMMA ElseKeeps ==
    ASSUME CallInv,
           \/ \E c \in Callers : Abort(c)
           \/ \E x \in Callers \cup Runs : Mint(x)
           \/ \E x \in Runs : doRefresh(x) \/ RefreshFails(x)
           \/ Age \/ Tick \/ UNCHANGED vars
    PROVE  CallInv'
<1>0. CallType /\ \A c \in Callers : CallOK(c)
  BY DEF CallInv
<1>1. UNCHANGED <<op, res, hitl, was, named, grants>>
  BY DEF Abort, Mint, doRefresh, RefreshFails, Age, Tick, vars, callVars, waitVars, hitlVars
<1>2. /\ pc' \in [Callers -> PCs]
      /\ \A c \in Callers : pc'[c] = pc[c] \/ (pc[c] = "fresh" /\ pc'[c] \in {"renewed", "unrenewed"})
  <2>1. ASSUME NEW x, NEW how \in {"renewed", "unrenewed"}, pc' = Wakes(x, how)
        PROVE  /\ pc' \in [Callers -> PCs]
               /\ \A c \in Callers : pc'[c] = pc[c] \/ (pc[c] = "fresh" /\ pc'[c] \in {"renewed", "unrenewed"})
    BY <1>0, <2>1 DEF Wakes, CallType, PCs
  <2>2. CASE pc' = pc
    BY <1>0, <2>2 DEF CallType
  <2> QED BY <2>1, <2>2 DEF Abort, Mint, doRefresh, RefreshFails, Age, Tick, vars, callVars
<1>3. left' \in [Callers -> Nat] /\ \A c \in Callers : pc[c] = "idle" => left'[c] = left[c]
  <2>1. CASE Tick
    BY <1>0, <2>1 DEF Tick, Less, CallType
  <2>2. CASE left' = left
    BY <1>0, <2>2 DEF CallType
  <2> QED BY <2>1, <2>2 DEF Abort, Mint, doRefresh, RefreshFails, Age, vars, waitVars
<1>4. CallType'
  BY <1>0, <1>1, <1>2, <1>3 DEF CallType
<1>5. ASSUME NEW c \in Callers PROVE CallOK(c)'
  BY <1>0, <1>1, <1>2, <1>3 DEF CallOK
<1> QED BY <1>4, <1>5 DEF CallInv

(* requestApproval ends as central decided, for any number of callers at   *)
(* once, however refreshes, 401s, aborts and the deadline come in between. *)
THEOREM ApprovalsSound == Spec => []ApprovalSound
<1>1. Init => CallInv
  BY DEF Init, CallInv, CallType, CallOK, PCs, Ops, Status, Outcomes
<1>2. CallInv /\ [Next]_vars => CallInv'
  BY CallKeeps, HostRefreshKeeps, CloseKeeps, JoinedKeeps, RequestFailsKeeps, AnsweredKeeps,
     RefreshedKeeps, RecoveryKeeps, InstallKeeps, CreatedKeeps, AwakeKeeps, PollKeeps, DecideKeeps,
     ElseKeeps DEF Next
<1>3. CallInv => ApprovalSound
  BY DEF CallInv, CallOK, ApprovalSound
<1> QED BY <1>1, <1>2, <1>3, PTL DEF Spec
-----------------------------------------------------------------------------
(* The refreshes.  _refreshPromise is one: only one run is ever in flight. *)
TheRun == CHOOSE x \in Runs : TRUE

TokenType ==
    /\ token \in Nat /\ minted \in Nat /\ asked \subseteq Callers \cup Runs
    /\ answer \in [Callers \cup Runs -> Nat] /\ pc \in [Callers -> PCs]

(* Nothing was minted beyond minted; one run is in flight; no request      *)
(* recovers on its own before recovered says so; and the JWT on its way    *)
(* back to the session is newer than the client's.                         *)
TokenOrder ==
    /\ token <= minted /\ \A x \in Callers \cup Runs : answer[x] <= minted
    /\ Refreshing \subseteq {TheRun}
    /\ \A c \in Callers : pc[c] \in {"recover", "install"} => recovered
    /\ recovered \/ closing = "closed" \/ \A x \in Runs : answer[x] # 0 => answer[x] >= token

TokenInv == TokenType /\ TokenOrder

LEMMA TheRunIn == TheRun \in Runs
BY DEF TheRun

(* A call of refresh() starts a run only when none is in flight. *)
LEMMA AskedShape ==
    ASSUME TokenInv, NEW c \in Callers, refresh(c), UNCHANGED answer
    PROVE  /\ asked' \subseteq Callers \cup Runs /\ Refreshing' \subseteq {TheRun}
           /\ pc' = [pc EXCEPT ![c] = "fresh"]
<1>1. CASE \E x \in Refreshing : Awaits(c, x) /\ UNCHANGED asked
  BY <1>1 DEF TokenInv, TokenType, TokenOrder, Refreshing, Awaits
<1>2. CASE Refreshing = {} /\ asked' = asked \cup {TheRun} /\ Awaits(c, TheRun)
  BY <1>2, TheRunIn DEF TokenInv, TokenType, Refreshing, Awaits
<1> QED BY <1>1, <1>2 DEF refresh, TheRun

(* A step that leaves the tokens alone, starts no run but by refresh(), and *)
(* takes no call to a recovery.                                             *)
Quiet ==
    /\ UNCHANGED <<token, answer, minted, recovered>>
    /\ asked' \subseteq Callers \cup Runs /\ Refreshing' \subseteq {TheRun}
    /\ closing = "closed" => closing' = "closed"
    /\ pc' \in [Callers -> PCs]
    /\ \A c \in Callers : pc'[c] \in {"recover", "install"} => pc[c] \in {"recover", "install"}

LEMMA QuietKeeps == ASSUME TokenInv, Quiet PROVE TokenInv' /\ token' >= token
BY DEF TokenInv, TokenType, TokenOrder, Quiet

(* What a step that asks for nothing does to the runs in flight. *)
LEMMA SameRuns ==
    ASSUME TokenInv, asked' \subseteq asked, UNCHANGED answer
    PROVE  asked' \subseteq Callers \cup Runs /\ Refreshing' \subseteq {TheRun}
BY DEF TokenInv, TokenType, TokenOrder, Refreshing

LEMMA ProceedQuiet ==
    ASSUME TokenInv, NEW c \in Callers, NEW o, NEW h, Proceed(c, o, h)
    PROVE  /\ pc' \in [Callers -> PCs] /\ asked' = asked
           /\ \A d \in Callers : pc'[d] \in {"recover", "install"} => pc[d] \in {"recover", "install"}
<1>1. pc' = [pc EXCEPT ![c] = "sent"] \/ pc' = [pc EXCEPT ![c] = "idle"]
  BY DEF Proceed, Send, Finish
<1> QED BY <1>1 DEF TokenInv, TokenType, PCs, Proceed

LEMMA EnsureQuiet ==
    ASSUME TokenInv, NEW c \in Callers, NEW o, NEW h, ensureFresh(c, o, h), UNCHANGED answer
    PROVE  /\ pc' \in [Callers -> PCs]
           /\ asked' \subseteq Callers \cup Runs /\ Refreshing' \subseteq {TheRun}
           /\ \A d \in Callers : pc'[d] \in {"recover", "install"} => pc[d] \in {"recover", "install"}
<1>1. CASE isNearExpiry
  BY <1>1, AskedShape DEF ensureFresh, TokenInv, TokenType, PCs
<1>2. CASE ~isNearExpiry
  BY <1>2, ProceedQuiet, SameRuns DEF ensureFresh
<1> QED BY <1>1, <1>2

LEMMA CallsQuiet ==
    ASSUME TokenInv, NEW c \in Callers,
           \/ Call(c) \/ Refresh(c) \/ close(c) \/ Joined(c) \/ Refreshed(c)
    PROVE  Quiet
<1>1. CASE Call(c)
  BY <1>1, EnsureQuiet DEF Call, Begin, serverVars, Quiet
<1>2. CASE Refresh(c)
  BY <1>2, AskedShape DEF Refresh, Begin, serverVars, Quiet, TokenInv, TokenType, PCs
<1>3. CASE close(c)
  <2>1. /\ UNCHANGED <<token, answer, asked, minted, recovered>> /\ closing = "closed" => closing' = closing
    BY <1>3 DEF close, Begin, serverVars
  <2>2. pc' = [pc EXCEPT ![c] = "sent"] \/ pc' = [pc EXCEPT ![c] = "join"]
    BY <1>3 DEF close, Send
  <2> QED BY <1>3, <2>1, <2>2, SameRuns DEF close, Begin, serverVars, Quiet, TokenInv, TokenType, PCs
<1>4. CASE Joined(c)
  <2>1. pc' = [pc EXCEPT ![c] = "idle"] /\ UNCHANGED <<token, answer, asked, minted, recovered, closing>>
    BY <1>4 DEF Joined, Finish, jwtVars, serverVars
  <2> QED BY <2>1, SameRuns DEF Quiet, TokenInv, TokenType, PCs
<1>5. CASE Refreshed(c)
  <2>1. UNCHANGED <<token, answer, minted, recovered, closing>>
    BY <1>5 DEF Refreshed, serverVars
  <2>2. CASE Proceed(c, op[c], hitl[c])
    BY <2>1, <2>2, ProceedQuiet, SameRuns DEF Quiet
  <2>3. CASE pc' = [pc EXCEPT ![c] = "idle"] /\ UNCHANGED asked
    BY <2>1, <2>3, SameRuns DEF Quiet, TokenInv, TokenType, PCs
  <2> QED BY <1>5, <2>2, <2>3 DEF Refreshed, Finish
<1> QED BY <1>1, <1>2, <1>3, <1>4, <1>5

LEMMA ApprovalsQuiet ==
    ASSUME TokenInv, NEW c \in Callers,
           \/ Abort(c) \/ Created(c) \/ Decide(c) \/ PollAnswered(c) \/ Awake(c)
    PROVE  Quiet
<1>1. CASE Abort(c) \/ Decide(c)
  BY <1>1, SameRuns DEF Abort, Decide, jwtVars, callVars, serverVars, Quiet, TokenInv, TokenType
<1>2. CASE Created(c) \/ Awake(c)
  <2>1. UNCHANGED <<token, answer, minted, recovered, closing>>
    BY <1>2 DEF Created, Awake, serverVars
  <2>2. CASE pc' = [pc EXCEPT ![c] = "idle"] /\ UNCHANGED asked
    BY <2>1, <2>2, SameRuns DEF Quiet, TokenInv, TokenType, PCs
  <2>3. ASSUME NEW h, ensureFresh(c, "poll", h) PROVE Quiet
    BY <2>1, <2>3, EnsureQuiet DEF Quiet
  <2> QED BY <1>2, <2>2, <2>3 DEF Created, Awake, LoopTop, Finish
<1>3. CASE PollAnswered(c)
  <2>1. UNCHANGED <<token, answer, asked, minted, recovered, closing>>
    BY <1>3 DEF PollAnswered, jwtVars, serverVars
  <2>2. pc' = [pc EXCEPT ![c] = "idle"] \/ pc' = [pc EXCEPT ![c] = "sleep"]
    BY <1>3 DEF PollAnswered, Polled, Decided, Pause, Finish
  <2> QED BY <2>1, <2>2, SameRuns DEF Quiet, TokenInv, TokenType, PCs
<1> QED BY <1>1, <1>2, <1>3

(* The end of a request that may have been close()'s. *)
LEMMA EndKeeps ==
    ASSUME TokenInv, NEW c \in Callers, RequestFails(c) \/ Answered(c)
    PROVE  TokenInv' /\ (token' >= token \/ closing' = "closed")
<1>1. /\ UNCHANGED <<answer, minted, recovered>> /\ asked' \subseteq asked
      /\ pc' = [pc EXCEPT ![c] = "idle"]
  BY DEF RequestFails, Answered, Ended, Finish, serverVars
<1>2. UNCHANGED <<token, closing>> \/ (token' = 0 /\ closing' = "closed")
  BY DEF RequestFails, Answered, Ended
<1>3. asked' \subseteq Callers \cup Runs /\ Refreshing' \subseteq {TheRun}
  BY <1>1, SameRuns
<1>4. /\ pc' \in [Callers -> PCs]
      /\ \A d \in Callers : pc'[d] \in {"recover", "install"} => pc[d] \in {"recover", "install"}
  BY <1>1 DEF TokenInv, TokenType, PCs
<1> QED BY <1>1, <1>2, <1>3, <1>4 DEF TokenInv, TokenType, TokenOrder

(* A 401, and the recovery from it: its own run of refreshFn. *)
LEMMA RecoverKeeps ==
    ASSUME TokenInv, NEW c \in Callers, Unauthorized(c) \/ tokenRefreshFn(c) \/ Install(c)
    PROVE  TokenInv' /\ (token' >= token \/ recovered)
<1>0. c \notin Runs
  OBVIOUS
<1>1. CASE Unauthorized(c)
  <2>1. /\ asked' = asked \cup {c} /\ recovered' = TRUE /\ pc' = [pc EXCEPT ![c] = "recover"]
        /\ UNCHANGED <<token, answer, minted>>
    BY <1>1 DEF Unauthorized
  <2>2. Refreshing' = Refreshing
    BY <1>0, <2>1 DEF Refreshing
  <2> QED BY <2>1, <2>2 DEF TokenInv, TokenType, TokenOrder, PCs
<1>2. CASE tokenRefreshFn(c)
  <2>1. /\ pc' = [pc EXCEPT ![c] = "install"] /\ pc[c] = "recover"
        /\ UNCHANGED <<token, asked, answer, minted, recovered, closing>>
    BY <1>2 DEF tokenRefreshFn, serverVars
  <2> QED BY <2>1 DEF TokenInv, TokenType, TokenOrder, Refreshing, PCs
<1>3. CASE Install(c)
  <2>1. /\ pc' = [pc EXCEPT ![c] = "sent"] /\ pc[c] = "install"
        /\ token' = answer[c] /\ answer' = [answer EXCEPT ![c] = 0]
        /\ UNCHANGED <<asked, minted, recovered, closing>>
    BY <1>3 DEF Install, serverVars
  <2>2. recovered
    BY <2>1 DEF TokenInv, TokenOrder
  <2>3. Refreshing' = Refreshing
    BY <1>0, <2>1 DEF Refreshing, TokenInv, TokenType
  <2> QED BY <2>1, <2>2, <2>3 DEF TokenInv, TokenType, TokenOrder, PCs
<1> QED BY <1>1, <1>2, <1>3

(* Central mints, and the run in flight brings the JWT or fails. *)
LEMMA ServerKeeps ==
    ASSUME TokenInv,
           \/ \E x \in Callers \cup Runs : Mint(x)
           \/ \E x \in Runs : doRefresh(x) \/ RefreshFails(x)
           \/ Age \/ Tick \/ UNCHANGED vars
    PROVE  TokenInv' /\ (token' >= token \/ closing' = "closed" \/ recovered)
<1>1. ASSUME NEW x \in Callers \cup Runs, Mint(x)
      PROVE  TokenInv' /\ token' >= token
  <2>1. /\ x \in asked /\ minted' = minted + 1 /\ answer' = [answer EXCEPT ![x] = minted + 1]
        /\ asked' = asked \ {x} /\ UNCHANGED <<token, pc, recovered, closing>>
    BY <1>1 DEF Mint, callVars
  <2>2. Refreshing' \subseteq Refreshing
    BY <2>1 DEF Refreshing, TokenInv, TokenType
  <2>3. /\ answer' \in [Callers \cup Runs -> Nat] /\ token <= minted + 1
        /\ \A y \in Callers \cup Runs : answer'[y] <= minted + 1
    BY <2>1 DEF TokenInv, TokenType, TokenOrder
  <2>4. recovered \/ closing = "closed" \/ \A y \in Runs : answer'[y] # 0 => answer'[y] >= token
    BY <2>1 DEF TokenInv, TokenType, TokenOrder
  <2> QED BY <2>1, <2>2, <2>3, <2>4 DEF TokenInv, TokenType, TokenOrder
<1>2. ASSUME NEW x \in Runs, doRefresh(x)
      PROVE  TokenInv' /\ (token' >= token \/ closing' = "closed" \/ recovered)
  <2>1. /\ answer[x] # 0 /\ token' = answer[x] /\ answer' = [answer EXCEPT ![x] = 0]
        /\ pc' = Wakes(x, "renewed") /\ UNCHANGED <<asked, minted, recovered, closing>>
    BY <1>2 DEF doRefresh, serverVars
  <2>2. x = TheRun /\ Refreshing' \subseteq {TheRun}
    BY <2>1 DEF Refreshing, TokenInv, TokenType, TokenOrder
  <2>3. \A y \in Runs : answer'[y] = 0
    BY <2>1, <2>2 DEF Refreshing, TokenInv, TokenType, TokenOrder
  <2>4. /\ pc' \in [Callers -> PCs]
        /\ \A c \in Callers : pc'[c] \in {"recover", "install"} => pc[c] \in {"recover", "install"}
    BY <2>1 DEF Wakes, TokenInv, TokenType, PCs
  <2> QED BY <2>1, <2>2, <2>3, <2>4 DEF TokenInv, TokenType, TokenOrder
<1>3. ASSUME NEW x \in Runs, RefreshFails(x) PROVE TokenInv' /\ token' >= token
  <2>1. /\ asked' \subseteq asked /\ pc' = Wakes(x, "unrenewed")
        /\ UNCHANGED <<token, answer, minted, recovered, closing>>
    BY <1>3 DEF RefreshFails, serverVars
  <2>2. Quiet
    BY <2>1, SameRuns DEF Quiet, Wakes, TokenInv, TokenType, PCs
  <2> QED BY <2>2, QuietKeeps
<1>4. CASE Age \/ Tick \/ UNCHANGED vars
  <2>1. UNCHANGED <<token, answer, asked, minted, recovered, closing, pc>>
    BY <1>4 DEF Age, Tick, vars, jwtVars, callVars, serverVars
  <2> QED BY <2>1 DEF TokenInv, TokenType, TokenOrder, Refreshing
<1> QED BY <1>1, <1>2, <1>3, <1>4

(* Concurrent refreshes coalesce: the client's token is never replaced by  *)
(* one that was minted earlier, for any number of calls, until a request   *)
(* recovers from a 401 by itself or the session is closed.                 *)
THEOREM TokenNeverBack == Spec => TokenMonotone
<1>1. Init => TokenInv
  <2> SUFFICES ASSUME Init PROVE TokenInv
    OBVIOUS
  <2>1. TokenType
    BY DEF Init, TokenType, PCs
  <2>2. TokenOrder
    BY DEF Init, TokenOrder, Refreshing
  <2> QED BY <2>1, <2>2 DEF TokenInv
<1>2. TokenInv /\ [Next]_vars => TokenInv' /\ [token' >= token \/ closing' = "closed" \/ recovered]_vars
  BY CallsQuiet, ApprovalsQuiet, QuietKeeps, EndKeeps, RecoverKeeps, ServerKeeps DEF Next
<1> QED BY <1>1, <1>2, PTL DEF Spec, TokenMonotone
-----------------------------------------------------------------------------
(* The enrichment client. *)

HIDE SessionAssumption
USE EnrichAssumption

Stages == {"free", "net", "settling"}
Kinds  == {"none", "value", "null", "error"}
Given  == [kind : Kinds, age : Nat]

EnrichType ==
    /\ cache \in [Keys -> [kind : Kinds, age : Nat, left : Nat]]
    /\ fetch \in [Fetches -> [stage : Stages, key : Keys \cup {NoKey}, bg : BOOLEAN, hit : Nat, res : Given]]
    /\ at \in [Askers -> {"idle", "await", "resume"}]
    /\ key \in [Askers -> Keys \cup {NoKey}] /\ got \in [Askers -> Given]

(* A fetch in flight is for a key, and so is whoever waits for it or was woken. *)
Keyed ==
    /\ \A f \in Fetches : fetch[f].stage # "free" => fetch[f].key \in Keys
    /\ \A c \in Askers : at[c] # "idle" => key[c] \in Keys

(* What the webhook gave is new until a failed renewal is swallowed, and a *)
(* failure is thrown when fail_closed.                                     *)
Fresh ==
    /\ \A f \in Fetches : fetch[f].res.kind = "value" => fetch[f].res.age = 0
    /\ swallowed \/ \A c \in Askers : got[c].kind = "value" => got[c].age = 0
    /\ mode = "fail_closed" => \A f \in Fetches : fetch[f].res.kind # "null"

EnrichInv == EnrichType /\ Keyed /\ OneFetch /\ Fresh /\ AgeBounded
-----------------------------------------------------------------------------
LEMMA EnrichStart == ASSUME EnrichInit PROVE EnrichInv
<1>1. EnrichType
  BY DEF EnrichInit, EnrichType, Unused, None, Result, Stages, Kinds, Given
<1>2. Keyed /\ OneFetch /\ Fresh /\ AgeBounded
  BY DEF EnrichInit, Keyed, OneFetch, InFlight, Fresh, AgeBounded, Unused, None, Result
<1> QED BY <1>1, <1>2 DEF EnrichInv

(* A failure is an error or a null, and no null when fail_closed. *)
LEMMA FailureKind ==
    /\ failureResult \in Given /\ failureResult.kind # "value"
    /\ mode = "fail_closed" => failureResult.kind # "null"
BY DEF failureResult, Result, Given, Kinds

(* What starting a fetch does: a slot that was free now holds a fetch of   *)
(* the key, which has brought nothing or a failure.                        *)
LEMMA Started ==
    ASSUME EnrichInv, NEW k \in Keys, NEW bg \in BOOLEAN, Start(k, bg)
    PROVE  \E f \in Fetches :
              /\ fetch[f].stage = "free" /\ fetch'[f].stage # "free" /\ fetch'[f].key = k
              /\ fetch' \in [Fetches -> [stage : Stages, key : Keys \cup {NoKey}, bg : BOOLEAN, hit : Nat, res : Given]]
              /\ fetch'[f].res.kind # "value"
              /\ mode = "fail_closed" => fetch'[f].res.kind # "null"
              /\ \A g \in Fetches \ {f} : fetch'[g] = fetch[g]
<1>1. PICK f : f = CHOOSE x \in Free : TRUE  OBVIOUS
<1>2. f \in Free  BY <1>1 DEF Start
<1>3. fetchEnrichment(f, k, bg)  BY <1>1 DEF Start
<1>4. f \in Fetches /\ fetch[f].stage = "free"  BY <1>2 DEF Free
<1>5. PICK r : r = failureResult  OBVIOUS
<1>6. r \in Given /\ r.kind # "value" /\ (mode = "fail_closed" => r.kind # "null")
  BY <1>5, FailureKind
<1>7. None \in Given /\ None.kind = "none"  BY DEF None, Result, Given, Kinds
<1>8. cache[k].age \in Nat  BY DEF EnrichInv, EnrichType
<1>9. \E may \in BOOLEAN : fetch' = [fetch EXCEPT ![f] =
              [stage |-> IF may THEN "net" ELSE "settling", key |-> k, bg |-> bg,
               hit |-> IF bg THEN cache[k].age ELSE 0,
               res |-> IF may THEN None ELSE r]]
  BY <1>3, <1>5 DEF fetchEnrichment
<1> f \in Fetches  BY <1>4
<1> WITNESS f \in Fetches
<1> QED BY <1>4, <1>6, <1>7, <1>8, <1>9 DEF EnrichInv, EnrichType, Stages

(* IN_FLIGHT after a start. *)
LEMMA StartKeeps ==
    ASSUME EnrichInv, NEW k \in Keys, NEW bg \in BOOLEAN, Start(k, bg), InFlight(k) = {},
           UNCHANGED <<mode, cache, got, swallowed>>,
           \/ UNCHANGED <<at, key>>
           \/ \E c \in Askers : at' = [at EXCEPT ![c] = "await"] /\ key' = [key EXCEPT ![c] = k]
    PROVE  EnrichInv'
<1>1. PICK f \in Fetches :
              /\ fetch[f].stage = "free" /\ fetch'[f].stage # "free" /\ fetch'[f].key = k
              /\ fetch' \in [Fetches -> [stage : Stages, key : Keys \cup {NoKey}, bg : BOOLEAN, hit : Nat, res : Given]]
              /\ fetch'[f].res.kind # "value"
              /\ mode = "fail_closed" => fetch'[f].res.kind # "null"
              /\ \A g \in Fetches \ {f} : fetch'[g] = fetch[g]
  BY Started
<1>2. EnrichType'  BY <1>1 DEF EnrichInv, EnrichType
<1>3. Keyed'  BY <1>1 DEF EnrichInv, Keyed, EnrichType
<1>4. OneFetch'
  <2> SUFFICES ASSUME NEW m \in Keys
               PROVE  /\ \A g, h \in InFlight(m)' : g = h
                      /\ (\E c \in Askers : at'[c] = "await" /\ key'[c] = m) => InFlight(m)' # {}
    BY DEF OneFetch
  <2>1. CASE m = k
    <3>1. InFlight(m)' = {f}  BY <1>1, <2>1 DEF InFlight
    <3> QED BY <3>1
  <2>2. CASE m # k
    <3>1. InFlight(m)' = InFlight(m)  BY <1>1, <2>2 DEF InFlight
    <3>2. (\E c \in Askers : at'[c] = "await" /\ key'[c] = m) => \E c \in Askers : at[c] = "await" /\ key[c] = m
      BY <2>2 DEF EnrichInv, EnrichType
    <3> QED BY <3>1, <3>2 DEF EnrichInv, OneFetch
  <2> QED BY <2>1, <2>2
<1>5. Fresh'  BY <1>1 DEF EnrichInv, Fresh
<1>6. AgeBounded'  BY DEF EnrichInv, AgeBounded
<1> QED BY <1>2, <1>3, <1>4, <1>5, <1>6 DEF EnrichInv

LEMMA ResolveKeeps ==
    ASSUME EnrichInv, NEW c \in Askers, resolveEnrichment(c)
    PROVE  EnrichInv'
<1>1. UNCHANGED <<mode, cache, got, swallowed>>  BY DEF resolveEnrichment
<1>2. PICK k \in Keys :
        \/ Live(k) /\ maybeBackgroundRefresh(k) /\ UNCHANGED <<at, key>>
        \/ /\ IF InFlight(k) # {} THEN NoFetch ELSE Start(k, FALSE)
           /\ at' = [at EXCEPT ![c] = "await"] /\ key' = [key EXCEPT ![c] = k]
  BY DEF resolveEnrichment
<1>3. CASE InFlight(k) = {} /\ Start(k, TRUE) /\ UNCHANGED <<at, key>>
  BY <1>1, <1>3, StartKeeps
<1>4. CASE /\ InFlight(k) = {} /\ Start(k, FALSE)
           /\ at' = [at EXCEPT ![c] = "await"] /\ key' = [key EXCEPT ![c] = k]
  BY <1>1, <1>4, StartKeeps
<1>5. CASE NoFetch /\ UNCHANGED <<at, key>>
  BY <1>1, <1>5 DEF NoFetch, EnrichInv, EnrichType, Keyed, OneFetch, InFlight, Fresh, AgeBounded
<1>6. CASE /\ InFlight(k) # {} /\ NoFetch
           /\ at' = [at EXCEPT ![c] = "await"] /\ key' = [key EXCEPT ![c] = k]
  <2>1. fetch' = fetch  BY <1>6 DEF NoFetch
  <2>2. EnrichType' /\ Keyed' /\ Fresh' /\ AgeBounded'
    BY <1>1, <1>6, <2>1 DEF EnrichInv, EnrichType, Keyed, Fresh, AgeBounded
  <2>3. \A m \in Keys : InFlight(m)' = InFlight(m)  BY <2>1 DEF InFlight
  <2>4. \A d \in Askers : at'[d] = "await" => key'[d] = k \/ (at[d] = "await" /\ key'[d] = key[d])
    BY <1>6 DEF EnrichInv, EnrichType
  <2>5. OneFetch'  BY <1>6, <2>3, <2>4 DEF EnrichInv, OneFetch
  <2> QED BY <2>2, <2>5 DEF EnrichInv
<1> QED BY <1>2, <1>3, <1>4, <1>5, <1>6 DEF maybeBackgroundRefresh

(* A fetch whose body ended, well-formed or not. *)
LEMMA SettlingKeeps ==
    ASSUME EnrichInv, NEW f \in Fetches, NEW r \in Given, fetch[f].stage = "net", Settling(f, r),
           r.kind = "value" => r.age = 0, mode = "fail_closed" => r.kind # "null",
           UNCHANGED <<mode, cache, callerVars, swallowed>>
    PROVE  EnrichInv'
<1>1. /\ fetch'[f].stage = "settling" /\ fetch'[f].key = fetch[f].key /\ fetch'[f].res = r
      /\ \A g \in Fetches \ {f} : fetch'[g] = fetch[g]
  BY DEF EnrichInv, EnrichType, Settling
<1>2. EnrichType'  BY DEF EnrichInv, EnrichType, Settling, Stages, callerVars
<1>3. Keyed' /\ Fresh' /\ AgeBounded'
  BY <1>1 DEF EnrichInv, Keyed, Fresh, AgeBounded, callerVars
<1>4. \A m \in Keys : InFlight(m)' = InFlight(m)  BY <1>1 DEF InFlight
<1>5. OneFetch'  BY <1>4 DEF EnrichInv, OneFetch, callerVars
<1> QED BY <1>2, <1>3, <1>5 DEF EnrichInv

LEMMA FetchAnsweredKeeps ==
    ASSUME EnrichInv, NEW f \in Fetches, FetchAnswered(f)  PROVE EnrichInv'
<1>1. PICK r : r = Result("value", 0)  OBVIOUS
<1>2. r \in Given /\ r.age = 0 /\ r.kind = "value"  BY <1>1 DEF Result, Given, Kinds
<1> QED BY <1>1, <1>2, SettlingKeeps DEF FetchAnswered

LEMMA FetchFailedKeeps ==
    ASSUME EnrichInv, NEW f \in Fetches, FetchFailed(f)  PROVE EnrichInv'
<1>1. PICK r : r = failureResult  OBVIOUS
<1> QED BY <1>1, FailureKind, SettlingKeeps DEF FetchFailed

(* The promise of a fetch settles: whoever awaits the key goes on with     *)
(* what it brought.                                                        *)
LEMMA SettleKeeps ==
    ASSUME EnrichInv, NEW f \in Fetches, Settle(f)  PROVE EnrichInv'
<1> DEFINE k == fetch[f].key
           waits(c) == at[c] = "await" /\ key[c] = k
<1>1. k \in Keys /\ f \in InFlight(k)  BY DEF EnrichInv, Keyed, Settle, InFlight
<1>2. PICK o : o = FetchOutcome(f)  OBVIOUS
<1>3. /\ o \in Given
      /\ o.kind = "value" /\ ~(fetch[f].bg /\ fetch[f].res.kind = "error") => o.age = 0
      /\ mode = "fail_closed" => o.kind # "null"
  BY <1>2 DEF FetchOutcome, Hit, Result, EnrichInv, EnrichType, Fresh, Given, Kinds
<1>4. /\ at' = [c \in Askers |-> IF waits(c) THEN "resume" ELSE at[c]]
      /\ got' = [c \in Askers |-> IF waits(c) THEN o ELSE got[c]]
      /\ UNCHANGED <<mode, key>>
  BY <1>2 DEF Settle
<1>5. swallowed' = (swallowed \/ ((\E c \in Askers : waits(c)) /\ fetch[f].bg /\ fetch[f].res.kind = "error"))
  <2>1. {c \in Askers : waits(c)} # {} <=> \E c \in Askers : waits(c)  OBVIOUS
  <2> QED BY <2>1 DEF Settle
<1>6. /\ fetch'[f] = Unused /\ \A g \in Fetches \ {f} : fetch'[g] = fetch[g]
      /\ fetch' \in [Fetches -> [stage : Stages, key : Keys \cup {NoKey}, bg : BOOLEAN, hit : Nat, res : Given]]
  BY DEF Settle, EnrichInv, EnrichType, Unused, None, Result, Stages, Given, Kinds
<1>7. /\ Unused.stage = "free" /\ Unused.res.kind = "none"  BY DEF Unused, None, Result
<1>8. PICK r : r = fetch[f].res  OBVIOUS
<1>9. r \in Given /\ (r.kind = "value" => r.age = 0) /\ (mode = "fail_closed" => r.kind # "null")
  BY <1>8 DEF EnrichInv, EnrichType, Fresh
<1>10. cache' = cache \/ cache' = [cache EXCEPT ![k] = [kind |-> r.kind, age |-> r.age,
                                   left |-> IF r.kind = "null" THEN NegTtl ELSE Ttl]]
  BY <1>8 DEF Settle, Renewed, CacheSet
<1>11. EnrichType'
  <2>1. cache' \in [Keys -> [kind : Kinds, age : Nat, left : Nat]]
    BY <1>1, <1>9, <1>10 DEF EnrichInv, EnrichType, Given
  <2>2. /\ at' \in [Askers -> {"idle", "await", "resume"}] /\ got' \in [Askers -> Given]
        /\ key' \in [Askers -> Keys \cup {NoKey}]
    BY <1>3, <1>4 DEF EnrichInv, EnrichType
  <2> QED BY <1>6, <2>1, <2>2 DEF EnrichType
<1>12. Keyed'
  BY <1>4, <1>6, <1>7 DEF EnrichInv, Keyed, EnrichType
<1>13. OneFetch'
  <2> SUFFICES ASSUME NEW m \in Keys
               PROVE  /\ \A g, h \in InFlight(m)' : g = h
                      /\ (\E c \in Askers : at'[c] = "await" /\ key'[c] = m) => InFlight(m)' # {}
    BY DEF OneFetch
  <2>1. CASE m = k
    <3>1. InFlight(m)' = {}
      BY <1>1, <1>6, <1>7, <2>1 DEF EnrichInv, OneFetch, InFlight
    <3>2. \A c \in Askers : ~(at'[c] = "await" /\ key'[c] = m)  BY <1>4, <2>1
    <3> QED BY <3>1, <3>2
  <2>2. CASE m # k
    <3>1. InFlight(m)' = InFlight(m)  BY <1>6, <1>7, <2>2 DEF InFlight
    <3>2. \A c \in Askers : at'[c] = "await" => at[c] = "await" /\ key'[c] = key[c]  BY <1>4
    <3> QED BY <3>1, <3>2 DEF EnrichInv, OneFetch
  <2> QED BY <2>1, <2>2
<1>14. Fresh'
  <2>1. \A g \in Fetches : fetch'[g].res.kind = "value" => fetch'[g].res.age = 0
    BY <1>6, <1>7 DEF EnrichInv, Fresh
  <2>2. swallowed' \/ \A c \in Askers : got'[c].kind = "value" => got'[c].age = 0
    BY <1>3, <1>4, <1>5 DEF EnrichInv, Fresh
  <2>3. mode' = "fail_closed" => \A g \in Fetches : fetch'[g].res.kind # "null"
    BY <1>4, <1>6, <1>7 DEF EnrichInv, Fresh
  <2> QED BY <2>1, <2>2, <2>3 DEF Fresh
<1>15. AgeBounded'
  <2>1. swallowed \/ \A m \in Keys : cache'[m].kind = "value" => cache'[m].age + cache'[m].left = Ttl
    BY <1>1, <1>9, <1>10 DEF EnrichInv, AgeBounded, EnrichType
  <2>2. swallowed => swallowed'  BY <1>5
  <2>3. mode = "fail_closed" => \A m \in Keys : cache'[m].kind # "null"
    BY <1>1, <1>9, <1>10 DEF EnrichInv, AgeBounded, EnrichType
  <2>4. mode = "fail_closed" => \A c \in Askers : got'[c].kind # "null"
    BY <1>3, <1>4 DEF EnrichInv, AgeBounded
  <2> QED BY <1>4, <2>1, <2>2, <2>3, <2>4 DEF AgeBounded
<1> QED BY <1>11, <1>12, <1>13, <1>14, <1>15 DEF EnrichInv

LEMMA ResumeKeeps ==
    ASSUME EnrichInv, NEW c \in Askers, Resume(c)  PROVE EnrichInv'
<1>1. PICK k : k = key[c]  OBVIOUS
<1>2. k \in Keys  BY <1>1 DEF EnrichInv, Keyed, Resume
<1>3. PICK r : r = got[c]  OBVIOUS
<1>4. /\ r \in Given /\ (swallowed \/ (r.kind = "value" => r.age = 0))
      /\ mode = "fail_closed" => r.kind # "null"
  BY <1>3 DEF EnrichInv, EnrichType, Fresh, AgeBounded
<1>5. cache' = cache \/ cache' = [cache EXCEPT ![k] = [kind |-> r.kind, age |-> r.age,
                                   left |-> IF r.kind = "null" THEN NegTtl ELSE Ttl]]
  BY <1>1, <1>3 DEF Resume, CacheSet
<1>6. /\ at' = [at EXCEPT ![c] = "idle"] /\ key' = [key EXCEPT ![c] = NoKey]
      /\ got' = [got EXCEPT ![c] = None] /\ UNCHANGED <<mode, fetch, swallowed>>
  BY DEF Resume
<1>7. None \in Given /\ None.kind = "none"  BY DEF None, Result, Given, Kinds
<1>8. EnrichType'
  BY <1>2, <1>4, <1>5, <1>6, <1>7 DEF EnrichInv, EnrichType, Given
<1>9. Keyed' /\ Fresh'
  BY <1>6, <1>7 DEF EnrichInv, Keyed, Fresh, EnrichType
<1>10. OneFetch'
  <2>1. \A m \in Keys : InFlight(m)' = InFlight(m)  BY <1>6 DEF InFlight
  <2>2. \A d \in Askers : at'[d] = "await" => at[d] = "await" /\ key'[d] = key[d]
    BY <1>6 DEF EnrichInv, EnrichType
  <2> QED BY <2>1, <2>2 DEF EnrichInv, OneFetch
<1>11. AgeBounded'
  <2>1. swallowed \/ \A m \in Keys : cache'[m].kind = "value" => cache'[m].age + cache'[m].left = Ttl
    BY <1>2, <1>4, <1>5 DEF EnrichInv, AgeBounded, EnrichType
  <2>2. mode = "fail_closed" => \A m \in Keys : cache'[m].kind # "null"
    BY <1>2, <1>4, <1>5 DEF EnrichInv, AgeBounded, EnrichType
  <2>3. mode = "fail_closed" => \A d \in Askers : got'[d].kind # "null"
    BY <1>6, <1>7 DEF EnrichInv, AgeBounded, EnrichType
  <2> QED BY <1>6, <2>1, <2>2, <2>3 DEF AgeBounded
<1> QED BY <1>8, <1>9, <1>10, <1>11 DEF EnrichInv

(* An entry that grows older has that much less to live. *)
LEMMA EnrichTickKeeps ==
    ASSUME EnrichInv, EnrichTick  PROVE EnrichInv'
<1>1. \A n, top \in Nat : More(n, top) \in Nat /\ (n < top => More(n, top) = n + 1)  BY DEF More
<1>2. UNCHANGED <<mode, at, key, got, swallowed>>  BY DEF EnrichTick, callerVars
<1>3. ASSUME NEW k \in Keys
      PROVE  /\ cache'[k] \in [kind : Kinds, age : Nat, left : Nat]
             /\ cache'[k].kind \in {"none", cache[k].kind}
             /\ cache[k].age + cache[k].left = Ttl /\ cache'[k].kind = "value" => cache'[k].age + cache'[k].left = Ttl
  <2>1. cache[k] \in [kind : Kinds, age : Nat, left : Nat]  BY DEF EnrichInv, EnrichType
  <2>2. CASE cache[k].left <= 1
    <3>1. cache'[k] = [kind |-> "none", age |-> 0, left |-> 0]  BY <2>2 DEF EnrichTick
    <3> QED BY <3>1 DEF Kinds
  <2>3. CASE cache[k].left > 1
    <3>1. PICK n : n = More(cache[k].age, MaxAge)  OBVIOUS
    <3>2. cache[k].age \in Nat /\ cache[k].left \in Nat /\ MaxAge \in Nat  BY <2>1
    <3>3. n \in Nat /\ (cache[k].age < MaxAge => n = cache[k].age + 1)  BY <1>1, <3>1, <3>2
    <3>4. cache'[k] = [kind |-> cache[k].kind, age |-> n, left |-> cache[k].left - 1]
      <4>1. PICK e \in [kind : Kinds, age : Nat, left : Nat] : e = cache[k]  BY <2>1
      <4>2. cache'[k] = [e EXCEPT !.left = @ - 1, !.age = More(@, MaxAge)]
        <5>1. ~(cache[k].left <= 1)  BY <2>3, <3>2
        <5>2. cache'[k] = [cache[k] EXCEPT !.left = @ - 1, !.age = More(@, MaxAge)]
          BY <5>1, Zenon DEF EnrichTick
        <5> QED BY <4>1, <5>2
      <4>3. n = More(e.age, MaxAge)  BY <3>1, <4>1
      <4> QED BY <4>1, <4>2, <4>3
    <3>5. cache[k].age + cache[k].left = Ttl => n = cache[k].age + 1
      BY <2>3, <3>2, <3>3
    <3>6. cache[k].left - 1 \in Nat /\ cache[k].kind \in Kinds  BY <2>1, <2>3
    <3> QED BY <3>2, <3>3, <3>4, <3>5, <3>6
  <2> QED BY <2>1, <2>2, <2>3
<1>4. ASSUME NEW f \in Fetches
      PROVE  /\ fetch'[f] \in [stage : Stages, key : Keys \cup {NoKey}, bg : BOOLEAN, hit : Nat, res : Given]
             /\ fetch'[f].stage = fetch[f].stage /\ fetch'[f].key = fetch[f].key /\ fetch'[f].res = fetch[f].res
  <2>1. fetch[f] \in [stage : Stages, key : Keys \cup {NoKey}, bg : BOOLEAN, hit : Nat, res : Given]
    BY DEF EnrichInv, EnrichType
  <2>2. PICK n \in Nat : n = More(fetch[f].hit, MaxAge)  BY <1>1, <2>1
  <2>3. fetch'[f] = IF fetch[f].bg THEN [fetch[f] EXCEPT !.hit = n] ELSE fetch[f]
    BY <2>2 DEF EnrichTick
  <2> QED BY <2>1, <2>3
<1>5. EnrichType'
  <2>1. cache' = [k \in Keys |-> cache'[k]] /\ fetch' = [f \in Fetches |-> fetch'[f]]
    BY DEF EnrichTick
  <2> QED BY <1>2, <1>3, <1>4, <2>1 DEF EnrichInv, EnrichType
<1>6. Keyed' /\ Fresh'  BY <1>2, <1>4 DEF EnrichInv, Keyed, Fresh
<1>7. OneFetch'
  <2>1. \A m \in Keys : InFlight(m)' = InFlight(m)  BY <1>4 DEF InFlight
  <2> QED BY <1>2, <2>1 DEF EnrichInv, OneFetch
<1>8. AgeBounded'
  <2>1. swallowed \/ \A k \in Keys : cache'[k].kind = "value" => cache'[k].age + cache'[k].left = Ttl
    BY <1>3 DEF EnrichInv, AgeBounded
  <2>2. mode = "fail_closed" => \A k \in Keys : cache'[k].kind # "null"
    BY <1>3 DEF EnrichInv, AgeBounded
  <2> QED BY <1>2, <2>1, <2>2 DEF EnrichInv, AgeBounded
<1> QED BY <1>5, <1>6, <1>7, <1>8 DEF EnrichInv

LEMMA EvictKeeps ==
    ASSUME EnrichInv, NEW k \in Keys, Evict(k)  PROVE EnrichInv'
<1>1. /\ cache' = [cache EXCEPT ![k] = [kind |-> "none", age |-> 0, left |-> 0]]
      /\ UNCHANGED <<mode, fetch, at, key, got, swallowed>>
  BY DEF Evict, callerVars
<1>2. EnrichType' /\ Keyed' /\ Fresh' /\ AgeBounded'
  BY <1>1 DEF EnrichInv, EnrichType, Keyed, Fresh, AgeBounded, Kinds
<1>3. OneFetch'  BY <1>1 DEF EnrichInv, OneFetch, InFlight
<1> QED BY <1>2, <1>3 DEF EnrichInv

(* The state the invariant is about does not change. *)
LEMMA EnrichStutter ==
    ASSUME EnrichInv, UNCHANGED <<mode, cache, fetch, at, key, got, swallowed>>
    PROVE  EnrichInv'
BY DEF EnrichInv, EnrichType, Keyed, OneFetch, InFlight, Fresh, AgeBounded

(* The coalescing of fetches (client.ts, IN_FLIGHT) with the ages of the   *)
(* cache, for any number of callers, keys and slots and any ttl.           *)
THEOREM EnrichInvariant == EnrichSpec => []EnrichInv
<1>1. EnrichInit => EnrichInv  BY EnrichStart
<1>2. EnrichInv /\ [EnrichNext]_enrichVars => EnrichInv'
  <2> SUFFICES ASSUME EnrichInv, [EnrichNext]_enrichVars PROVE EnrichInv'  OBVIOUS
  <2>1. CASE EnrichNext
    BY <2>1, ResolveKeeps, ResumeKeeps, FetchAnsweredKeeps, FetchFailedKeeps, SettleKeeps, EvictKeeps,
       EnrichTickKeeps, EnrichStutter DEF EnrichNext, Flip, callerVars
  <2>2. CASE UNCHANGED enrichVars
    BY <2>2, EnrichStutter DEF enrichVars, callerVars
  <2> QED BY <2>1, <2>2
<1> QED BY <1>1, <1>2, PTL DEF EnrichSpec

(* resolveEnrichment and maybeBackgroundRefresh never send two requests    *)
(* for one key at a time, and whoever awaits a request is woken by it.     *)
THEOREM FetchIsOne == EnrichSpec => []OneFetch
<1>1. EnrichInv => OneFetch  BY DEF EnrichInv
<1> QED BY <1>1, EnrichInvariant, PTL

(* The cache never holds a value beyond its ttl, whatever renewals failed, *)
(* until a caller is given the hit of a failed renewal; and no null when   *)
(* on_failure is fail_closed.                                              *)
THEOREM AgesBounded == EnrichSpec => []AgeBounded
<1>1. EnrichInv => AgeBounded  BY DEF EnrichInv
<1> QED BY <1>1, EnrichInvariant, PTL
=============================================================================
