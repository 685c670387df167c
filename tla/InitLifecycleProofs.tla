------------------------ MODULE InitLifecycleProofs ------------------------
(***************************************************************************)
(* init() and shutdown(), for any number of concurrent calls, any options  *)
(* they are called with and any number of schema versions and refreshes.   *)
(***************************************************************************)
EXTENDS InitLifecycle, TLAPS

USE InitAssumption

Boot   == {"manifest", "ensure", "schema", "uuid"}
Late   == {"openai", "anthropic", "node", "anon"}
Runs   == {"none", "ok", "failed"} \cup Boot \cup Late
Subs   == {"none", "importing", "open", "failed", "closed"}

CallType == [pc : {"idle", "uds", "wait", "done"}, opts : Options \cup {NoOptions},
             joins : Callers \cup {None}, got : Callers \cup {None, "threw"}]
SubType  == [st : Subs, closed : BOOLEAN, current : Nat, pushed : Nat]
AskType  == [sub : Callers, got : Nat \cup {Fails, None}]

(* The variables hold values of their types. *)
InitType ==
    /\ SINGLETON \in Callers \cup {None} /\ IN_FLIGHT \in Callers \cup {None}
    /\ call \in [Callers -> CallType]
    /\ run \in [Callers -> Runs]
    /\ sub \in [Callers -> SubType]
    /\ wired \in [Planes -> Callers \cup {None}]
    /\ active \in Nat /\ live \in Nat
    /\ refresh \in Seq(AskType)

(* A call that has not started a run has none, a call that waits joined    *)
(* one that was started, and the options of a call that is about to start  *)
(* one, or has, are those it was called with.                              *)
CallState ==
    \A c \in Callers :
        /\ call[c].pc \in {"idle", "uds"} => run[c] = "none"
        /\ call[c].pc = "uds" => call[c].opts \in Options
        /\ call[c].pc = "wait" => call[c].joins \in Callers
        /\ run[c] \in Boot \cup Late =>
              call[c].pc = "wait" /\ call[c].joins = c /\ call[c].opts \in Options

(* A run that has not come to its subscriber, or never will, has no stream *)
(* and no patch.                                                           *)
Unwired ==
    \A c \in Callers : run[c] \in {"none", "failed"} \cup Boot =>
        sub[c].st = "none" /\ \A p \in Planes : wired[p] # c

(* One run at a time, and none once a runtime is published; IN_FLIGHT      *)
(* names a run until the call that started it has seen its end.            *)
OneRun ==
    /\ \A c \in Callers : run[c] \in Boot \cup Late => IN_FLIGHT = c /\ SINGLETON = None
    /\ \A c \in Callers : call[c].pc = "wait" /\ call[c].joins = c => IN_FLIGHT = c
    /\ \A c \in Callers : run[c] = "ok" <=> SINGLETON = c
    /\ \A c \in Callers : call[c].got \in Callers => call[c].got = SINGLETON
    /\ \A c \in Callers : call[c].pc = "uds" => ~call[c].opts.valid

(* The subscriber of the one run that has one follows the active schema,   *)
(* and only that one was ever told or asks.                                *)
Follows ==
    /\ \A c \in Callers : run[c] \in Late \cup {"ok"} => sub[c].current = active
    /\ \A c \in Callers : sub[c].pushed > 0 => run[c] \in Late \cup {"ok"}
    /\ \A i \in DOMAIN refresh : run[refresh[i].sub] \in Late \cup {"ok"}
-----------------------------------------------------------------------------
(* What the steps of a call do to it, to the runs and to IN_FLIGHT. *)
OthersStay(c) ==
    /\ \A d \in Callers \ {c} : call'[d] = call[d]
    /\ \A d \in Callers \ {c} : run'[d] = run[d]

Settled(c, r) ==
    /\ call'[c].pc = "done" /\ call'[c].got = r
    /\ UNCHANGED <<run, IN_FLIGHT>>

Joins(c) ==
    /\ IN_FLIGHT # None /\ call'[c].pc = "wait" /\ call'[c].joins = IN_FLIGHT
    /\ call'[c].got = call[c].got
    /\ UNCHANGED <<run, IN_FLIGHT>>

Starts(c) ==
    /\ call'[c].pc = "wait" /\ call'[c].joins = c /\ call'[c].got = call[c].got
    /\ call'[c].opts \in Options
    /\ run'[c] = "manifest" /\ IN_FLIGHT' = c

(* The shapes a step of init() up to its run can have. *)
LEMMA EnterShape ==
    ASSUME InitType, CallState, NEW c \in Callers,
           (\E o \in Options : Enter(c, o)) \/ makeUdsFetch(c)
    PROVE  /\ call' \in [Callers -> CallType] /\ run' \in [Callers -> Runs]
           /\ IN_FLIGHT' \in Callers \cup {None} /\ OthersStay(c)
           /\ call[c].pc \in {"idle", "uds"}
           /\ UNCHANGED <<SINGLETON, sub, wired, active, secrets, live, refresh, missed, shutdowns>>
           /\ \/ Settled(c, SINGLETON) /\ SINGLETON # None
              \/ Settled(c, "threw")
              \/ Joins(c)
              \/ /\ call'[c].pc = "uds" /\ call'[c].opts \in Options /\ call'[c].got = call[c].got
                 /\ call'[c].opts.pdp = "unix" /\ UNCHANGED <<run, IN_FLIGHT>>
              \/ /\ Starts(c)
                 /\ \/ SINGLETON = None /\ IN_FLIGHT = None
                    \/ call[c].pc = "uds" /\ call[c].opts.valid
<1>0. /\ call \in [Callers -> CallType] /\ call[c] \in CallType /\ run \in [Callers -> Runs]
      /\ SINGLETON \in Callers \cup {None} /\ IN_FLIGHT \in Callers \cup {None}
  BY DEF InitType
<1>1. ASSUME NEW x \in CallType, call' = [call EXCEPT ![c] = x],
             UNCHANGED <<run, IN_FLIGHT>>
      PROVE  /\ call' \in [Callers -> CallType] /\ run' \in [Callers -> Runs]
             /\ IN_FLIGHT' \in Callers \cup {None} /\ OthersStay(c) /\ call'[c] = x
  BY <1>0, <1>1 DEF OthersStay
<1>2. ASSUME NEW q \in CallType, q.opts \in Options, q.got = call[c].got, Start(c, q)
      PROVE  /\ call' \in [Callers -> CallType] /\ run' \in [Callers -> Runs]
             /\ IN_FLIGHT' \in Callers \cup {None} /\ OthersStay(c)
             /\ Settled(c, "threw") \/ (Starts(c) /\ q.opts.valid)
  <2>1. CASE ~q.opts.valid
    <3>1. Threw(q) \in CallType /\ Threw(q).pc = "done" /\ Threw(q).got = "threw"
      BY DEF Threw, Returned, CallType
    <3>2. call' = [call EXCEPT ![c] = Threw(q)] /\ UNCHANGED <<run, IN_FLIGHT>>
      BY <1>2, <2>1 DEF Start
    <3> QED BY <1>1, <3>1, <3>2 DEF Settled
  <2>2. CASE q.opts.valid
    <3> DEFINE x == [q EXCEPT !.pc = "wait", !.joins = c]
    <3>1. x \in CallType /\ x.pc = "wait" /\ x.joins = c /\ x.got = q.got /\ x.opts = q.opts
      BY DEF CallType
    <3>2. /\ call' = [call EXCEPT ![c] = x] /\ IN_FLIGHT' = c
          /\ run' = [run EXCEPT ![c] = "manifest"]
      BY <1>2, <2>2 DEF Start
    <3> HIDE DEF x
    <3>3. "manifest" \in Runs
      BY DEF Runs, Boot
    <3> QED BY <1>0, <1>2, <2>2, <3>1, <3>2, <3>3 DEF Starts, OthersStay
  <2> QED BY <2>1, <2>2
<1>3. ASSUME NEW o \in Options, Enter(c, o)
      PROVE  /\ call' \in [Callers -> CallType] /\ run' \in [Callers -> Runs]
             /\ IN_FLIGHT' \in Callers \cup {None} /\ OthersStay(c)
             /\ \/ Settled(c, SINGLETON) /\ SINGLETON # None
                \/ Settled(c, "threw")
                \/ Joins(c)
                \/ /\ call'[c].pc = "uds" /\ call'[c].opts \in Options /\ call'[c].got = call[c].got
                   /\ call'[c].opts.pdp = "unix" /\ UNCHANGED <<run, IN_FLIGHT>>
                \/ Starts(c) /\ SINGLETON = None /\ IN_FLIGHT = None
  <2> DEFINE q == [call[c] EXCEPT !.opts = o]
  <2>1. q \in CallType /\ q.opts = o /\ q.got = call[c].got
    BY <1>0 DEF CallType
  <2>2. CASE SINGLETON # None
    <3>1. /\ Returned(q, SINGLETON) \in CallType /\ Returned(q, SINGLETON).pc = "done"
          /\ Returned(q, SINGLETON).got = SINGLETON
      BY <1>0, <2>1, <2>2 DEF Returned, CallType
    <3>2. call' = [call EXCEPT ![c] = Returned(q, SINGLETON)] /\ UNCHANGED <<run, IN_FLIGHT>>
      BY <1>3, <2>2 DEF Enter
    <3> HIDE DEF q
    <3> QED BY <1>1, <2>1, <2>2, <3>1, <3>2 DEF Settled
  <2>3. CASE SINGLETON = None /\ IN_FLIGHT # None
    <3> DEFINE x == [call[c] EXCEPT !.pc = "wait", !.joins = IN_FLIGHT]
    <3>1. x \in CallType /\ x.pc = "wait" /\ x.joins = IN_FLIGHT /\ x.got = call[c].got
      BY <1>0 DEF CallType
    <3>2. call' = [call EXCEPT ![c] = x] /\ UNCHANGED <<run, IN_FLIGHT>>
      BY <1>3, <2>3 DEF Enter
    <3> HIDE DEF x, q
    <3> QED BY <1>1, <2>1, <2>3, <3>1, <3>2 DEF Joins
  <2>4. CASE SINGLETON = None /\ IN_FLIGHT = None /\ o.pdp = "unix"
    <3> DEFINE x == [q EXCEPT !.pc = "uds"]
    <3>1. x \in CallType /\ x.pc = "uds" /\ x.opts = o /\ x.got = call[c].got
      BY <1>0 DEF CallType
    <3>2. call' = [call EXCEPT ![c] = x] /\ UNCHANGED <<run, IN_FLIGHT>>
      BY <1>3, <2>4 DEF Enter
    <3> HIDE DEF x, q
    <3> QED BY <1>1, <2>1, <2>4, <3>1, <3>2
  <2>5. CASE SINGLETON = None /\ IN_FLIGHT = None /\ o.pdp # "unix"
    <3>1. Start(c, q)
      BY <1>3, <2>5 DEF Enter
    <3> HIDE DEF q
    <3> QED BY <1>2, <2>1, <2>5, <3>1
  <2> QED BY <2>2, <2>3, <2>4, <2>5
<1>4. CASE \E o \in Options : Enter(c, o)
  BY <1>3, <1>4 DEF Enter
<1>5. CASE makeUdsFetch(c)
  <2>1. call[c].opts \in Options /\ call[c].pc = "uds" /\ Start(c, call[c])
    BY <1>5 DEF makeUdsFetch, CallState
  <2> QED BY <1>0, <1>2, <1>5, <2>1 DEF makeUdsFetch
<1> QED BY <1>4, <1>5

(* A call whose promise settled. *)
LEMMA ResumeShape ==
    ASSUME InitType, CallState, NEW c \in Callers, Resume(c)
    PROVE  /\ call' \in [Callers -> CallType] /\ IN_FLIGHT' \in Callers \cup {None}
           /\ OthersStay(c) /\ call[c].pc = "wait" /\ call[c].joins \in Callers
           /\ run[call[c].joins] \in {"ok", "failed"} /\ call'[c].pc = "done"
           /\ UNCHANGED <<SINGLETON, run, sub, wired, active, secrets, live, refresh, missed, shutdowns>>
           /\ call'[c].got = IF run[call[c].joins] = "ok" THEN call[c].joins ELSE "threw"
           /\ IN_FLIGHT' = IF call[c].joins = c THEN None ELSE IN_FLIGHT
<1>0. /\ call \in [Callers -> CallType] /\ call[c] \in CallType
      /\ IN_FLIGHT \in Callers \cup {None}
  BY DEF InitType
<1>1. call[c].pc = "wait" /\ call[c].joins \in Callers /\ run[call[c].joins] \in {"ok", "failed"}
  BY DEF Resume, CallState
<1>2. PICK r \in Callers \cup {"threw"} :
         /\ call' = [call EXCEPT ![c] = Returned(call[c], r)]
         /\ r = IF run[call[c].joins] = "ok" THEN call[c].joins ELSE "threw"
  BY <1>1 DEF Resume, Threw
<1>3. /\ Returned(call[c], r) \in CallType /\ Returned(call[c], r).pc = "done"
      /\ Returned(call[c], r).got = r
  BY <1>0 DEF Returned, CallType
<1>4. /\ call' \in [Callers -> CallType] /\ call'[c] = Returned(call[c], r)
      /\ \A d \in Callers \ {c} : call'[d] = call[d]
  BY <1>0, <1>2, <1>3
<1> QED BY <1>0, <1>1, <1>2, <1>3, <1>4 DEF Resume, OthersStay

(* A run up to its schema: it stays unwired, and may make a schema the active one. *)
LEMMA BootShape ==
    ASSUME InitType, CallState, NEW c \in Callers, LoadManifest(c) \/ ensureAgent(c) \/ LiveSchema(c)
    PROVE  /\ run[c] \in Boot /\ run' \in [Callers -> Runs] /\ run'[c] \in Boot \cup {"failed"}
           /\ \A d \in Callers \ {c} : run'[d] = run[d]
           /\ active' \in Nat
           /\ UNCHANGED <<SINGLETON, IN_FLIGHT, call, sub, wired, live, refresh>>
<1>0. run \in [Callers -> Runs] /\ active \in Nat /\ live \in Nat
  BY DEF InitType
<1>1. PICK x \in Boot \cup {"failed"} : run[c] \in Boot /\ run' = [run EXCEPT ![c] = x]
  BY DEF LoadManifest, ensureAgent, LiveSchema, Run, Boot
<1>2. x \in Runs
  BY DEF Runs
<1>3. active' \in Nat
  <2>1. CASE active' = active
    BY <1>0, <2>1
  <2>2. CASE LiveSchema(c) /\ active' # active
    <3>0. call[c].opts \in Options
      BY <2>2 DEF LiveSchema, CallState, Boot
    <3>1. localSchema(O(c)) \in Nat
      BY <3>0 DEF localSchema, O
    <3>2. PICK got \in getLiveSchema :
             /\ reconcileVersions(localSchema(O(c)), got) # Fails
             /\ active' = reconcileVersions(localSchema(O(c)), got)
      BY <2>2 DEF LiveSchema
    <3>3. got \in Nat \cup {Fails}
      BY <1>0, <3>2 DEF getLiveSchema
    <3>4. \A l \in Nat, g \in Nat \cup {Fails} : reconcileVersions(l, g) \in Nat \cup {Fails}
      BY DEF reconcileVersions, Fails
    <3> QED BY <3>1, <3>2, <3>3, <3>4
  <2> QED BY <2>1, <2>2 DEF LoadManifest, ensureAgent
<1>4. UNCHANGED <<SINGLETON, IN_FLIGHT, call, sub, wired, live, refresh>>
  BY DEF LoadManifest, ensureAgent, LiveSchema
<1> QED BY <1>0, <1>1, <1>2, <1>3, <1>4

(* A run comes to its subscriber, whose current schema is the active one. *)
LEMMA SubscribeShape ==
    ASSUME InitType, NEW c \in Callers, Subscribe(c)
    PROVE  /\ run[c] = "uuid" /\ run' \in [Callers -> Runs] /\ run'[c] \in Late
           /\ \A d \in Callers \ {c} : run'[d] = run[d]
           /\ sub' \in [Callers -> SubType] /\ sub'[c].current = active
           /\ sub'[c].pushed = sub[c].pushed
           /\ \A d \in Callers \ {c} : sub'[d] = sub[d]
           /\ UNCHANGED <<SINGLETON, IN_FLIGHT, call, wired, active, live, refresh>>
<1>0. run \in [Callers -> Runs] /\ sub \in [Callers -> SubType] /\ active \in Nat
  BY DEF InitType
<1>1. PICK x \in Late : run' = [run EXCEPT ![c] = x]
  BY DEF Subscribe, Run, Late
<1>2. x \in Runs
  BY DEF Runs
<1> DEFINE y == [sub[c] EXCEPT !.st = "importing", !.current = active]
<1>3. y \in SubType /\ y.current = active /\ y.pushed = sub[c].pushed
  BY <1>0 DEF SubType, Subs
<1>4. sub' = [sub EXCEPT ![c] = y]
  BY DEF Subscribe, start
<1> HIDE DEF y
<1> QED BY <1>0, <1>1, <1>2, <1>3, <1>4 DEF Subscribe

(* A run puts its patches in place, where none is. *)
LEMMA InstallShape ==
    ASSUME InitType, NEW c \in Callers,
           \/ installOpenAIPatch(c) \/ installAnthropicPatch(c) \/ installNodeHttpInterceptor(c)
    PROVE  /\ run[c] \in Late /\ run' \in [Callers -> Runs] /\ run'[c] \in Late
           /\ \A d \in Callers \ {c} : run'[d] = run[d]
           /\ wired' \in [Planes -> Callers \cup {None}]
           /\ \A p \in Planes : wired'[p] \in {wired[p], c}
           /\ UNCHANGED <<SINGLETON, IN_FLIGHT, call, sub, active, live, refresh>>
<1>0. run \in [Callers -> Runs] /\ wired \in [Planes -> Callers \cup {None}]
  BY DEF InitType
<1>1. PICK x \in Late : run' = [run EXCEPT ![c] = x]
  BY DEF installOpenAIPatch, installAnthropicPatch, installNodeHttpInterceptor, Run, Late
<1>2. x \in Runs
  BY DEF Runs
<1>3. PICK ps : Installs(c, ps)
  BY DEF installOpenAIPatch, installAnthropicPatch, installNodeHttpInterceptor
<1>4. wired' \in [Planes -> Callers \cup {None}] /\ \A p \in Planes : wired'[p] \in {wired[p], c}
  BY <1>0, <1>3 DEF Installs
<1> QED BY <1>0, <1>1, <1>2, <1>4 DEF installOpenAIPatch, installAnthropicPatch,
           installNodeHttpInterceptor, Late

(* What the subscribers' steps and an install at the server do: no stream is opened for a run that  *)
(* has none, and no subscriber's own schema moves.                                                  *)
LEMMA StreamShape ==
    ASSUME InitType, SchemaInstalled \/ \E c \in Callers : Connected(c) \/ handleEvent(c)
    PROVE  /\ sub' \in [Callers -> SubType] /\ live' \in Nat /\ refresh' \in Seq(AskType)
           /\ \A d \in Callers : sub'[d].current = sub[d].current
           /\ \A d \in Callers : sub'[d].st = "none" <=> sub[d].st = "none"
           /\ \A d \in Callers : sub'[d].pushed > 0 => sub[d].pushed > 0 \/ sub[d].st # "none"
           /\ \/ refresh' = refresh
              \/ \E c \in Callers : sub[c].pushed > 0 /\ refresh' = Append(refresh, Asked(c))
           /\ UNCHANGED <<SINGLETON, IN_FLIGHT, call, run, wired, active>>
<1>0. sub \in [Callers -> SubType] /\ live \in Nat /\ refresh \in Seq(AskType)
  BY DEF InitType
<1>1. CASE SchemaInstalled
  <2>1. PICK told \in SUBSET {c \in Callers : sub[c].st = "open"} :
           sub' = [c \in Callers |-> IF c \in told THEN [sub[c] EXCEPT !.pushed = @ + 1] ELSE sub[c]]
    BY <1>1 DEF SchemaInstalled
  <2>2. ASSUME NEW d \in Callers
        PROVE  /\ sub'[d] \in SubType /\ sub'[d].current = sub[d].current
               /\ sub'[d].st = sub[d].st
               /\ sub'[d].pushed > 0 => sub[d].pushed > 0 \/ sub[d].st # "none"
    <3>1. sub[d] \in SubType
      BY <1>0
    <3>2. CASE d \in told
      <4>1. sub'[d] = [sub[d] EXCEPT !.pushed = sub[d].pushed + 1] /\ sub[d].st = "open"
        BY <2>1, <3>2
      <4> QED BY <3>1, <4>1 DEF SubType
    <3>3. CASE d \notin told
      BY <2>1, <3>1, <3>3
    <3> QED BY <3>2, <3>3
  <2>3. sub' \in [Callers -> SubType]
    BY <2>1, <2>2
  <2>4. live' \in Nat
    BY <1>0, <1>1 DEF SchemaInstalled
  <2> QED BY <1>0, <1>1, <2>2, <2>3, <2>4 DEF SchemaInstalled
<1>2. ASSUME NEW c \in Callers, Connected(c) \/ handleEvent(c)
      PROVE  /\ sub' \in [Callers -> SubType] /\ live' \in Nat /\ refresh' \in Seq(AskType)
             /\ \A d \in Callers : sub'[d].current = sub[d].current
             /\ \A d \in Callers : sub'[d].st = "none" <=> sub[d].st = "none"
             /\ \A d \in Callers : sub'[d].pushed > 0 => sub[d].pushed > 0
             /\ \/ refresh' = refresh
                \/ sub[c].pushed > 0 /\ refresh' = Append(refresh, Asked(c))
  <2>0. sub[c] \in SubType
    BY <1>0
  <2>1. CASE Connected(c)
    <3>1. PICK st \in {"open", "failed"} : sub' = [sub EXCEPT ![c] = [sub[c] EXCEPT !.st = st]]
      BY <1>0, <2>1 DEF Connected
    <3> DEFINE y == [sub[c] EXCEPT !.st = st]
    <3>2. y \in SubType /\ y.current = sub[c].current /\ y.st # "none" /\ y.pushed = sub[c].pushed
      BY <2>0 DEF SubType, Subs
    <3>3. sub[c].st # "none" /\ UNCHANGED <<live, refresh>>
      BY <2>1 DEF Connected
    <3> HIDE DEF y
    <3>4. sub' = [sub EXCEPT ![c] = y]
      BY <3>1 DEF y
    <3> QED BY <1>0, <3>2, <3>3, <3>4
  <2>2. CASE handleEvent(c)
    <3> DEFINE y == [sub[c] EXCEPT !.pushed = sub[c].pushed - 1]
    <3>1. sub' = [sub EXCEPT ![c] = y] /\ sub[c].pushed > 0 /\ live' = live
      BY <1>0, <2>2 DEF handleEvent
    <3>2. y \in SubType /\ y.current = sub[c].current /\ y.st = sub[c].st
      BY <2>0, <3>1 DEF SubType
    <3> HIDE DEF y
    <3>3. /\ sub' \in [Callers -> SubType]
          /\ \A d \in Callers : sub'[d].current = sub[d].current
          /\ \A d \in Callers : sub'[d].st = "none" <=> sub[d].st = "none"
          /\ \A d \in Callers : sub'[d].pushed > 0 => sub[d].pushed > 0
      BY <1>0, <3>1, <3>2
    <3>4. Asked(c) \in AskType
      BY DEF Asked, AskType
    <3>5. refresh' = refresh \/ refresh' = Append(refresh, Asked(c))
      BY <2>2 DEF handleEvent
    <3>6. refresh' \in Seq(AskType)
      BY <1>0, <3>4, <3>5
    <3> QED BY <1>0, <3>1, <3>3, <3>5, <3>6
  <2> QED BY <1>2, <2>1, <2>2
<1>3. CASE \E c \in Callers : Connected(c) \/ handleEvent(c)
  BY <1>2, <1>3 DEF Connected, handleEvent
<1> QED BY <1>1, <1>3

(* shutdown() closes a subscriber and removes interceptors; nothing else moves. *)
LEMMA ShutdownShape ==
    ASSUME InitType, shutdown
    PROVE  /\ sub' \in [Callers -> SubType] /\ wired' \in [Planes -> Callers \cup {None}]
           /\ \A d \in Callers : /\ sub'[d].current = sub[d].current
                                 /\ sub'[d].pushed = sub[d].pushed
                                 /\ sub[d].st = "none" => sub'[d].st = "none"
           /\ \A p \in Planes : wired'[p] \in {wired[p], None}
           /\ UNCHANGED <<SINGLETON, IN_FLIGHT, call, run, active, live, refresh>>
<1>0. /\ sub \in [Callers -> SubType] /\ wired \in [Planes -> Callers \cup {None}]
      /\ SINGLETON \in Callers \cup {None}
  BY DEF InitType
<1>1. CASE SINGLETON = None
  BY <1>0, <1>1 DEF shutdown
<1>2. CASE SINGLETON # None
  <2> DEFINE s == SINGLETON
             y == [sub[s] EXCEPT !.closed = TRUE, !.st = IF sub[s].st = "open" THEN "closed" ELSE sub[s].st]
  <2>0. s \in Callers /\ sub[s] \in SubType
    BY <1>0, <1>2
  <2>1. sub' = [sub EXCEPT ![s] = y]
    BY <1>0, <1>2, <2>0 DEF shutdown, close, SubType
  <2>2. /\ y \in SubType /\ y.current = sub[s].current /\ y.pushed = sub[s].pushed
        /\ sub[s].st = "none" => y.st = "none"
    BY <2>0 DEF SubType, Subs
  <2> HIDE DEF y
  <2>3. /\ sub' \in [Callers -> SubType]
        /\ \A d \in Callers : /\ sub'[d].current = sub[d].current
                              /\ sub'[d].pushed = sub[d].pushed
                              /\ sub[d].st = "none" => sub'[d].st = "none"
    BY <1>0, <2>0, <2>1, <2>2
  <2>4. wired' = [p \in Planes |->
                    IF p \in {"fetch", "undici", "node"} /\ wired[p] = SINGLETON THEN None ELSE wired[p]]
    BY <1>2 DEF shutdown
  <2>5. wired' \in [Planes -> Callers \cup {None}] /\ \A p \in Planes : wired'[p] \in {wired[p], None}
    BY <1>0, <2>4
  <2> QED BY <2>3, <2>5 DEF shutdown
<1> QED BY <1>1, <1>2

(* The server's answer to a refresh is noted with it. *)
LEMMA AnsweredShape ==
    ASSUME InitType, NEW i, RefreshAnswered(i)
    PROVE  /\ refresh' \in Seq(AskType) /\ DOMAIN refresh' = DOMAIN refresh
           /\ \A j \in DOMAIN refresh : refresh'[j].sub = refresh[j].sub
           /\ UNCHANGED <<SINGLETON, IN_FLIGHT, call, run, sub, wired, active, live>>
<1>0. refresh \in Seq(AskType) /\ i \in DOMAIN refresh /\ live \in Nat
  BY DEF InitType, RefreshAnswered
<1>1. PICK got \in getLiveSchema : refresh' = [refresh EXCEPT ![i].got = got]
  BY DEF RefreshAnswered
<1>2. got \in Nat \cup {Fails}
  BY <1>0 DEF getLiveSchema
<1> DEFINE y == [refresh[i] EXCEPT !.got = got]
<1>3. refresh[i] \in AskType
  BY <1>0
<1>4. y \in AskType /\ y.sub = refresh[i].sub /\ refresh' = [refresh EXCEPT ![i] = y]
  BY <1>1, <1>2, <1>3 DEF AskType
<1> HIDE DEF y
<1> QED BY <1>0, <1>4 DEF RefreshAnswered

(* Dropping one refresh leaves some of the others. *)
LEMMA DropShape ==
    ASSUME InitType, NEW i \in DOMAIN refresh
    PROVE  /\ Drop(i) \in Seq(AskType)
           /\ \A j \in DOMAIN Drop(i) : \E k \in DOMAIN refresh : Drop(i)[j] = refresh[k]
<1> DEFINE a == SubSeq(refresh, 1, i - 1)
           b == SubSeq(refresh, i + 1, Len(refresh))
<1>0. /\ refresh \in Seq(AskType) /\ Len(refresh) \in Nat /\ DOMAIN refresh = 1..Len(refresh)
      /\ i \in 1..Len(refresh)
  BY DEF InitType
<1>1. a \in Seq(AskType) /\ Len(a) = i - 1 /\ \A j \in 1..(i - 1) : a[j] = refresh[j]
  BY <1>0
<1>2. /\ b \in Seq(AskType) /\ Len(b) = Len(refresh) - i
      /\ \A j \in 1..(Len(refresh) - i) : b[j] = refresh[i + j]
  BY <1>0
<1> HIDE DEF a, b
<1>3. /\ a \o b \in Seq(AskType) /\ DOMAIN (a \o b) = 1..(Len(a) + Len(b))
      /\ \A j \in 1..(Len(a) + Len(b)) :
            (a \o b)[j] = IF j <= Len(a) THEN a[j] ELSE b[j - Len(a)]
  <2>1. a \in Seq(AskType) /\ b \in Seq(AskType)
    BY <1>1, <1>2
  <2>2. a \o b \in Seq(AskType) /\ Len(a \o b) = Len(a) + Len(b)
    BY <2>1
  <2>3. DOMAIN (a \o b) = 1..(Len(a) + Len(b))
    BY <2>2
  <2>4. \A j \in 1..(Len(a) + Len(b)) :
           (a \o b)[j] = IF j <= Len(a) THEN a[j] ELSE b[j - Len(a)]
    BY <2>1
  <2> QED BY <2>2, <2>3, <2>4
<1>4. ASSUME NEW j \in DOMAIN (a \o b)
      PROVE  \E k \in DOMAIN refresh : (a \o b)[j] = refresh[k]
  <2>1. CASE j <= Len(a)
    <3>1. j \in 1..(i - 1) /\ j \in DOMAIN refresh
      BY <1>0, <1>1, <1>3, <2>1
    <3> QED BY <1>1, <1>3, <2>1, <3>1
  <2>2. CASE ~(j <= Len(a))
    <3>1. /\ j - (i - 1) \in 1..(Len(refresh) - i) /\ j \in 1..(Len(a) + Len(b))
          /\ j + 1 \in DOMAIN refresh /\ i + (j - (i - 1)) = j + 1
      BY <1>0, <1>1, <1>2, <1>3, <2>2
    <3>2. b[j - (i - 1)] = refresh[j + 1]
      BY <1>2, <3>1
    <3>3. (a \o b)[j] = b[j - (i - 1)]
      BY <1>1, <1>3, <2>2, <3>1
    <3> QED BY <3>1, <3>2, <3>3
  <2> QED BY <2>1, <2>2
<1>5. Drop(i) = a \o b
  BY DEF Drop, a, b
<1> QED BY <1>3, <1>4, <1>5

(* A refresh ends: its answer is not newer, or becomes the active schema   *)
(* and the subscriber's own.                                               *)
LEMMA RefreshShape ==
    ASSUME InitType, NEW i, refreshSchema(i)
    PROVE  /\ i \in DOMAIN refresh /\ refresh[i].sub \in Callers
           /\ refresh' \in Seq(AskType) /\ sub' \in [Callers -> SubType] /\ active' \in Nat
           /\ \A j \in DOMAIN refresh' : \E k \in DOMAIN refresh : refresh'[j] = refresh[k]
           /\ \A d \in Callers : sub'[d].st = sub[d].st /\ sub'[d].pushed = sub[d].pushed
           /\ \/ UNCHANGED <<sub, active>>
              \/ /\ sub'[refresh[i].sub].current = active'
                 /\ active' >= sub[refresh[i].sub].current
           /\ UNCHANGED <<SINGLETON, IN_FLIGHT, call, run, wired, live>>
<1> DEFINE c == refresh[i].sub
           v == refresh[i].got
<1>0. /\ refresh \in Seq(AskType) /\ i \in DOMAIN refresh /\ v # None
      /\ sub \in [Callers -> SubType] /\ active \in Nat
  BY DEF InitType, refreshSchema
<1>1. refresh[i] \in AskType
  BY <1>0
<1>2. c \in Callers /\ v \in Nat \cup {Fails}
  BY <1>0, <1>1 DEF AskType
<1>3. refresh' = Drop(i)
  BY DEF refreshSchema
<1>4. /\ refresh' \in Seq(AskType)
      /\ \A j \in DOMAIN refresh' : \E k \in DOMAIN refresh : refresh'[j] = refresh[k]
  BY <1>0, <1>3, DropShape
<1>5. CASE UNCHANGED <<sub, active>>
  BY <1>0, <1>2, <1>4, <1>5 DEF refreshSchema
<1>6. CASE /\ ~(v \in {0, Fails} \/ v < sub[c].current)
           /\ sub' = [sub EXCEPT ![c].current = v] /\ active' = v
  <2> DEFINE y == [sub[c] EXCEPT !.current = v]
  <2>1. v \in Nat /\ sub[c] \in SubType
    BY <1>0, <1>2, <1>6
  <2>2. /\ y \in SubType /\ y.current = v /\ y.st = sub[c].st /\ y.pushed = sub[c].pushed
        /\ sub' = [sub EXCEPT ![c] = y]
    BY <1>6, <2>1 DEF SubType
  <2>3. v >= sub[c].current
    BY <1>6, <2>1 DEF SubType
  <2> HIDE DEF y
  <2>4. /\ sub' \in [Callers -> SubType] /\ sub'[c].current = v
        /\ \A d \in Callers : sub'[d].st = sub[d].st /\ sub'[d].pushed = sub[d].pushed
    BY <1>0, <1>2, <2>2
  <2> QED BY <1>0, <1>2, <1>4, <1>6, <2>1, <2>3, <2>4 DEF refreshSchema
<1> QED BY <1>5, <1>6 DEF refreshSchema
-----------------------------------------------------------------------------
Sound == InitType /\ CallState /\ Unwired

(* What holds of every run, with whatever options, holds at the start. *)
LEMMA SoundInit == Init => Sound
<1> SUFFICES ASSUME Init PROVE Sound
  OBVIOUS
<1>1. [pc |-> "idle", opts |-> NoOptions, joins |-> None, got |-> None] \in CallType
  BY DEF CallType
<1>2. [st |-> "none", closed |-> FALSE, current |-> 0, pushed |-> 0] \in SubType
  BY DEF SubType, Subs
<1>3. "none" \in Runs /\ <<>> \in Seq(AskType) /\ live \in Nat
  BY DEF Runs, Init
<1>4. InitType
  BY <1>1, <1>2, <1>3 DEF Init, InitType
<1>5. CallState /\ Unwired
  BY DEF Init, CallState, Unwired, Boot, Late
<1> QED BY <1>4, <1>5 DEF Sound

(* Entering init() and resuming from it keep the calls and the runs in step. *)
LEMMA SoundCalls ==
    ASSUME Sound, NEW c \in Callers,
           (\E o \in Options : Enter(c, o)) \/ makeUdsFetch(c) \/ Resume(c)
    PROVE  Sound'
<1> USE DEF Sound
<1>1. CASE (\E o \in Options : Enter(c, o)) \/ makeUdsFetch(c)
  <2>1. InitType'
    BY <1>1, EnterShape DEF InitType
  <2>2. run[c] = "none"
    BY <1>1, EnterShape DEF CallState
  <2>3. IN_FLIGHT \in Callers \cup {None}
    BY DEF InitType
  <2>4. CallState'
    BY <1>1, <2>2, <2>3, EnterShape DEF CallState, OthersStay, Settled, Joins, Starts, Boot, Late
  <2>5. Unwired'
    BY <1>1, <2>2, EnterShape DEF Unwired, OthersStay, Settled, Joins, Starts
  <2> QED BY <2>1, <2>4, <2>5
<1>2. CASE Resume(c)
  <2>1. InitType'
    BY <1>2, ResumeShape DEF InitType
  <2>2. run[c] \notin Boot \cup Late
    BY <1>2, ResumeShape DEF CallState, Boot, Late
  <2>3. CallState'
    BY <1>2, <2>2, ResumeShape DEF CallState, OthersStay
  <2>4. Unwired'
    BY <1>2, ResumeShape DEF Unwired
  <2> QED BY <2>1, <2>3, <2>4
<1> QED BY <1>1, <1>2

(* The steps of a run keep them in step, and wire nothing before its subscriber. *)
LEMMA SoundRuns ==
    ASSUME Sound, NEW c \in Callers,
           \/ LoadManifest(c) \/ ensureAgent(c) \/ LiveSchema(c) \/ Subscribe(c)
           \/ installOpenAIPatch(c) \/ installAnthropicPatch(c) \/ installNodeHttpInterceptor(c)
           \/ Publish(c)
    PROVE  Sound'
<1> USE DEF Sound
<1>1. CASE LoadManifest(c) \/ ensureAgent(c) \/ LiveSchema(c)
  <2>1. InitType'
    BY <1>1, BootShape DEF InitType
  <2>2. CallState'
    BY <1>1, BootShape DEF CallState, Boot, Late
  <2>3. Unwired'
    BY <1>1, BootShape DEF Unwired
  <2> QED BY <2>1, <2>2, <2>3
<1>2. CASE Subscribe(c)
  <2>1. InitType'
    BY <1>2, SubscribeShape DEF InitType
  <2>2. CallState'
    BY <1>2, SubscribeShape DEF CallState, Boot, Late
  <2>3. Unwired'
    BY <1>2, SubscribeShape DEF Unwired, Boot, Late
  <2> QED BY <2>1, <2>2, <2>3
<1>3. CASE installOpenAIPatch(c) \/ installAnthropicPatch(c) \/ installNodeHttpInterceptor(c)
  <2>1. InitType'
    BY <1>3, InstallShape DEF InitType
  <2>2. CallState'
    BY <1>3, InstallShape DEF CallState, Boot, Late
  <2>3. Unwired'
    BY <1>3, InstallShape DEF Unwired, Boot, Late
  <2> QED BY <2>1, <2>2, <2>3
<1>4. CASE Publish(c)
  <2>1. /\ run' = [run EXCEPT ![c] = "ok"] /\ run[c] = "anon" /\ "ok" \in Runs
        /\ UNCHANGED <<IN_FLIGHT, call, sub, wired, active, live, refresh>> /\ SINGLETON' = c
    BY <1>4 DEF Publish, Run, Runs
  <2>2. InitType'
    BY <2>1 DEF InitType
  <2>3. CallState'
    BY <2>1 DEF CallState, InitType, Boot, Late
  <2>4. Unwired'
    BY <2>1 DEF Unwired, InitType, Boot
  <2> QED BY <2>2, <2>3, <2>4
<1> QED BY <1>1, <1>2, <1>3, <1>4

(* The subscribers, the server and shutdown() wire nothing. *)
LEMMA SoundElse ==
    ASSUME Sound,
           \/ \E c \in Callers : Connected(c) \/ handleEvent(c)
           \/ SchemaInstalled \/ shutdown \/ Refresh \/ UNCHANGED vars
    PROVE  Sound'
<1> USE DEF Sound
<1>1. CASE SchemaInstalled \/ \E c \in Callers : Connected(c) \/ handleEvent(c)
  <2>1. InitType' /\ CallState' /\ Unwired'
    BY <1>1, StreamShape DEF InitType, CallState, Unwired
  <2> QED BY <2>1
<1>2. CASE shutdown
  <2>1. InitType' /\ CallState'
    BY <1>2, ShutdownShape DEF InitType, CallState
  <2>2. Unwired'
    BY <1>2, ShutdownShape DEF Unwired
  <2> QED BY <2>1, <2>2
<1>3. ASSUME NEW i, RefreshAnswered(i) \/ refreshSchema(i) PROVE Sound'
  <2>1. InitType' /\ CallState'
    BY <1>3, AnsweredShape, RefreshShape DEF InitType, CallState
  <2>2. Unwired'
    BY <1>3, AnsweredShape, RefreshShape DEF Unwired
  <2> QED BY <2>1, <2>2
<1>4. CASE UNCHANGED vars
  BY <1>4 DEF vars, InitType, CallState, Unwired
<1> QED BY <1>1, <1>2, <1>3, <1>4 DEF Refresh

(* The part of the invariant that needs nothing of the options. *)
LEMMA SoundAlways == Spec => []Sound
<1>1. Sound /\ [Next]_vars => Sound'
  BY SoundCalls, SoundRuns, SoundElse DEF Next, Step
<1> QED BY <1>1, SoundInit, PTL DEF Spec

(* init() "aborts before observability is partially wired": a run that     *)
(* failed opened no stream and put no patch in place, with any options and *)
(* any number of calls.                                                    *)
THEOREM AbortsUnwired == Spec => []AbortBeforeWiring
<1>1. Sound => AbortBeforeWiring
  BY DEF Sound, Unwired, AbortBeforeWiring
<1> QED BY <1>1, SoundAlways, PTL
-----------------------------------------------------------------------------
(* What follows is about calls that await nothing between looking for a    *)
(* run in flight and starting one.  With a unix:// PDP init() awaits the   *)
(* import of the socket's fetch in between, and the claims are false of it *)
(* (InitLifecycle_uds.cfg is the counterexample).                          *)
Coalesced == \A o \in Options : o.pdp = "unix" => ~o.valid

(* One run at a time is kept by a call that enters or resumes. *)
LEMMA OneRunCalls ==
    ASSUME Coalesced, Sound, OneRun, NEW c \in Callers,
           (\E o \in Options : Enter(c, o)) \/ makeUdsFetch(c) \/ Resume(c)
    PROVE  OneRun'
<1> USE DEF Sound
<1>1. CASE (\E o \in Options : Enter(c, o)) \/ makeUdsFetch(c)
  <2>0. /\ OthersStay(c) /\ call[c].pc \in {"idle", "uds"} /\ run[c] = "none"
        /\ SINGLETON' = SINGLETON /\ SINGLETON \in Callers \cup {None}
    BY <1>1, EnterShape DEF CallState, InitType
  <2>1. CASE (Settled(c, SINGLETON) /\ SINGLETON # None) \/ Settled(c, "threw")
    BY <2>0, <2>1 DEF OneRun, OthersStay, Settled
  <2>2. CASE Joins(c)
    BY <2>0, <2>2 DEF OneRun, OthersStay, Joins
  <2>3. CASE /\ call'[c].pc = "uds" /\ call'[c].opts \in Options /\ call'[c].got = call[c].got
             /\ call'[c].opts.pdp = "unix" /\ UNCHANGED <<run, IN_FLIGHT>>
    BY <2>0, <2>3 DEF OneRun, OthersStay, Coalesced
  <2>4. CASE /\ Starts(c)
             /\ \/ SINGLETON = None /\ IN_FLIGHT = None
                \/ call[c].pc = "uds" /\ call[c].opts.valid
    <3>1. SINGLETON = None /\ IN_FLIGHT = None
      BY <2>4 DEF OneRun
    <3>2. \A d \in Callers \ {c} : run[d] \notin Boot \cup Late \cup {"ok"}
      BY <3>1 DEF OneRun
    <3>3. \A d \in Callers \ {c} : ~(call[d].pc = "wait" /\ call[d].joins = d)
      BY <3>1 DEF OneRun
    <3>4. \A d \in Callers : run'[d] \in Boot \cup Late => IN_FLIGHT' = d /\ SINGLETON' = None
      BY <2>0, <2>4, <3>1, <3>2 DEF OthersStay, Starts
    <3>5. \A d \in Callers : call'[d].pc = "wait" /\ call'[d].joins = d => IN_FLIGHT' = d
      BY <2>0, <2>4, <3>3 DEF OthersStay, Starts
    <3>6. \A d \in Callers : run'[d] = "ok" <=> SINGLETON' = d
      BY <2>0, <2>4, <3>1, <3>2 DEF OthersStay, Starts
    <3>7. \A d \in Callers : call'[d].got \in Callers => call'[d].got = SINGLETON'
      BY <2>0, <2>4 DEF OneRun, OthersStay, Starts
    <3>8. \A d \in Callers : call'[d].pc = "uds" => ~call'[d].opts.valid
      BY <2>0, <2>4 DEF OneRun, OthersStay, Starts
    <3> QED BY <3>4, <3>5, <3>6, <3>7, <3>8 DEF OneRun
  <2> QED BY <1>1, <2>1, <2>2, <2>3, <2>4, EnterShape
<1>2. CASE Resume(c)
  <2>0. /\ call[c].pc = "wait" /\ call[c].joins \in Callers
        /\ run[call[c].joins] \in {"ok", "failed"} /\ call'[c].pc = "done"
        /\ UNCHANGED <<SINGLETON, run>> /\ OthersStay(c)
        /\ call'[c].got = IF run[call[c].joins] = "ok" THEN call[c].joins ELSE "threw"
        /\ IN_FLIGHT' = IF call[c].joins = c THEN None ELSE IN_FLIGHT
    BY <1>2, ResumeShape DEF CallState
  <2>1. \A d \in Callers : run[d] \in Boot \cup Late => IN_FLIGHT' = d
    BY <2>0 DEF OneRun, Boot, Late
  <2>2. \A d \in Callers : call'[d].pc = "wait" /\ call'[d].joins = d => IN_FLIGHT' = d
    BY <2>0 DEF OneRun, OthersStay
  <2>3. \A d \in Callers : call'[d].got \in Callers => call'[d].got = SINGLETON
    BY <2>0 DEF OneRun, OthersStay
  <2>4. \A d \in Callers : call'[d].pc = "uds" => ~call'[d].opts.valid
    BY <2>0 DEF OneRun, OthersStay
  <2> QED BY <2>0, <2>1, <2>2, <2>3, <2>4 DEF OneRun
<1> QED BY <1>1, <1>2

(* It is kept by the steps of a run: the one that publishes it is the run  *)
(* in flight, and no other has been published.                             *)
LEMMA OneRunRuns ==
    ASSUME Sound, OneRun, NEW c \in Callers,
           \/ LoadManifest(c) \/ ensureAgent(c) \/ LiveSchema(c) \/ Subscribe(c)
           \/ installOpenAIPatch(c) \/ installAnthropicPatch(c) \/ installNodeHttpInterceptor(c)
           \/ Publish(c)
    PROVE  OneRun'
<1> USE DEF Sound
<1>1. CASE ~Publish(c)
  <2>1. /\ run[c] \in Boot \cup Late /\ run'[c] \in Boot \cup Late \cup {"failed"}
        /\ \A d \in Callers \ {c} : run'[d] = run[d]
        /\ UNCHANGED <<SINGLETON, IN_FLIGHT, call>>
    BY <1>1, BootShape, SubscribeShape, InstallShape DEF Boot, Late
  <2>2. run'[c] # "ok" /\ SINGLETON = None
    BY <2>1 DEF OneRun, Boot, Late
  <2> QED BY <2>1, <2>2 DEF OneRun
<1>2. CASE Publish(c)
  <2>1. /\ run' = [run EXCEPT ![c] = "ok"] /\ run[c] = "anon" /\ run \in [Callers -> Runs]
        /\ UNCHANGED <<IN_FLIGHT, call>> /\ SINGLETON' = c
    BY <1>2 DEF Publish, Run, InitType
  <2>2. SINGLETON = None /\ IN_FLIGHT = c
    BY <2>1 DEF OneRun, Late
  <2>3. \A d \in Callers \ {c} : run'[d] = run[d] /\ run[d] \notin Boot \cup Late \cup {"ok"}
    BY <2>1, <2>2 DEF OneRun
  <2>4. run'[c] = "ok" /\ run'[c] \notin Boot \cup Late
    BY <2>1 DEF Boot, Late
  <2>5. \A d \in Callers : call[d].got \notin Callers
    BY <2>2 DEF OneRun
  <2> QED BY <2>1, <2>2, <2>3, <2>4, <2>5 DEF OneRun
<1> QED BY <1>1, <1>2

(* Two runs that have come to their subscriber and not failed are one. *)
LEMMA OneSubscriber ==
    ASSUME OneRun, NEW c \in Callers, NEW d \in Callers,
           run[c] \in Late \cup {"ok"}, run[d] \in Late \cup {"ok"}
    PROVE  c = d
BY DEF OneRun

(* A subscriber that is not "none" belongs to such a run. *)
LEMMA Told ==
    ASSUME Sound, NEW c \in Callers, sub[c].st # "none"
    PROVE  run[c] \in Late \cup {"ok"}
BY DEF Sound, Unwired, InitType, Runs, Boot, Late

(* The subscriber follows the active schema while init() goes on. *)
LEMMA FollowsRuns ==
    ASSUME Sound, OneRun, Follows, NEW c \in Callers,
           \/ (\E o \in Options : Enter(c, o)) \/ makeUdsFetch(c) \/ Resume(c)
           \/ LoadManifest(c) \/ ensureAgent(c) \/ LiveSchema(c) \/ Subscribe(c)
           \/ installOpenAIPatch(c) \/ installAnthropicPatch(c) \/ installNodeHttpInterceptor(c)
           \/ Publish(c)
    PROVE  Follows' /\ (active' # active => SINGLETON = None)
<1> USE DEF Sound
<1>0. \A i \in DOMAIN refresh : refresh[i].sub \in Callers
  <2> SUFFICES ASSUME NEW i \in DOMAIN refresh PROVE refresh[i].sub \in Callers
    OBVIOUS
  <2>1. refresh \in Seq(AskType)
    BY DEF InitType
  <2>2. refresh[i] \in AskType
    BY <2>1
  <2> QED BY <2>2 DEF AskType
<1>1. CASE (\E o \in Options : Enter(c, o)) \/ makeUdsFetch(c)
  <2>1. /\ run[c] = "none" /\ run'[c] \in {"none", "manifest"}
        /\ \A d \in Callers \ {c} : run'[d] = run[d]
        /\ UNCHANGED <<sub, active, refresh>>
    BY <1>1, EnterShape DEF CallState, OthersStay, Settled, Joins, Starts
  <2> QED BY <1>0, <2>1 DEF Follows, Late
<1>2. CASE Resume(c)
  BY <1>2, ResumeShape DEF Follows
<1>3. CASE LoadManifest(c) \/ ensureAgent(c) \/ LiveSchema(c)
  <2>1. /\ run[c] \in Boot /\ run'[c] \in Boot \cup {"failed"}
        /\ \A d \in Callers \ {c} : run'[d] = run[d]
        /\ UNCHANGED <<sub, refresh>>
    BY <1>3, BootShape
  <2>2. SINGLETON = None /\ IN_FLIGHT = c
    BY <2>1 DEF OneRun
  <2>3. \A d \in Callers : run[d] \notin Late \cup {"ok"} /\ run'[d] \notin Late \cup {"ok"}
    BY <2>1, <2>2 DEF OneRun, Boot, Late
  <2> QED BY <1>0, <2>1, <2>2, <2>3 DEF Follows
<1>4. CASE Subscribe(c)
  <2>1. /\ run[c] \notin Late \cup {"ok"} /\ run'[c] \in Late
        /\ \A d \in Callers \ {c} : run'[d] = run[d] /\ sub'[d] = sub[d]
        /\ sub'[c].current = active /\ sub'[c].pushed = sub[c].pushed
        /\ UNCHANGED <<active, refresh>>
    BY <1>4, SubscribeShape DEF Late
  <2> QED BY <1>0, <2>1 DEF Follows
<1>5. CASE \/ installOpenAIPatch(c) \/ installAnthropicPatch(c) \/ installNodeHttpInterceptor(c)
           \/ Publish(c)
  <2>1. /\ run[c] \in Late /\ run'[c] \in Late \cup {"ok"}
        /\ \A d \in Callers \ {c} : run'[d] = run[d]
        /\ UNCHANGED <<sub, active, refresh>>
    BY <1>5, InstallShape DEF Publish, Run, InitType, Late
  <2> QED BY <1>0, <2>1 DEF Follows
<1> QED BY <1>1, <1>2, <1>3, <1>4, <1>5

(* It follows the active schema while events and answers arrive, and the   *)
(* schema only moves forward then.                                         *)
LEMMA FollowsElse ==
    ASSUME Sound, OneRun, Follows,
           \/ \E c \in Callers : Connected(c) \/ handleEvent(c)
           \/ SchemaInstalled \/ shutdown \/ Refresh \/ UNCHANGED vars
    PROVE  OneRun' /\ Follows' /\ active' >= active
<1> USE DEF Sound
<1>0. active \in Nat /\ active >= active /\ refresh \in Seq(AskType)
  BY DEF InitType
<1>1. CASE SchemaInstalled \/ \E c \in Callers : Connected(c) \/ handleEvent(c)
  <2>1. UNCHANGED <<SINGLETON, IN_FLIGHT, call, run, active>>
    BY <1>1, StreamShape
  <2>2. \A d \in Callers : run'[d] \in Late \cup {"ok"} => sub'[d].current = active'
    BY <1>1, <2>1, StreamShape DEF Follows
  <2>3. \A d \in Callers : sub'[d].pushed > 0 => run'[d] \in Late \cup {"ok"}
    BY <1>1, <2>1, StreamShape, Told DEF Follows
  <2>4. \A i \in DOMAIN refresh' : run'[refresh'[i].sub] \in Late \cup {"ok"}
    <3>1. CASE refresh' = refresh
      BY <2>1, <3>1 DEF Follows
    <3>2. ASSUME NEW c \in Callers, sub[c].pushed > 0, refresh' = Append(refresh, Asked(c))
          PROVE  \A i \in DOMAIN refresh' : run'[refresh'[i].sub] \in Late \cup {"ok"}
      <4> SUFFICES ASSUME NEW i \in DOMAIN refresh' PROVE run[refresh'[i].sub] \in Late \cup {"ok"}
        BY <2>1
      <4>1. i \in DOMAIN refresh \/ i = Len(refresh) + 1
        BY <1>0, <3>2
      <4>2. CASE i \in DOMAIN refresh
        <5>1. refresh'[i] = refresh[i]
          BY <1>0, <3>2, <4>2
        <5> QED BY <4>2, <5>1 DEF Follows
      <4>3. CASE i = Len(refresh) + 1
        <5>1. refresh'[i] = Asked(c)
          BY <1>0, <3>2, <4>3
        <5>2. refresh'[i].sub = c
          BY <5>1 DEF Asked
        <5> QED BY <3>2, <5>2 DEF Follows
      <4> QED BY <4>1, <4>2, <4>3
    <3> QED BY <1>1, <3>1, <3>2, StreamShape
  <2> QED BY <1>0, <2>1, <2>2, <2>3, <2>4 DEF OneRun, Follows
<1>2. CASE shutdown
  BY <1>0, <1>2, ShutdownShape DEF OneRun, Follows
<1>3. ASSUME NEW i, RefreshAnswered(i) PROVE OneRun' /\ Follows' /\ active' >= active
  BY <1>0, <1>3, AnsweredShape DEF OneRun, Follows
<1>4. ASSUME NEW i, refreshSchema(i) PROVE OneRun' /\ Follows' /\ active' >= active
  <2>1. UNCHANGED <<SINGLETON, IN_FLIGHT, call, run>>
    BY <1>4, RefreshShape
  <2>2. /\ i \in DOMAIN refresh /\ refresh[i].sub \in Callers
        /\ run[refresh[i].sub] \in Late \cup {"ok"}
    BY <1>4, RefreshShape DEF Follows
  <2>3. sub[refresh[i].sub].current = active
    BY <2>2 DEF Follows
  <2>4. \A d \in Callers : run'[d] \in Late \cup {"ok"} => sub'[d].current = active'
    <3>1. CASE UNCHANGED <<sub, active>>
      BY <2>1, <3>1 DEF Follows
    <3>2. CASE sub'[refresh[i].sub].current = active'
      BY <2>1, <2>2, <3>2, OneSubscriber
    <3> QED BY <1>4, <3>1, <3>2, RefreshShape
  <2>5. \A d \in Callers : sub'[d].pushed > 0 => run'[d] \in Late \cup {"ok"}
    BY <1>4, <2>1, RefreshShape DEF Follows
  <2>6. \A j \in DOMAIN refresh' : run'[refresh'[j].sub] \in Late \cup {"ok"}
    BY <1>4, <2>1, RefreshShape DEF Follows
  <2>7. active' >= active
    BY <1>0, <1>4, <2>3, RefreshShape
  <2> QED BY <2>1, <2>4, <2>5, <2>6, <2>7 DEF OneRun, Follows
<1>5. CASE UNCHANGED vars
  BY <1>0, <1>5 DEF vars, OneRun, Follows
<1> QED BY <1>1, <1>2, <1>3, <1>4, <1>5 DEF Refresh

Coordinated == Sound /\ OneRun /\ Follows

LEMMA CoordinatedAlways == ASSUME Coalesced PROVE Spec => []Coordinated
<1>1. Init => Coordinated
  <2>1. Init => OneRun /\ Follows
    BY DEF Init, OneRun, Follows, Boot, Late
  <2> QED BY <2>1, SoundInit DEF Coordinated
<1>2. Coordinated /\ [Next]_vars => Coordinated'
  <2> SUFFICES ASSUME Coordinated, [Next]_vars PROVE Coordinated'
    OBVIOUS
  <2> USE DEF Coordinated
  <2>1. Sound'
    BY SoundCalls, SoundRuns, SoundElse DEF Next, Step
  <2>2. OneRun' /\ Follows'
    BY OneRunCalls, OneRunRuns, FollowsRuns, FollowsElse DEF Next, Step
  <2> QED BY <2>1, <2>2
<1> QED BY <1>1, <1>2, PTL DEF Spec

(* "Concurrent callers coalesce on the in-flight promise": without a       *)
(* unix:// PDP every call that returns a runtime returns the published     *)
(* one, and no run is published but that one, for any number of calls and  *)
(* whatever runs fail in between.                                          *)
THEOREM RuntimeIsOne == ASSUME Coalesced PROVE Spec => []OneRuntime
<1>1. Coordinated => OneRuntime
  BY DEF Coordinated, OneRun, OneRuntime
<1> QED BY <1>1, CoordinatedAlways, PTL

(* Once a runtime is published the active schema never goes back, however  *)
(* many refreshes are under way and in whatever order they are answered    *)
(* and applied: the subscriber's own version, against which refreshSchema  *)
(* compares, is the active one because there is one subscriber.            *)
THEOREM SchemaNeverBack == ASSUME Coalesced PROVE Spec => SchemaMonotone
<1>1. Coordinated /\ [Next]_vars =>
        [SINGLETON # None /\ SINGLETON' = SINGLETON => active' >= active]_vars
  <2> SUFFICES ASSUME Coordinated, Next, SINGLETON # None, SINGLETON' = SINGLETON
               PROVE  active' >= active
    OBVIOUS
  <2>0. active \in Nat /\ active >= active
    BY DEF Coordinated, Sound, InitType
  <2> QED BY <2>0, FollowsRuns, FollowsElse DEF Coordinated, Next, Step
<1> QED BY <1>1, CoordinatedAlways, PTL DEF Spec, SchemaMonotone
=============================================================================
