--------------------------- MODULE InitLifecycle ---------------------------
(***************************************************************************)
(* init(), shutdown() and the schema's subscriber: init.ts, the manifest's *)
(* loader, client, reconcile.ts and state.ts, binding/dispatch.ts,         *)
(* pii/secrets.ts and SchemaSubscriber of manifest/sse-subscriber.ts (its  *)
(* policy stream is PolicyPlane).                                          *)
(*                                                                         *)
(* A call of init() finds the singleton, joins the run in flight or starts *)
(* a run of its own, which is named after it.  A step goes from one await  *)
(* to the next.  A schema is its version, 0 is none; the patches and       *)
(* interceptors themselves are SdkTools, McpEgress and HttpEgress.         *)
(***************************************************************************)
EXTENDS Integers, Sequences, FiniteSets

CONSTANTS
    Callers,       \* calls of init()
    Options,       \* what they may be called with
    None,
    Hashing,       \* versions with a dimension whose pii is hash or tokenize
    MaxVersion,    \* bound: versions installed
    MaxRefreshes,  \* bound: refreshes
    MaxShutdowns   \* bound: calls of shutdown()

ASSUME InitAssumption ==
    /\ {None, "threw"} \cap Callers = {}
    /\ \A o \in Options : o.version \in Nat
    /\ MaxVersion \in Nat /\ MaxRefreshes \in Nat /\ MaxShutdowns \in Nat

VARIABLES
    SINGLETON,  \* the run that published it
    IN_FLIGHT,  \* the run whose promise it is
    call,       \* the calls of init()
    run,        \* the runs they started
    sub,        \* each run's SchemaSubscriber
    wired,      \* of each patch and interceptor, the run that put it in place
    active,     \* the active schema
    secrets,    \* the PII secrets are loaded
    live,       \* the schema installed at the server
    refresh,    \* the refreshes under way and over
    missed,     \* history: the subscriber was not told of an install, or could not follow it
    shutdowns

vars == <<SINGLETON, IN_FLIGHT, call, run, sub, wired, active, secrets, live, refresh, missed, shutdowns>>

Planes == {"openai", "anthropic", "mcp", "fetch", "undici", "node"}
Fails == -1

NoOptions == <<>>

Init ==
    /\ SINGLETON = None /\ IN_FLIGHT = None
    /\ call = [c \in Callers |-> [pc |-> "idle", opts |-> NoOptions, joins |-> None, got |-> None]]
    /\ run = [c \in Callers |-> "none"]
    /\ sub = [c \in Callers |-> [st |-> "none", closed |-> FALSE, current |-> 0, pushed |-> 0]]
    /\ wired = [p \in Planes |-> None]
    /\ active = 0 /\ secrets = FALSE
    /\ live \in 0..MaxVersion
    /\ refresh = <<>> /\ missed = FALSE /\ shutdowns = 0

O(c) == call[c].opts

----------------------------------------------------------------------------
(* A call of init(). *)

Returned(q, r) == [q EXCEPT !.pc = "done", !.opts = NoOptions, !.got = r]
Threw(q) == Returned(q, "threw")

\* The required options, and openai imported before init() with
\* requirePreInitImport "throw"; then the run is started, whatever became of
\* IN_FLIGHT since the call looked at it.
Start(c, q) ==
    IF ~q.opts.valid
    THEN call' = [call EXCEPT ![c] = Threw(q)] /\ UNCHANGED <<IN_FLIGHT, run>>
    ELSE /\ call' = [call EXCEPT ![c] = [q EXCEPT !.pc = "wait", !.joins = c]]
         /\ IN_FLIGHT' = c /\ run' = [run EXCEPT ![c] = "manifest"]

(* Mutant: the run in flight is not looked for. *)
EnterAlone(c, o) ==
    LET q == [call[c] EXCEPT !.opts = o]
    IN  /\ call[c].pc = "idle"
        /\ IF SINGLETON # None
           THEN call' = [call EXCEPT ![c] = Returned(q, SINGLETON)] /\ UNCHANGED <<IN_FLIGHT, run>>
           ELSE Start(c, q)
        /\ UNCHANGED <<SINGLETON, sub, wired, active, secrets, live, refresh, missed, shutdowns>>

\* With a unix:// PDP the call awaits the import of its fetch shim.
Enter(c, o) ==
    LET q == [call[c] EXCEPT !.opts = o]
    IN  /\ call[c].pc = "idle"
        /\ IF SINGLETON # None
           THEN call' = [call EXCEPT ![c] = Returned(q, SINGLETON)] /\ UNCHANGED <<IN_FLIGHT, run>>
           ELSE IF IN_FLIGHT # None
           THEN /\ call' = [call EXCEPT ![c] = [call[c] EXCEPT !.pc = "wait", !.joins = IN_FLIGHT]]
                /\ UNCHANGED <<IN_FLIGHT, run>>
           ELSE IF o.pdp = "unix"
           THEN call' = [call EXCEPT ![c] = [q EXCEPT !.pc = "uds"]] /\ UNCHANGED <<IN_FLIGHT, run>>
           ELSE Start(c, q)
        /\ UNCHANGED <<SINGLETON, sub, wired, active, secrets, live, refresh, missed, shutdowns>>

\* The shim is there, or cannot be built and the PDP is left out.
makeUdsFetch(c) ==
    /\ call[c].pc = "uds" /\ Start(c, call[c])
    /\ UNCHANGED <<SINGLETON, sub, wired, active, secrets, live, refresh, missed, shutdowns>>

\* The promise settles, and the call that started the run clears IN_FLIGHT.
Resume(c) ==
    LET q == call[c]
    IN  /\ q.pc = "wait" /\ run[q.joins] \in {"ok", "failed"}
        /\ call' = [call EXCEPT ![c] = IF run[q.joins] = "ok" THEN Returned(q, q.joins) ELSE Threw(q)]
        /\ IN_FLIGHT' = IF q.joins = c THEN None ELSE IN_FLIGHT
        /\ UNCHANGED <<SINGLETON, run, sub, wired, active, secrets, live, refresh, missed, shutdowns>>

----------------------------------------------------------------------------
(* The run, up to the schema. *)

Run(c, pc) == run' = [run EXCEPT ![c] = pc]

\* Several manifests, an unreadable one or one that is no YAML.
discoverManifest(o) == o.manifest # "broken"

\* Only orchestrator (the default) and framework_hook are supported.
runPerModeScan(o) == o.manifest # "mode"

\* The schema of the manifest; the manifest "invalid" fails its validation.
localSchema(o) == IF o.manifest = "none" THEN 0 ELSE o.version

LoadManifest(c) ==
    /\ run[c] = "manifest"
    /\ Run(c, IF discoverManifest(O(c)) /\ runPerModeScan(O(c)) THEN "ensure" ELSE "failed")
    /\ UNCHANGED <<SINGLETON, IN_FLIGHT, call, sub, wired, active, secrets, live, refresh, missed, shutdowns>>

\* /sdk/register, one POST, answers or the run fails; then parseAndValidate.
ensureAgent(c) ==
    /\ run[c] = "ensure"
    /\ \E ok \in BOOLEAN : Run(c, IF ok /\ O(c).manifest # "invalid" THEN "schema" ELSE "failed")
    /\ UNCHANGED <<SINGLETON, IN_FLIGHT, call, sub, wired, active, secrets, live, refresh, missed, shutdowns>>

\* What GET /schema may answer: the installed schema, 404, or a failure.
getLiveSchema == {live, 0, Fails}

\* The winner; a failed fetch counts as none if there is a manifest.
reconcileVersions(local, got) ==
    LET r == IF got = Fails THEN 0 ELSE got
    IN  CASE local = 0 -> IF r = 0 THEN Fails ELSE r
          [] local > 0 /\ r = 0 -> local
          [] OTHER -> IF local = r THEN local ELSE IF local > r THEN r ELSE Fails

\* A missing secret aborts the run, after the schema was made the active one.
assertSecretsForActiveSchema(o, schema) == schema \in Hashing => o.secrets

\* Everything of the subscriber's start() before its import.
start(c) == [sub EXCEPT ![c] = [@ EXCEPT !.st = "importing", !.current = active]]

(* Mutant: the subscriber is started before the secrets are checked. *)
LiveSchemaEager(c) ==
    /\ run[c] = "schema"
    /\ \E got \in getLiveSchema :
          LET schema == reconcileVersions(localSchema(O(c)), got)
          IN  IF schema = Fails
              THEN Run(c, "failed") /\ UNCHANGED <<active, secrets, sub>>
              ELSE /\ active' = schema /\ secrets' = O(c).secrets
                   /\ sub' = start(c)
                   /\ Run(c, IF assertSecretsForActiveSchema(O(c), schema) THEN "uuid" ELSE "failed")
    /\ UNCHANGED <<SINGLETON, IN_FLIGHT, call, wired, live, refresh, missed, shutdowns>>

LiveSchema(c) ==
    /\ run[c] = "schema"
    /\ \E got \in getLiveSchema :
          LET schema == reconcileVersions(localSchema(O(c)), got)
          IN  IF schema = Fails
              THEN Run(c, "failed") /\ UNCHANGED <<active, secrets, missed>>
              ELSE /\ active' = schema
                   /\ missed' = (missed \/ schema < live)
                   /\ IF O(c).pii = "invalid"   \* parsePiiManifestBlock
                      THEN Run(c, "failed") /\ UNCHANGED secrets
                      ELSE /\ secrets' = O(c).secrets
                           /\ Run(c, IF assertSecretsForActiveSchema(O(c), schema) THEN "uuid" ELSE "failed")
    /\ UNCHANGED <<SINGLETON, IN_FLIGHT, call, sub, wired, live, refresh, shutdowns>>

----------------------------------------------------------------------------
(* The run, from the subscriber to the singleton. *)

\* The default session's id is there: the evaluator and the subscriber, whose
\* start is not awaited.
Subscribe(c) ==
    /\ run[c] = "uuid"
    /\ sub' = start(c)
    /\ Run(c, IF O(c).planes = {} THEN "anon" ELSE "openai")
    /\ UNCHANGED <<SINGLETON, IN_FLIGHT, call, wired, active, secrets, live, refresh, missed, shutdowns>>

\* What is in place already stays as it is.
Installs(c, ps) ==
    wired' = [p \in Planes |-> IF wired[p] = None /\ p \in ps \cap O(c).planes THEN c ELSE wired[p]]

installOpenAIPatch(c) ==
    /\ run[c] = "openai" /\ Installs(c, {"openai"}) /\ Run(c, "anthropic")
    /\ UNCHANGED <<SINGLETON, IN_FLIGHT, call, sub, active, secrets, live, refresh, missed, shutdowns>>

\* From here to the import of the node interceptor nothing is awaited.
installAnthropicPatch(c) ==
    /\ run[c] = "anthropic"
    /\ Installs(c, {"anthropic", "mcp", "fetch", "undici"})
    /\ Run(c, IF "node" \in O(c).planes THEN "node" ELSE "anon")
    /\ UNCHANGED <<SINGLETON, IN_FLIGHT, call, sub, active, secrets, live, refresh, missed, shutdowns>>

installNodeHttpInterceptor(c) ==
    /\ run[c] = "node" /\ Installs(c, {"node"}) /\ Run(c, "anon")
    /\ UNCHANGED <<SINGLETON, IN_FLIGHT, call, sub, active, secrets, live, refresh, missed, shutdowns>>

\* resolveAnonymousClientId never throws.
Publish(c) ==
    /\ run[c] = "anon" /\ SINGLETON' = c /\ Run(c, "ok")
    /\ UNCHANGED <<IN_FLIGHT, call, sub, wired, active, secrets, live, refresh, missed, shutdowns>>

----------------------------------------------------------------------------
(* The subscriber. *)

\* The import is there, or fails; whether close() was called meanwhile is not
\* looked at.
Connected(c) ==
    /\ sub[c].st = "importing"
    /\ \E ok \in BOOLEAN : sub' = [sub EXCEPT ![c].st = IF ok THEN "open" ELSE "failed"]
    /\ missed' = (missed \/ sub'[c].st = "failed")
    /\ UNCHANGED <<SINGLETON, IN_FLIGHT, call, run, wired, active, secrets, live, refresh, shutdowns>>

\* An event may be lost while the stream reconnects.
SchemaInstalled ==
    /\ live < MaxVersion /\ live' = live + 1
    /\ \E told \in SUBSET {c \in Callers : sub[c].st = "open"} :
          /\ sub' = [c \in Callers |-> IF c \in told THEN [sub[c] EXCEPT !.pushed = @ + 1] ELSE sub[c]]
          /\ missed' = (missed \/ \E c \in Callers : run[c] \notin {"none", "failed"} /\ active > 0 /\ c \notin told)
    /\ UNCHANGED <<SINGLETON, IN_FLIGHT, call, run, wired, active, secrets, refresh, shutdowns>>

Asked(c) == [sub |-> c, got |-> None]

(* Mutant: an event is skipped while a refresh is under way. *)
handleEventCoalesces(c) ==
    /\ sub[c].pushed > 0
    /\ sub' = [sub EXCEPT ![c].pushed = @ - 1]
    /\ refresh' = IF sub[c].closed \/ \E i \in DOMAIN refresh : refresh[i].sub = c THEN refresh
                  ELSE Append(refresh, Asked(c))
    /\ UNCHANGED <<SINGLETON, IN_FLIGHT, call, run, wired, active, secrets, live, missed, shutdowns>>

\* schema_installed or lagged: each starts a refresh.  A payload that is no
\* JSON or names another agent is dropped.
handleEvent(c) ==
    /\ sub[c].pushed > 0 /\ Len(refresh) < MaxRefreshes
    /\ sub' = [sub EXCEPT ![c].pushed = @ - 1]
    /\ \/ refresh' = (IF sub[c].closed THEN refresh ELSE Append(refresh, Asked(c))) /\ UNCHANGED missed
       \/ missed' = TRUE /\ UNCHANGED refresh
    /\ UNCHANGED <<SINGLETON, IN_FLIGHT, call, run, wired, active, secrets, live, shutdowns>>

\* The server handles the GET of a refresh.
RefreshAnswered(i) ==
    /\ i \in DOMAIN refresh /\ refresh[i].got = None
    /\ \E got \in getLiveSchema :
          /\ refresh' = [refresh EXCEPT ![i].got = got]
          /\ missed' = (missed \/ got # live)
    /\ UNCHANGED <<SINGLETON, IN_FLIGHT, call, run, sub, wired, active, secrets, live, shutdowns>>

Drop(i) == SubSeq(refresh, 1, i - 1) \o SubSeq(refresh, i + 1, Len(refresh))

(* Mutant: whatever the server said last is applied. *)
refreshSchemaBlind(i) ==
    /\ i \in DOMAIN refresh /\ refresh[i].got # None
    /\ IF refresh[i].got \in {0, Fails} THEN UNCHANGED <<sub, active>>
       ELSE /\ sub' = [sub EXCEPT ![refresh[i].sub].current = refresh[i].got]
            /\ active' = refresh[i].got
    /\ refresh' = Drop(i)
    /\ UNCHANGED <<SINGLETON, IN_FLIGHT, call, run, wired, secrets, live, missed, shutdowns>>

\* The answer is there.  A version behind the subscriber's own is taken for a
\* push out of order; closed is not looked at again, nor are the secrets.
refreshSchema(i) ==
    /\ i \in DOMAIN refresh /\ refresh[i].got # None
    /\ LET c == refresh[i].sub
           v == refresh[i].got
       IN  IF v \in {0, Fails} \/ v < sub[c].current THEN UNCHANGED <<sub, active>>
           ELSE sub' = [sub EXCEPT ![c].current = v] /\ active' = v
    /\ refresh' = Drop(i)
    /\ UNCHANGED <<SINGLETON, IN_FLIGHT, call, run, wired, secrets, live, missed, shutdowns>>

\* A subscriber that is still importing has nothing to close yet.
close(c) == [sub EXCEPT ![c].closed = TRUE, ![c].st = IF @ = "open" THEN "closed" ELSE @]

\* The subscriber and the interceptors go; patches and the singleton stay.
shutdown ==
    /\ shutdowns < MaxShutdowns /\ shutdowns' = shutdowns + 1
    /\ IF SINGLETON = None THEN UNCHANGED <<sub, wired>>
       ELSE /\ sub' = close(SINGLETON)
            /\ wired' = [p \in Planes |->
                           IF p \in {"fetch", "undici", "node"} /\ wired[p] = SINGLETON THEN None ELSE wired[p]]
    /\ UNCHANGED <<SINGLETON, IN_FLIGHT, call, run, active, secrets, live, refresh, missed>>

----------------------------------------------------------------------------

Step(c) ==
    \/ makeUdsFetch(c) \/ Resume(c)
    \/ LoadManifest(c) \/ ensureAgent(c) \/ LiveSchema(c) \/ Subscribe(c)
    \/ installOpenAIPatch(c) \/ installAnthropicPatch(c) \/ installNodeHttpInterceptor(c) \/ Publish(c)
    \/ Connected(c) \/ handleEvent(c)

Refresh == \E i \in 1..MaxRefreshes : RefreshAnswered(i) \/ refreshSchema(i)

Next ==
    \/ \E c \in Callers : Step(c) \/ \E o \in Options : Enter(c, o)
    \/ Refresh \/ SchemaInstalled \/ shutdown

Spec == Init /\ [][Next]_vars

\* The server answers or the request times out, imports end.
FairSpec ==
    /\ Spec
    /\ \A c \in Callers :
          WF_vars(Step(c)) /\ WF_vars(handleEvent(c)) /\ WF_vars(Connected(c))
    /\ WF_vars(Refresh)

----------------------------------------------------------------------------
(* Properties. *)

(* All callers of init() get one and the same runtime, and it is the one   *)
(* getRuntime() returns: nobody is left holding a runtime whose subscriber *)
(* no shutdown() reaches (init: "concurrent callers coalesce on the        *)
(* in-flight promise").                                                    *)
OneRuntime ==
    \A c \in Callers :
        /\ call[c].got \in Callers => call[c].got = SINGLETON
        /\ run[c] = "ok" => SINGLETON = c

(* A run that fails has opened no stream and put no patch in place, though *)
(* it may already have replaced the active schema: init() "aborts before   *)
(* observability is partially wired".                                      *)
AbortBeforeWiring ==
    \A c \in Callers : run[c] = "failed" =>
        sub[c].st = "none" /\ \A p \in Planes : wired[p] # c

(* Once a runtime is published the active schema never goes back to an     *)
(* older version, in whatever order events and answers arrive, also after  *)
(* shutdown() (refreshSchema).                                             *)
SchemaMonotone == [][SINGLETON # None /\ SINGLETON' = SINGLETON => active' >= active]_vars

(* If the subscriber was told of every install since the run read the      *)
(* schema, and the server answered, the process ends up with the newest.   *)
SchemaConverges ==
    <>[](SINGLETON # None /\ ~missed /\ ~sub[SINGLETON].closed => active >= live)
=============================================================================
