---------------------------- MODULE AuditBuffer ----------------------------
(***************************************************************************)
(* The audit pipeline of AgentumClient (client.ts): ingestAuditEvent       *)
(* appends to an in-process buffer, drainAuditBuffer takes batches off it, *)
(* runs every event through the PII pipeline and POSTs the batch through   *)
(* requestWithResponse, with its retries and its one token refresh.  One   *)
(* drain runs at a time (auditFlushing); its pc names the await it is at:  *)
(*   "scrub"    await applyPiiPipelineOrDrop, one event after the other    *)
(*   "fetch"    await fetch: a POST of the batch is in flight              *)
(*   "refresh"  await tokenRefreshFn                                       *)
(* Everything else the host does (ingest, flush, close) runs in between.   *)
(*                                                                         *)
(* Events are numbered in the order of their ingestion.  The sleep before  *)
(* a retry is part of the await of the fetch that follows it.  A pipeline  *)
(* without rules skips the awaits of "scrub": a subset of the              *)
(* interleavings here.  disableAuditBuffer is off.                         *)
(***************************************************************************)
EXTENDS Naturals, Sequences, Functions

CONSTANTS
    BufferSize,  \* auditBufferSize
    BatchSize,   \* auditFlushBatchSize
    Interval,    \* auditFlushIntervalMs, in ticks
    MaxBackoff,  \* auditMaxBackoffMs, in ticks
    Retries,     \* retries
    HasRefresh,  \* tokenRefreshFn is set
    Leaky,       \* the events whose PII self-check fails
    Orderly,     \* the host calls close() between two drains, and flushes no more
    MaxEvents,   \* bound: events ingested
    MaxFaults    \* bound: failures of central, the network or the pipeline

ASSUME AuditAssumption ==
    /\ BufferSize \in Nat \ {0} /\ BatchSize \in Nat \ {0}
    /\ Interval \in Nat \ {0} /\ MaxBackoff \in Nat /\ MaxBackoff >= Interval
    /\ Retries \in Nat /\ HasRefresh \in BOOLEAN /\ Orderly \in BOOLEAN
    /\ MaxEvents \in Nat /\ MaxFaults \in Nat
    /\ Leaky \subseteq 1..MaxEvents

VARIABLES
    buffer,     \* auditBuffer
    timer,      \* auditFlushTimer is set
    closed,     \* auditClosed
    closer,     \* the close() call: none, draining, resumed, closed or rejected
    pc, force,  \* the drain, and its ignoreBackoff
    batch, todo, scrubbed,
    backoff,    \* auditBackoffMs
    left,       \* what is left until auditBackoffDeadline
    attempt, refreshed,
    reply,      \* what the await of the fetch will see
    seen,       \* central has ingested a request with the nonce of this POST
    issued, faults,
    acked, reported, masked, thrown, delivered,  \* ghosts: what became of the events
    sends       \* ghost: fetches of this POST

bufferVars  == <<buffer, timer, closed>>
drainVars   == <<pc, force, batch, todo, scrubbed>>
backoffVars == <<backoff, left>>
postVars    == <<attempt, refreshed, reply, seen, sends>>
ghostVars   == <<acked, reported, masked, thrown, delivered>>
vars == <<bufferVars, drainVars, backoffVars, postVars, ghostVars, closer, issued, faults>>
-----------------------------------------------------------------------------
Event == 1..MaxEvents

(* The classes of outcome requestWithResponse and drainAuditBuffer tell    *)
(* apart: refused is a 4xx, throttled 429, busy 502-504, error another     *)
(* 5xx, reset a retryable network code, timeout the abort.                 *)
Failed    == {"auth", "refused", "throttled", "busy", "error", "reset", "timeout"}
Retryable == {"throttled", "busy", "reset"}
Permanent == {"auth", "refused", "throttled"}

Least(m, n) == IF m < n THEN m ELSE n

Init ==
    /\ buffer = <<>> /\ timer = FALSE /\ closed = FALSE /\ closer = "none"
    /\ pc = "idle" /\ force = FALSE
    /\ batch = <<>> /\ todo = <<>> /\ scrubbed = <<>>
    /\ backoff = 0 /\ left = 0
    /\ attempt = 0 /\ refreshed = FALSE /\ reply = "none" /\ seen = FALSE /\ sends = 0
    /\ issued = 0 /\ faults = 0
    /\ acked = {} /\ reported = {} /\ masked = {} /\ thrown = {} /\ delivered = {}
-----------------------------------------------------------------------------
(* Mutant: a full buffer swallows its oldest event without a word. *)
ingestSilently(e) ==
    LET full == Len(buffer) >= BufferSize IN
    /\ buffer' = Append(IF full THEN Tail(buffer) ELSE buffer, e)
    /\ UNCHANGED reported
    /\ timer' = TRUE

(* Mutant: the flush timer is not started. *)
ingestUnarmed(e) ==
    LET full == Len(buffer) >= BufferSize IN
    /\ buffer' = Append(IF full THEN Tail(buffer) ELSE buffer, e)
    /\ reported' = IF full THEN reported \cup {Head(buffer)} ELSE reported
    /\ UNCHANGED timer

(* An open client drops the oldest event of a full buffer, and reports it. *)
ingestOpen(e) ==
    LET full == Len(buffer) >= BufferSize IN
    /\ buffer' = Append(IF full THEN Tail(buffer) ELSE buffer, e)
    /\ reported' = IF full THEN reported \cup {Head(buffer)} ELSE reported
    /\ timer' = TRUE

ingestAuditEvent ==
    LET e == issued + 1 IN
    /\ issued < MaxEvents
    /\ issued' = e
    /\ \/ /\ closed
          /\ reported' = reported \cup {e}
          /\ UNCHANGED <<buffer, timer>>
       \/ ~closed /\ ingestOpen(e)
    /\ UNCHANGED <<closed, drainVars, backoffVars, postVars, closer, faults,
                   acked, masked, thrown, delivered>>
-----------------------------------------------------------------------------
(* splice(0, auditFlushBatchSize) *)
TakeBatch ==
    LET n == Least(BatchSize, Len(buffer)) IN
    /\ batch' = SubSeq(buffer, 1, n) /\ todo' = batch' /\ scrubbed' = <<>>
    /\ buffer' = SubSeq(buffer, n + 1, Len(buffer))
    /\ pc' = "scrub"

(* The drain ends; a forced one resumes close(), which a throw rejects. *)
Finish(how) ==
    /\ pc' = "idle" /\ force' = FALSE
    /\ batch' = <<>> /\ todo' = <<>> /\ scrubbed' = <<>>
    /\ closer' = IF force THEN how ELSE closer

(* A batch is dealt with: periodic drains stop, a forced one goes on until *)
(* the buffer is empty.                                                    *)
NextBatch ==
    \/ /\ force /\ buffer # <<>>
       /\ TakeBatch
       /\ UNCHANGED <<force, closer>>
    \/ /\ ~force \/ buffer = <<>>
       /\ Finish("resumed")
       /\ UNCHANGED buffer

MayDrain(f) == pc = "idle" /\ buffer # <<>> /\ (f \/ left = 0)

drainAuditBuffer(f) ==
    /\ MayDrain(f)
    /\ TakeBatch
    /\ force' = f
    /\ UNCHANGED <<timer, closed, backoffVars, postVars, ghostVars, issued, faults>>

TimerFires == timer /\ drainAuditBuffer(FALSE) /\ UNCHANGED closer

flushAuditBuffer ==
    /\ Orderly => closer = "none"
    /\ drainAuditBuffer(FALSE)
    /\ UNCHANGED closer

resetBackoff == backoff' = 0 /\ left' = 0

raiseBackoff ==
    LET b == Least(IF backoff > 0 THEN 2 * backoff ELSE Interval, MaxBackoff) IN
    backoff' = b /\ left' = b

(* A new POST: a fresh nonce, and a request of its own retries. *)
Post ==
    /\ pc' = "fetch"
    /\ attempt' = 0 /\ refreshed' = FALSE
    /\ reply' = "none" /\ seen' = FALSE /\ sends' = 1

(* Mutant: an event that fails its self-check is sent as it is. *)
MaskAnyway(e) == Append(scrubbed, e)

(* The batch so far, once event e went through the PII pipeline: dropped   *)
(* when its self-check fails.                                              *)
applyPiiPipelineOrDrop(e) == IF e \in Leaky THEN scrubbed ELSE Append(scrubbed, e)

(* One event scrubbed; after the last one the batch is posted, or skipped  *)
(* when nothing of it is left.                                             *)
ScrubEvent ==
    LET e == Head(todo)
        s == applyPiiPipelineOrDrop(e) IN
    /\ pc = "scrub"
    /\ masked' = IF s = scrubbed THEN masked \cup {e} ELSE masked
    /\ \/ /\ Tail(todo) # <<>>
          /\ todo' = Tail(todo) /\ scrubbed' = s
          /\ UNCHANGED <<pc, force, batch, buffer, closer, backoffVars, postVars>>
       \/ /\ Tail(todo) = <<>> /\ s # <<>>
          /\ Post
          /\ todo' = <<>> /\ scrubbed' = s
          /\ UNCHANGED <<force, batch, buffer, closer, backoffVars>>
       \/ /\ Tail(todo) = <<>> /\ s = <<>>
          /\ resetBackoff
          /\ NextBatch
          /\ UNCHANGED postVars
    /\ UNCHANGED <<timer, closed, issued, faults, acked, reported, thrown, delivered>>

(* Another error of the pipeline leaves drainAuditBuffer through its       *)
(* finally: the batch is gone, and the promise of the drain rejects.       *)
ScrubThrows ==
    /\ pc = "scrub" /\ faults < MaxFaults
    /\ faults' = faults + 1
    /\ thrown' = thrown \cup Range(batch)
    /\ Finish("rejected")
    /\ UNCHANGED <<bufferVars, backoffVars, postVars, issued,
                   acked, reported, masked, delivered>>
-----------------------------------------------------------------------------
(* Central ingests a batch whole, and refuses a nonce it has seen. *)
Ingest ==
    /\ pc = "fetch" /\ reply = "none"
    /\ reply' = IF seen THEN "refused" ELSE "ok"
    /\ seen' = TRUE
    /\ delivered' = IF seen THEN delivered ELSE delivered \cup Range(scrubbed)
    /\ UNCHANGED <<bufferVars, drainVars, backoffVars, attempt, refreshed, sends,
                   closer, issued, faults, acked, reported, masked, thrown>>

(* Central or the network fails the request, or loses the answer to one    *)
(* that was ingested.                                                      *)
Fault ==
    /\ pc = "fetch" /\ faults < MaxFaults
    /\ \/ reply = "none" /\ reply' \in Failed
       \/ reply = "ok" /\ reply' \in {"busy", "reset", "timeout"}
    /\ faults' = faults + 1
    /\ UNCHANGED <<bufferVars, drainVars, backoffVars, attempt, refreshed, seen, sends,
                   ghostVars, closer, issued>>

(* requestWithResponse's next fetch: the same body, headers and nonce. *)
Resend == reply' = "none" /\ sends' = sends + 1

MayRetry   == reply \in Retryable /\ attempt < Retries
MayRefresh == reply = "auth" /\ HasRefresh /\ ~refreshed /\ attempt < Retries

Retry ==
    /\ pc = "fetch" /\ MayRetry
    /\ attempt' = attempt + 1
    /\ Resend
    /\ UNCHANGED <<bufferVars, drainVars, backoffVars, refreshed, seen, ghostVars,
                   closer, issued, faults>>

Refresh ==
    /\ pc = "fetch" /\ MayRefresh
    /\ pc' = "refresh" /\ refreshed' = TRUE
    /\ UNCHANGED <<bufferVars, force, batch, todo, scrubbed, backoffVars, attempt,
                   reply, seen, sends, ghostVars, closer, issued, faults>>

(* The refreshed token is tried without using up an attempt. *)
Refreshed ==
    /\ pc = "refresh"
    /\ pc' = "fetch"
    /\ Resend
    /\ UNCHANGED <<bufferVars, force, batch, todo, scrubbed, backoffVars, attempt,
                   refreshed, seen, ghostVars, closer, issued, faults>>
-----------------------------------------------------------------------------
Delivered ==
    /\ pc = "fetch" /\ reply = "ok"
    /\ acked' = acked \cup Range(scrubbed)
    /\ resetBackoff
    /\ NextBatch
    /\ UNCHANGED <<timer, closed, postVars, issued, faults,
                   reported, masked, thrown, delivered>>

(* 4xx, 429 after the last retry too: the batch is dropped and reported. *)
DropBatch ==
    /\ reported' = reported \cup Range(batch)
    /\ UNCHANGED buffer

(* Mutant: what failed goes to the back of the queue. *)
RequeueAtTail ==
    /\ buffer' = buffer \o batch
    /\ UNCHANGED reported

(* Transport error or 5xx: the unscrubbed batch goes back to the front. *)
Requeue ==
    /\ buffer' = batch \o buffer
    /\ UNCHANGED reported

(* The POST rejected, refreshing and retrying over with. *)
PostFails ==
    /\ \/ pc = "refresh" /\ DropBatch
       \/ /\ pc = "fetch" /\ reply \in Permanent /\ ~MayRetry /\ ~MayRefresh
          /\ DropBatch
       \/ /\ pc = "fetch" /\ reply \in Failed \ Permanent /\ ~MayRetry
          /\ Requeue
    /\ raiseBackoff
    /\ Finish("resumed")
    /\ UNCHANGED <<timer, closed, postVars, issued, faults,
                   acked, masked, thrown, delivered>>
-----------------------------------------------------------------------------
(* close() up to its await.  A drain that is running makes its own return  *)
(* at once.                                                                *)
close ==
    /\ closer \in {"none", "closed", "rejected"}
    /\ Orderly => pc = "idle"
    /\ closed' = TRUE /\ timer' = FALSE
    /\ \/ /\ MayDrain(TRUE)
          /\ TakeBatch
          /\ force' = TRUE /\ closer' = "draining"
       \/ /\ ~MayDrain(TRUE)
          /\ closer' = "resumed"
          /\ UNCHANGED <<buffer, drainVars>>
    /\ UNCHANGED <<backoffVars, postVars, ghostVars, issued, faults>>

(* After the final drain: what is still buffered is dropped and reported. *)
closeEnds ==
    /\ closer = "resumed"
    /\ closer' = "closed"
    /\ reported' = reported \cup Range(buffer)
    /\ buffer' = <<>>
    /\ UNCHANGED <<timer, closed, drainVars, backoffVars, postVars, issued, faults,
                   acked, masked, thrown, delivered>>

Tick ==
    /\ left > 0
    /\ left' = left - 1
    /\ UNCHANGED <<bufferVars, drainVars, backoff, postVars, ghostVars, closer, issued, faults>>
-----------------------------------------------------------------------------
Draining == ScrubEvent \/ Retry \/ Refresh \/ Refreshed \/ Delivered \/ PostFails

Next ==
    \/ ingestAuditEvent \/ TimerFires \/ flushAuditBuffer \/ close \/ closeEnds
    \/ Draining \/ ScrubThrows \/ Ingest \/ Fault \/ Tick

Spec == Init /\ [][Next]_vars

(* Every await of a drain settles, the interval timer fires, time passes,  *)
(* and central answers a request that no fault took away.                  *)
FairSpec ==
    /\ Spec
    /\ WF_vars(Draining) /\ WF_vars(Ingest)
    /\ WF_vars(TimerFires) /\ WF_vars(closeEnds) /\ WF_vars(Tick)
-----------------------------------------------------------------------------
(* Every variable holds a value of its type: attempts and backoff within   *)
(* their configured maximum, events of a real number.                      *)
TypeOK ==
    /\ buffer \in Seq(Event) /\ batch \in Seq(Event)
    /\ todo \in Seq(Event) /\ scrubbed \in Seq(Event)
    /\ timer \in BOOLEAN /\ closed \in BOOLEAN /\ force \in BOOLEAN
    /\ closer \in {"none", "draining", "resumed", "closed", "rejected"}
    /\ pc \in {"idle", "scrub", "fetch", "refresh"}
    /\ backoff \in 0..MaxBackoff /\ left \in 0..MaxBackoff
    /\ attempt \in 0..Retries /\ refreshed \in BOOLEAN
    /\ reply \in {"none", "ok"} \cup Failed /\ seen \in BOOLEAN /\ sends \in Nat
    /\ issued \in 0..MaxEvents /\ faults \in 0..MaxFaults
    /\ \A s \in {acked, reported, masked, thrown, delivered} : s \subseteq Event

Pending == Range(batch) \cup Range(buffer)
Settled == acked \cup reported \cup masked \cup thrown

(* No audit event disappears without a trace: it waits in the buffer or in *)
(* the batch in flight, or it was acknowledged by central, reported        *)
(* through onAuditError, warned about by the PII self-check or part of a   *)
(* rejected drain.  Overflow, requeueing, 4xx drops, the forced drain and  *)
(* close() each move events between these places.                          *)
NothingLost == 1..issued \subseteq Pending \cup Settled

(* "so ordering is preserved" (drainAuditBuffer): batch and buffer stay in *)
(* the order of ingestion whatever fails, and nothing that waits is older  *)
(* than, or the same as, an event central has acknowledged.                *)
OrderKept ==
    LET queue == batch \o buffer IN
    /\ \A i, j \in DOMAIN queue : i < j => queue[i] < queue[j]
    /\ \A a \in acked, i \in DOMAIN queue : a < queue[i]

(* Memory stays bounded against a server that is down: a requeued batch    *)
(* comes on top of a full buffer, and never a second one.                  *)
BufferBounded == Len(buffer) + Len(batch) <= BufferSize + BatchSize

(* An event whose self-check fails never reaches central, not even when    *)
(* its batch, requeued unscrubbed, is sent again.                          *)
LeakNeverSent == delivered \cap Leaky = {}

(* One POST is one fetch per attempt and at most one more for the token    *)
(* refresh: no loop of 401 and refresh.                                    *)
SendsBounded == sends <= Retries + 2

(* close(): "any events still buffered after the final flush ... are       *)
(* reported via `onAuditError` and dropped".  Once it has resolved and no  *)
(* drain runs, nothing waits in a buffer that no timer will ever flush.    *)
CloseLeavesNothing == closer = "closed" /\ pc = "idle" => buffer = <<>>

(* Every event ingested is settled in the end, through failures, backoff   *)
(* and close(), unless the host was told that close() failed.              *)
EventSettles ==
    \A e \in Event : e <= issued ~> e \in Settled \/ closer = "rejected"
=============================================================================
