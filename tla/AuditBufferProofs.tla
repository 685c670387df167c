-------------------------- MODULE AuditBufferProofs --------------------------
(***************************************************************************)
(* Proofs about AuditBuffer, for every buffer and batch size, every number *)
(* of events, retries and faults, and any host, orderly or not.            *)
(***************************************************************************)
EXTENDS AuditBuffer, TLAPS

(* Splitting a queue after its first n elements keeps them all, in two     *)
(* parts of the expected lengths.                                          *)
LEMMA SplitFacts ==
    ASSUME NEW S, NEW s \in Seq(S), NEW n \in 0..Len(s)
    PROVE  LET a == SubSeq(s, 1, n)
               b == SubSeq(s, n + 1, Len(s)) IN
           /\ a \in Seq(S) /\ Len(a) = n
           /\ b \in Seq(S) /\ Len(b) = Len(s) - n
           /\ Range(s) = Range(a) \cup Range(b)
<1> DEFINE a == SubSeq(s, 1, n)
           b == SubSeq(s, n + 1, Len(s))
<1>1. a \in Seq(S) /\ Len(a) = n /\ \A i \in 1..n : a[i] = s[i]
  OBVIOUS
<1>2. b \in Seq(S) /\ Len(b) = Len(s) - n /\ \A i \in 1..(Len(s) - n) : b[i] = s[i + n]
  OBVIOUS
<1>3. DOMAIN a = 1..n /\ DOMAIN b = 1..(Len(s) - n) /\ DOMAIN s = 1..Len(s)
  BY <1>1, <1>2
<1>4. ASSUME NEW i \in 1..Len(s) PROVE s[i] \in Range(a) \cup Range(b)
  <2>1. CASE i <= n
    BY <1>1, <2>1 DEF Range
  <2>2. CASE i > n
    <3>1. i - n \in 1..(Len(s) - n) /\ b[i - n] = s[i]
      BY <1>2, <2>2
    <3>2. i - n \in DOMAIN b
      BY <1>3, <3>1
    <3> HIDE DEF a, b
    <3> QED BY <3>1, <3>2 DEF Range
  <2> QED BY <2>1, <2>2
<1>5. ASSUME NEW i \in 1..n PROVE a[i] \in Range(s)
  BY <1>1 DEF Range
<1>6. ASSUME NEW i \in 1..(Len(s) - n) PROVE b[i] \in Range(s)
  BY <1>2, i + n \in 1..Len(s) DEF Range
<1>7. Range(s) \subseteq Range(a) \cup Range(b)
  BY <1>4, <1>3 DEF Range
<1>8. Range(a) \subseteq Range(s)
  BY <1>5, <1>3 DEF Range
<1>9. Range(b) \subseteq Range(s)
  BY <1>6, <1>3 DEF Range
<1> HIDE DEF a, b
<1>10. Range(s) = Range(a) \cup Range(b)
  BY <1>7, <1>8, <1>9
<1> QED BY <1>1, <1>2, <1>10 DEF a, b

(* An empty queue has no elements. *)
LEMMA EmptyFacts == Range(<<>>) = {}
  BY DEF Range

(* Appending adds one element and nothing else. *)
LEMMA AppendFacts ==
    ASSUME NEW S, NEW s \in Seq(S), NEW e \in S
    PROVE  /\ Append(s, e) \in Seq(S) /\ Len(Append(s, e)) = Len(s) + 1
           /\ Range(Append(s, e)) = Range(s) \cup {e}
<1>1. Append(s, e) \in Seq(S) /\ Len(Append(s, e)) = Len(s) + 1
  OBVIOUS
<1>2. DOMAIN Append(s, e) = 1..(Len(s) + 1) /\ DOMAIN s = 1..Len(s)
  BY <1>1
<1>3. \A i \in 1..Len(s) : Append(s, e)[i] = s[i]
  OBVIOUS
<1>4. Append(s, e)[Len(s) + 1] = e
  OBVIOUS
<1>5. Len(s) \in Nat
  OBVIOUS
<1>6. Range(s) \cup {e} \subseteq Range(Append(s, e))
  BY <1>2, <1>3, <1>4, <1>5 DEF Range
<1>7. ASSUME NEW i \in 1..(Len(s) + 1) PROVE Append(s, e)[i] \in Range(s) \cup {e}
  <2>1. CASE i = Len(s) + 1
    BY <1>4, <2>1
  <2>2. CASE i # Len(s) + 1
    <3>1. i \in 1..Len(s)
      BY <1>5, <2>2
    <3> QED BY <1>2, <1>3, <3>1 DEF Range
  <2> QED BY <2>1, <2>2
<1>8. Range(Append(s, e)) \subseteq Range(s) \cup {e}
  BY <1>2, <1>7 DEF Range
<1> QED BY <1>1, <1>6, <1>8

(* A queue that is not empty is its head and its tail. *)
LEMMA TailFacts ==
    ASSUME NEW S, NEW s \in Seq(S), s # <<>>
    PROVE  /\ Head(s) \in S /\ Tail(s) \in Seq(S)
           /\ Len(Tail(s)) = Len(s) - 1 /\ Len(s) \in Nat \ {0}
           /\ Range(s) = Range(Tail(s)) \cup {Head(s)}
<1>1. Head(s) \in S /\ Tail(s) \in Seq(S) /\ Len(Tail(s)) = Len(s) - 1 /\ Len(s) \in Nat \ {0}
  OBVIOUS
<1>2. DOMAIN s = 1..Len(s) /\ DOMAIN Tail(s) = 1..(Len(s) - 1)
  BY <1>1
<1>3. Head(s) = s[1] /\ \A i \in 1..(Len(s) - 1) : Tail(s)[i] = s[i + 1]
  OBVIOUS
<1>4. ASSUME NEW i \in 1..Len(s) PROVE s[i] \in Range(Tail(s)) \cup {Head(s)}
  <2>1. CASE i = 1
    BY <1>3, <2>1
  <2>2. CASE i # 1
    <3>1. i - 1 \in 1..(Len(s) - 1) /\ Tail(s)[i - 1] = s[i]
      BY <1>1, <1>3, <2>2
    <3> QED BY <1>2, <3>1 DEF Range
  <2> QED BY <2>1, <2>2
<1>5. ASSUME NEW i \in 1..(Len(s) - 1) PROVE Tail(s)[i] \in Range(s)
  BY <1>1, <1>2, <1>3, i + 1 \in 1..Len(s) DEF Range
<1>6. Range(s) \subseteq Range(Tail(s)) \cup {Head(s)}
  BY <1>2, <1>4 DEF Range
<1>7. Range(Tail(s)) \subseteq Range(s)
  BY <1>2, <1>5 DEF Range
<1>8. Head(s) \in Range(s)
  BY <1>1, <1>2, <1>3, 1 \in 1..Len(s) DEF Range
<1> QED BY <1>1, <1>6, <1>7, <1>8

(* Putting one queue in front of another keeps the elements of both. *)
LEMMA ConcatFacts ==
    ASSUME NEW S, NEW s \in Seq(S), NEW t \in Seq(S)
    PROVE  /\ s \o t \in Seq(S) /\ Len(s \o t) = Len(s) + Len(t)
           /\ Range(s \o t) = Range(s) \cup Range(t)
<1>1. s \o t \in Seq(S) /\ Len(s \o t) = Len(s) + Len(t) /\ Len(s) \in Nat /\ Len(t) \in Nat
  OBVIOUS
<1>2. DOMAIN (s \o t) = 1..(Len(s) + Len(t)) /\ DOMAIN s = 1..Len(s) /\ DOMAIN t = 1..Len(t)
  BY <1>1
<1>3. \A i \in 1..Len(s) : (s \o t)[i] = s[i]
  OBVIOUS
<1>4. \A i \in 1..Len(t) : (s \o t)[i + Len(s)] = t[i]
  OBVIOUS
<1>5. ASSUME NEW i \in 1..(Len(s) + Len(t)) PROVE (s \o t)[i] \in Range(s) \cup Range(t)
  <2>1. CASE i <= Len(s)
    BY <1>1, <1>2, <1>3, <2>1 DEF Range
  <2>2. CASE i > Len(s)
    <3>1. i - Len(s) \in 1..Len(t) /\ (s \o t)[i] = t[i - Len(s)]
      BY <1>1, <1>4, <2>2
    <3> QED BY <1>2, <3>1 DEF Range
  <2> QED BY <1>1, <2>1, <2>2
<1>6. ASSUME NEW i \in 1..Len(s) PROVE s[i] \in Range(s \o t)
  BY <1>1, <1>2, <1>3, i \in 1..(Len(s) + Len(t)) DEF Range
<1>7. ASSUME NEW i \in 1..Len(t) PROVE t[i] \in Range(s \o t)
  BY <1>1, <1>2, <1>4, i + Len(s) \in 1..(Len(s) + Len(t)) DEF Range
<1>8. Range(s \o t) \subseteq Range(s) \cup Range(t)
  BY <1>2, <1>5 DEF Range
<1>9. Range(s) \subseteq Range(s \o t)
  BY <1>2, <1>6 DEF Range
<1>10. Range(t) \subseteq Range(s \o t)
  BY <1>2, <1>7 DEF Range
<1> QED BY <1>1, <1>8, <1>9, <1>10
-----------------------------------------------------------------------------
(* The inductive invariant, part by part.  The first part says which of    *)
(* the queues of a drain are filled at which await.                        *)
Phases ==
    /\ pc = "idle" => batch = <<>>
    /\ pc = "scrub" => todo # <<>>

(* The bound of the queues: only an idle pipeline holds a requeued batch   *)
(* on top of a full buffer.                                                *)
Queues ==
    /\ Len(batch) <= BatchSize
    /\ pc # "idle" => Len(buffer) <= BufferSize
    /\ Len(buffer) + Len(batch) <= BufferSize + BatchSize

(* One fetch per attempt, and one more once the token was refreshed. *)
Fetches ==
    /\ sends <= attempt + 2
    /\ ~refreshed \/ pc = "refresh" => sends <= attempt + 1
    /\ pc = "refresh" => refreshed

(* What the PII pipeline let pass is clean, sent or not. *)
Clean == (Range(scrubbed) \cup delivered) \cap Leaky = {}

(* Every event of a batch is still to be scrubbed, ready to be sent or     *)
(* masked; every event ingested is pending or settled.                     *)
Accounts ==
    /\ pc # "idle" => Range(batch) \subseteq Range(todo) \cup Range(scrubbed) \cup masked
    /\ pc \in {"fetch", "refresh"} => todo = <<>>
    /\ 1..issued \subseteq Pending \cup Settled

AuditInv == TypeOK /\ Phases /\ Queues /\ Fetches /\ Clean /\ Accounts
-----------------------------------------------------------------------------
(* Taking a batch off the buffer: neither end loses an event, the batch is *)
(* not empty and has at most BatchSize events, and what stays fits.        *)
LEMMA TakeFacts ==
    ASSUME AuditInv, buffer # <<>>, TakeBatch
    PROVE  /\ pc' = "scrub" /\ todo' = batch' /\ scrubbed' = <<>>
           /\ batch' \in Seq(Event) /\ buffer' \in Seq(Event) /\ batch' # <<>>
           /\ Len(batch') <= BatchSize /\ Len(buffer') <= BufferSize
           /\ Len(buffer') + Len(batch') <= BufferSize + BatchSize
           /\ Range(buffer) = Range(batch') \cup Range(buffer')
<1> DEFINE n == Least(BatchSize, Len(buffer))
<1>1. buffer \in Seq(Event) /\ Len(buffer) \in Nat \ {0} /\ Len(batch) \in Nat
  BY DEF AuditInv, TypeOK
<1>2. Len(buffer) <= BufferSize + BatchSize
  BY <1>1, AuditAssumption DEF AuditInv, Queues
<1>3. n \in 1..Len(buffer) /\ n <= BatchSize /\ Len(buffer) - n <= BufferSize
  BY <1>1, <1>2, AuditAssumption DEF Least
<1>4. n \in 0..Len(buffer)
  BY <1>1, <1>3
<1>5. batch' = SubSeq(buffer, 1, n) /\ buffer' = SubSeq(buffer, n + 1, Len(buffer))
  BY DEF TakeBatch
<1> HIDE DEF n
<1>6. /\ batch' \in Seq(Event) /\ Len(batch') = n
      /\ buffer' \in Seq(Event) /\ Len(buffer') = Len(buffer) - n
      /\ Range(buffer) = Range(batch') \cup Range(buffer')
  BY <1>1, <1>4, <1>5, SplitFacts
<1>7. batch' # <<>>
  BY <1>3, <1>6
<1>8. Len(batch') <= BatchSize /\ Len(buffer') <= BufferSize
      /\ Len(buffer') + Len(batch') <= BufferSize + BatchSize
  BY <1>1, <1>2, <1>3, <1>6, AuditAssumption
<1> QED BY <1>6, <1>7, <1>8 DEF TakeBatch

(* Ingesting into an open client: the event and all that waited are in the *)
(* buffer or reported, and a full buffer does not grow.                    *)
LEMMA IngestFacts ==
    ASSUME AuditInv, NEW e \in Event, ingestOpen(e)
    PROVE  /\ buffer' \in Seq(Event) /\ timer' \in BOOLEAN
           /\ Len(buffer') = Len(buffer) \/ Len(buffer') <= BufferSize
           /\ reported \subseteq reported' /\ reported' \subseteq Event
           /\ Range(buffer) \cup {e} \subseteq Range(buffer') \cup reported'
<1>1. buffer \in Seq(Event) /\ Len(buffer) \in Nat /\ reported \subseteq Event
  BY DEF AuditInv, TypeOK
<1>2. CASE Len(buffer) >= BufferSize
  <2>1. buffer # <<>>
    BY <1>1, <1>2, AuditAssumption
  <2>2. /\ Head(buffer) \in Event /\ Tail(buffer) \in Seq(Event)
        /\ Len(Tail(buffer)) = Len(buffer) - 1
        /\ Range(buffer) = Range(Tail(buffer)) \cup {Head(buffer)}
    BY <1>1, <2>1, TailFacts
  <2>3. buffer' = Append(Tail(buffer), e) /\ reported' = reported \cup {Head(buffer)}
    BY <1>2 DEF ingestOpen
  <2>4. /\ buffer' \in Seq(Event) /\ Len(buffer') = Len(Tail(buffer)) + 1
        /\ Range(buffer') = Range(Tail(buffer)) \cup {e}
    <3> DEFINE t == Tail(buffer)
    <3>1. t \in Seq(Event)
      BY <2>2
    <3> HIDE DEF t
    <3>2. /\ Append(t, e) \in Seq(Event) /\ Len(Append(t, e)) = Len(t) + 1
          /\ Range(Append(t, e)) = Range(t) \cup {e}
      BY <3>1, AppendFacts
    <3> QED BY <2>3, <3>2 DEF t
  <2>5. Len(buffer') = Len(buffer)
    BY <1>1, <2>2, <2>4
  <2> QED BY <1>1, <2>2, <2>3, <2>4, <2>5 DEF ingestOpen
<1>3. CASE ~(Len(buffer) >= BufferSize)
  <2>1. buffer' = Append(buffer, e) /\ reported' = reported
    BY <1>3 DEF ingestOpen
  <2>2. /\ buffer' \in Seq(Event) /\ Len(buffer') = Len(buffer) + 1
        /\ Range(buffer') = Range(buffer) \cup {e}
    BY <1>1, <2>1, AppendFacts
  <2>3. Len(buffer') <= BufferSize
    BY <1>1, <1>3, <2>2, AuditAssumption
  <2> QED BY <1>1, <2>1, <2>2, <2>3 DEF ingestOpen
<1> QED BY <1>2, <1>3

(* Scrubbing an event: it joins the clean ones or is masked.  A scrubbed   *)
(* event makes the sequence longer, so comparing tells the two apart.      *)
LEMMA ScrubFacts ==
    ASSUME AuditInv, NEW e \in Event,
           masked' = IF applyPiiPipelineOrDrop(e) = scrubbed THEN masked \cup {e} ELSE masked
    PROVE  /\ applyPiiPipelineOrDrop(e) \in Seq(Event)
           /\ masked \subseteq masked' /\ masked' \subseteq Event
           /\ Range(applyPiiPipelineOrDrop(e)) \cap Leaky = {}
           /\ Range(scrubbed) \cup {e} \subseteq Range(applyPiiPipelineOrDrop(e)) \cup masked'
<1>1. scrubbed \in Seq(Event) /\ masked \subseteq Event /\ Range(scrubbed) \cap Leaky = {}
  BY DEF AuditInv, TypeOK, Clean
<1>2. CASE e \in Leaky
  <2>1. applyPiiPipelineOrDrop(e) = scrubbed /\ masked' = masked \cup {e}
    BY <1>2 DEF applyPiiPipelineOrDrop
  <2> QED BY <1>1, <2>1
<1>3. CASE e \notin Leaky
  <2>1. applyPiiPipelineOrDrop(e) = Append(scrubbed, e)
    BY <1>3 DEF applyPiiPipelineOrDrop
  <2>2. /\ Append(scrubbed, e) \in Seq(Event)
        /\ Range(Append(scrubbed, e)) = Range(scrubbed) \cup {e}
    BY <1>1, AppendFacts
  <2>3. masked \subseteq masked' /\ masked' \subseteq Event
    BY <1>1
  <2> QED BY <1>1, <1>3, <2>1, <2>2, <2>3
<1> QED BY <1>2, <1>3

(* What a drain that goes on to another batch or ends leaves behind. *)
Turned ==
    /\ pc' \in {"idle", "scrub"} /\ scrubbed' = <<>>
    /\ batch' \in Seq(Event) /\ todo' \in Seq(Event) /\ buffer' \in Seq(Event)
    /\ Phases' /\ Queues'
    /\ pc' # "idle" => todo' = batch'
    /\ Range(buffer) = Range(batch') \cup Range(buffer')

(* Both ways a drain turns: a batch is taken, or the drain ends. *)
LEMMA TurnFacts ==
    ASSUME AuditInv
    PROVE  /\ buffer # <<>> /\ TakeBatch => Turned
           /\ NextBatch => /\ Turned
                           /\ force' \in BOOLEAN
                           /\ closer' \in {"none", "draining", "resumed", "closed", "rejected"}
<1>1. ASSUME buffer # <<>>, TakeBatch PROVE Turned
  BY <1>1, TakeFacts DEF Turned, Phases, Queues
<1>2. ASSUME Finish("resumed"), buffer' = buffer PROVE Turned
  <2>1. buffer \in Seq(Event) /\ Len(buffer) \in Nat /\ Len(batch) \in Nat
        /\ Len(buffer) + Len(batch) <= BufferSize + BatchSize
    BY DEF AuditInv, TypeOK, Queues
  <2>2. pc' = "idle" /\ batch' = <<>> /\ todo' = <<>> /\ scrubbed' = <<>>
    BY <1>2 DEF Finish
  <2>3. Len(batch') = 0 /\ batch' \in Seq(Event)
    BY <2>2
  <2>4. Queues'
    BY <1>2, <2>1, <2>2, <2>3, AuditAssumption DEF Queues
  <2>5. Range(buffer) = Range(batch') \cup Range(buffer')
    BY <1>2, <2>2, EmptyFacts
  <2> QED BY <1>2, <2>1, <2>2, <2>3, <2>4, <2>5 DEF Turned, Phases
<1>3. ASSUME NextBatch PROVE force' \in BOOLEAN
  BY <1>3 DEF NextBatch, Finish, AuditInv, TypeOK
<1>4. ASSUME NextBatch PROVE closer' \in {"none", "draining", "resumed", "closed", "rejected"}
  BY <1>4 DEF NextBatch, Finish, AuditInv, TypeOK
<1>5. ASSUME NextBatch PROVE Turned
  <2>1. CASE buffer # <<>> /\ TakeBatch
    BY <1>1, <2>1
  <2>2. CASE Finish("resumed") /\ UNCHANGED buffer
    BY <1>2, <2>2
  <2> QED BY <1>5, <2>1, <2>2 DEF NextBatch
<1> QED BY <1>1, <1>3, <1>4, <1>5

(* A drain that ends with a throw or a failed POST. *)
LEMMA FinishFacts ==
    ASSUME AuditInv, NEW how \in {"resumed", "rejected"}, Finish(how)
    PROVE  /\ pc' = "idle" /\ force' \in BOOLEAN
           /\ batch' = <<>> /\ todo' = <<>> /\ scrubbed' = <<>>
           /\ batch' \in Seq(Event) /\ Len(batch') = 0
           /\ closer' \in {"none", "draining", "resumed", "closed", "rejected"}
<1>1. force' \in BOOLEAN
  BY DEF Finish
<1>2. closer' \in {"none", "draining", "resumed", "closed", "rejected"}
  BY DEF Finish, AuditInv, TypeOK
<1>3. batch' = <<>> /\ batch' \in Seq(Event) /\ Len(batch') = 0
  BY DEF Finish
<1> QED BY <1>1, <1>2, <1>3 DEF Finish

(* A requeued batch keeps the buffer within its bound, and every event. *)
LEMMA RequeueFacts ==
    ASSUME AuditInv
    PROVE  /\ batch \o buffer \in Seq(Event)
           /\ Len(batch \o buffer) <= BufferSize + BatchSize
           /\ Range(batch \o buffer) = Range(batch) \cup Range(buffer)
<1>1. batch \in Seq(Event) /\ buffer \in Seq(Event) /\ Len(batch) \in Nat /\ Len(buffer) \in Nat
  BY DEF AuditInv, TypeOK
<1>2. /\ batch \o buffer \in Seq(Event) /\ Len(batch \o buffer) = Len(batch) + Len(buffer)
      /\ Range(batch \o buffer) = Range(batch) \cup Range(buffer)
  BY <1>1, ConcatFacts
<1>3. Len(batch) + Len(buffer) <= BufferSize + BatchSize
  BY <1>1 DEF AuditInv, Queues
<1> QED BY <1>2, <1>3

(* The events of a sequence of events are events. *)
LEMMA RangeFacts ==
    ASSUME NEW s \in Seq(Event) PROVE Range(s) \subseteq Event
  BY DEF Range
-----------------------------------------------------------------------------
(* The steps that leave the queues of the pipeline alone. *)
Waits == \/ Ingest \/ Fault \/ Retry \/ Refresh \/ Refreshed \/ Tick

(* They preserve the invariant: answers, faults, retries and refreshes     *)
(* only move the count of fetches.                                         *)
LEMMA WaitsStep ==
    ASSUME AuditInv, Waits PROVE AuditInv'
<1> USE DEF AuditInv
<1>1. CASE Ingest
  <2>1. UNCHANGED <<bufferVars, drainVars, backoffVars, attempt, refreshed, sends,
                    closer, issued, faults, acked, reported, masked, thrown>>
    BY <1>1 DEF Ingest
  <2>2. reply' \in {"none", "ok"} \cup Failed /\ seen' \in BOOLEAN
    BY <1>1 DEF Ingest, Failed
  <2>3. delivered' \subseteq delivered \cup Range(scrubbed)
    BY <1>1 DEF Ingest
  <2>4. Range(scrubbed) \subseteq Event
    BY RangeFacts DEF TypeOK
  <2>5. TypeOK'
    BY <2>1, <2>2, <2>3, <2>4 DEF TypeOK, bufferVars, drainVars, backoffVars
  <2>6. Phases' /\ Queues' /\ Fetches'
    BY <2>1 DEF Phases, Queues, Fetches, bufferVars, drainVars
  <2>7. Clean'
    BY <2>1, <2>3 DEF Clean, drainVars
  <2>8. Accounts'
    BY <2>1 DEF Accounts, Pending, Settled, bufferVars, drainVars
  <2> QED BY <2>5, <2>6, <2>7, <2>8
<1>2. CASE Fault
  <2>1. UNCHANGED <<bufferVars, drainVars, backoffVars, attempt, refreshed, seen, sends,
                    ghostVars, closer, issued>>
    BY <1>2 DEF Fault
  <2>2. reply' \in {"none", "ok"} \cup Failed
    BY <1>2 DEF Fault, Failed
  <2>3. faults' \in 0..MaxFaults
    BY <1>2, AuditAssumption DEF Fault, TypeOK
  <2>4. TypeOK'
    BY <2>1, <2>2, <2>3 DEF TypeOK, bufferVars, drainVars, backoffVars, ghostVars
  <2>5. Phases' /\ Queues' /\ Fetches'
    BY <2>1 DEF Phases, Queues, Fetches, bufferVars, drainVars
  <2>6. Clean' /\ Accounts'
    BY <2>1 DEF Clean, Accounts, Pending, Settled, bufferVars, drainVars, ghostVars
  <2> QED BY <2>4, <2>5, <2>6
<1>3. CASE Retry
  <2>1. UNCHANGED <<bufferVars, drainVars, backoffVars, refreshed, seen, ghostVars,
                    closer, issued, faults>>
    BY <1>3 DEF Retry
  <2>2. attempt' = attempt + 1 /\ attempt < Retries /\ reply' = "none" /\ sends' = sends + 1
    BY <1>3 DEF Retry, MayRetry, Resend
  <2>3. attempt' \in 0..Retries /\ sends' \in Nat
    BY <2>2, AuditAssumption DEF TypeOK
  <2>4. TypeOK'
    BY <2>1, <2>2, <2>3 DEF TypeOK, bufferVars, drainVars, backoffVars, ghostVars
  <2>5. attempt \in Nat /\ sends \in Nat
    BY AuditAssumption DEF TypeOK
  <2>6. Fetches'
    BY <1>3, <2>1, <2>2, <2>5 DEF Fetches, Retry, drainVars
  <2>7. Phases' /\ Queues'
    BY <2>1 DEF Phases, Queues, bufferVars, drainVars
  <2>8. Clean' /\ Accounts'
    BY <2>1 DEF Clean, Accounts, Pending, Settled, bufferVars, drainVars, ghostVars
  <2> QED BY <2>4, <2>6, <2>7, <2>8
<1>4. CASE Refresh
  <2>1. UNCHANGED <<bufferVars, force, batch, todo, scrubbed, backoffVars, attempt,
                    reply, seen, sends, ghostVars, closer, issued, faults>>
    BY <1>4 DEF Refresh
  <2>2. pc = "fetch" /\ ~refreshed /\ pc' = "refresh" /\ refreshed' = TRUE
    BY <1>4 DEF Refresh, MayRefresh
  <2>3. TypeOK'
    BY <2>1, <2>2 DEF TypeOK, bufferVars, backoffVars, ghostVars
  <2>4. Fetches'
    BY <2>1, <2>2 DEF Fetches
  <2>5. Phases' /\ Queues'
    BY <2>1, <2>2 DEF Phases, Queues, bufferVars
  <2>6. Clean' /\ Accounts'
    BY <2>1, <2>2 DEF Clean, Accounts, Pending, Settled, bufferVars, ghostVars
  <2> QED BY <2>3, <2>4, <2>5, <2>6
<1>5. CASE Refreshed
  <2>1. UNCHANGED <<bufferVars, force, batch, todo, scrubbed, backoffVars, attempt,
                    refreshed, seen, ghostVars, closer, issued, faults>>
    BY <1>5 DEF Refreshed
  <2>2. pc = "refresh" /\ pc' = "fetch" /\ reply' = "none" /\ sends' = sends + 1
    BY <1>5 DEF Refreshed, Resend
  <2>3. attempt \in Nat /\ sends \in Nat
    BY AuditAssumption DEF TypeOK
  <2>4. TypeOK'
    BY <2>1, <2>2, <2>3 DEF TypeOK, bufferVars, backoffVars, ghostVars
  <2>5. Fetches'
    BY <2>1, <2>2, <2>3 DEF Fetches
  <2>6. Phases' /\ Queues'
    BY <2>1, <2>2 DEF Phases, Queues, bufferVars
  <2>7. Clean' /\ Accounts'
    BY <2>1, <2>2 DEF Clean, Accounts, Pending, Settled, bufferVars, ghostVars
  <2> QED BY <2>4, <2>5, <2>6, <2>7
<1>6. CASE Tick
  <2>1. UNCHANGED <<bufferVars, drainVars, backoff, postVars, ghostVars, closer, issued, faults>>
    BY <1>6 DEF Tick
  <2>2. left' \in 0..MaxBackoff
    BY <1>6, AuditAssumption DEF Tick, TypeOK
  <2>3. TypeOK'
    BY <2>1, <2>2 DEF TypeOK, bufferVars, drainVars, postVars, ghostVars
  <2>4. Phases' /\ Queues' /\ Fetches'
    BY <2>1 DEF Phases, Queues, Fetches, bufferVars, drainVars, postVars
  <2>5. Clean' /\ Accounts'
    BY <2>1 DEF Clean, Accounts, Pending, Settled, bufferVars, drainVars, ghostVars
  <2> QED BY <2>3, <2>4, <2>5
<1> QED BY <1>1, <1>2, <1>3, <1>4, <1>5, <1>6 DEF Waits

(* Ingesting preserves the invariant. *)
LEMMA IngestStep ==
    ASSUME AuditInv, ingestAuditEvent PROVE AuditInv'
<1> DEFINE e == issued + 1
<1>1. UNCHANGED <<closed, drainVars, backoffVars, postVars, closer, faults,
                  acked, masked, thrown, delivered>>
  BY DEF ingestAuditEvent
<1>2. issued \in Nat /\ e \in Event /\ issued' = e /\ issued' \in 0..MaxEvents
      /\ 1..issued' = 1..issued \cup {e}
  BY AuditAssumption DEF ingestAuditEvent, AuditInv, TypeOK, Event
<1> HIDE DEF e
<1>3. /\ buffer' \in Seq(Event) /\ timer' \in BOOLEAN
      /\ Len(buffer') = Len(buffer) \/ Len(buffer') <= BufferSize
      /\ reported \subseteq reported' /\ reported' \subseteq Event
      /\ Range(buffer) \cup {e} \subseteq Range(buffer') \cup reported'
  <2>1. CASE closed /\ reported' = reported \cup {e} /\ UNCHANGED <<buffer, timer>>
    BY <1>2, <2>1 DEF AuditInv, TypeOK
  <2>2. CASE ingestOpen(e)
    BY <1>2, <2>2, IngestFacts
  <2> QED BY <2>1, <2>2 DEF ingestAuditEvent, e
<1>4. TypeOK'
  BY <1>1, <1>2, <1>3 DEF AuditInv, TypeOK, drainVars, backoffVars, postVars
<1>5. Phases' /\ Fetches' /\ Clean'
  BY <1>1 DEF AuditInv, Phases, Fetches, Clean, drainVars, postVars
<1>6. Queues'
  <2>1. Len(buffer) \in Nat /\ Len(buffer') \in Nat /\ Len(batch) \in Nat
    BY <1>3 DEF AuditInv, TypeOK
  <2> QED BY <1>1, <1>3, <2>1, AuditAssumption DEF AuditInv, Queues, drainVars
<1>7. Accounts'
  <2>1. Pending \cup Settled \cup {e} \subseteq Pending' \cup Settled'
    BY <1>1, <1>3 DEF Pending, Settled, drainVars
  <2>2. 1..issued' \subseteq Pending' \cup Settled'
    BY <1>2, <2>1 DEF AuditInv, Accounts
  <2> QED BY <1>1, <2>2 DEF AuditInv, Accounts, drainVars
<1> QED BY <1>4, <1>5, <1>6, <1>7 DEF AuditInv

(* Starting a drain preserves the invariant: the timer, a flush and        *)
(* close() move a batch and settle nothing.                                *)
LEMMA StartStep ==
    ASSUME AuditInv, pc = "idle", buffer # <<>>, TakeBatch,
           UNCHANGED <<backoffVars, postVars, ghostVars, issued, faults>>,
           timer' \in BOOLEAN, closed' \in BOOLEAN, force' \in BOOLEAN,
           closer' \in {"none", "draining", "resumed", "closed", "rejected"}
    PROVE  AuditInv'
<1>1. Turned /\ pc' = "scrub"
  BY TurnFacts DEF TakeBatch
<1>2. scrubbed' \in Seq(Event) /\ Range(scrubbed') = {}
  BY <1>1, EmptyFacts DEF Turned
<1>3. TypeOK'
  BY <1>1, <1>2 DEF AuditInv, TypeOK, Turned, backoffVars, postVars, ghostVars
<1>4. Phases' /\ Queues'
  BY <1>1 DEF Turned
<1>5. Fetches'
  BY <1>1 DEF AuditInv, Fetches, postVars
<1>6. Clean'
  BY <1>2 DEF AuditInv, Clean, ghostVars
<1>7. Accounts'
  <2>1. Range(batch) = {}
    BY EmptyFacts DEF AuditInv, Phases
  <2>2. Pending \cup Settled \subseteq Pending' \cup Settled'
    BY <1>1, <2>1 DEF Turned, Pending, Settled, ghostVars
  <2>3. Range(batch') \subseteq Range(todo')
    BY <1>1 DEF Turned
  <2> QED BY <1>1, <2>2, <2>3 DEF AuditInv, Accounts, Turned
<1> QED BY <1>3, <1>4, <1>5, <1>6, <1>7 DEF AuditInv

(* What an event goes through in the pipeline preserves the invariant. *)
LEMMA ScrubStep ==
    ASSUME AuditInv, ScrubEvent PROVE AuditInv'
<1> DEFINE e == Head(todo)
           s == applyPiiPipelineOrDrop(e)
<1>1. UNCHANGED <<timer, closed, issued, faults, acked, reported, thrown, delivered>>
  BY DEF ScrubEvent
<1>2. pc = "scrub" /\ masked' = IF s = scrubbed THEN masked \cup {e} ELSE masked
  BY DEF ScrubEvent
<1>3. todo \in Seq(Event) /\ todo # <<>>
  BY <1>2 DEF AuditInv, TypeOK, Phases
<1>4. e \in Event /\ Tail(todo) \in Seq(Event) /\ Range(todo) = Range(Tail(todo)) \cup {e}
  BY <1>3, TailFacts
<1> HIDE DEF e
<1>5. /\ s \in Seq(Event) /\ masked \subseteq masked' /\ masked' \subseteq Event
      /\ Range(s) \cap Leaky = {}
      /\ Range(scrubbed) \cup {e} \subseteq Range(s) \cup masked'
  BY <1>2, <1>4, ScrubFacts
<1>6. Range(batch) \subseteq Range(Tail(todo)) \cup Range(s) \cup masked'
  BY <1>2, <1>4, <1>5 DEF AuditInv, Accounts
<1> DEFINE t == Tail(todo)
<1>7. t \in Seq(Event) /\ Range(batch) \subseteq Range(t) \cup Range(s) \cup masked'
  BY <1>4, <1>6
<1>8. \/ /\ t # <<>> /\ todo' = t /\ scrubbed' = s
         /\ UNCHANGED <<pc, force, batch, buffer, closer, backoffVars, postVars>>
      \/ /\ t = <<>> /\ s # <<>> /\ Post /\ todo' = <<>> /\ scrubbed' = s
         /\ UNCHANGED <<force, batch, buffer, closer, backoffVars>>
      \/ /\ t = <<>> /\ s = <<>> /\ resetBackoff /\ NextBatch /\ UNCHANGED postVars
  BY DEF ScrubEvent, e
<1> HIDE DEF s, t
<1>9. CASE /\ t # <<>> /\ todo' = t /\ scrubbed' = s
           /\ UNCHANGED <<pc, force, batch, buffer, closer, backoffVars, postVars>>
  <2>1. TypeOK'
    BY <1>1, <1>5, <1>7, <1>9 DEF AuditInv, TypeOK, backoffVars, postVars
  <2>2. Phases' /\ Queues' /\ Fetches'
    BY <1>2, <1>9 DEF AuditInv, Phases, Queues, Fetches, postVars
  <2>3. Clean'
    BY <1>1, <1>5, <1>9 DEF AuditInv, Clean
  <2>4. Pending' = Pending /\ Settled \subseteq Settled'
    BY <1>1, <1>5, <1>9 DEF Pending, Settled
  <2>5. Accounts'
    BY <1>1, <1>2, <1>7, <1>9, <2>4 DEF AuditInv, Accounts
  <2> QED BY <2>1, <2>2, <2>3, <2>5 DEF AuditInv
<1>10. CASE /\ t = <<>> /\ s # <<>> /\ Post /\ todo' = <<>> /\ scrubbed' = s
            /\ UNCHANGED <<force, batch, buffer, closer, backoffVars>>
  <2>1. /\ pc' = "fetch" /\ attempt' = 0 /\ refreshed' = FALSE
        /\ reply' = "none" /\ seen' = FALSE /\ sends' = 1
    BY <1>10 DEF Post
  <2>2. attempt' \in 0..Retries /\ todo' \in Seq(Event)
    BY <1>10, <2>1, AuditAssumption
  <2>3. TypeOK'
    BY <1>1, <1>5, <1>10, <2>1, <2>2 DEF AuditInv, TypeOK, backoffVars
  <2>4. Phases' /\ Queues' /\ Fetches'
    BY <1>2, <1>10, <2>1 DEF AuditInv, Phases, Queues, Fetches
  <2>5. Clean'
    BY <1>1, <1>5, <1>10 DEF AuditInv, Clean
  <2>6. Pending' = Pending /\ Settled \subseteq Settled'
    BY <1>1, <1>5, <1>10 DEF Pending, Settled
  <2>7. Range(t) = {}
    BY <1>10, EmptyFacts
  <2>8. Accounts'
    BY <1>1, <1>7, <1>10, <2>1, <2>6, <2>7 DEF AuditInv, Accounts
  <2> QED BY <2>3, <2>4, <2>5, <2>8 DEF AuditInv
<1>11. CASE t = <<>> /\ s = <<>> /\ resetBackoff /\ NextBatch /\ UNCHANGED postVars
  <2>1. /\ Turned /\ force' \in BOOLEAN
        /\ closer' \in {"none", "draining", "resumed", "closed", "rejected"}
    BY <1>11, TurnFacts
  <2>2. scrubbed' \in Seq(Event) /\ Range(scrubbed') = {}
    BY <2>1, EmptyFacts DEF Turned
  <2>3. backoff' \in 0..MaxBackoff /\ left' \in 0..MaxBackoff
    BY <1>11, AuditAssumption DEF resetBackoff
  <2>4. TypeOK'
    BY <1>1, <1>5, <1>11, <2>1, <2>2, <2>3 DEF AuditInv, TypeOK, Turned, postVars
  <2>5. Fetches'
    BY <1>2, <1>11, <2>1 DEF AuditInv, Fetches, Turned, postVars
  <2>6. Clean'
    BY <1>1, <2>2 DEF AuditInv, Clean
  <2>7. Range(batch) \subseteq Settled'
    BY <1>7, <1>11, EmptyFacts DEF Settled
  <2>8. Pending \cup Settled \subseteq Pending' \cup Settled'
    BY <1>1, <1>5, <2>1, <2>7 DEF Turned, Pending, Settled
  <2>9. Accounts'
    BY <1>1, <2>1, <2>8 DEF AuditInv, Accounts, Turned
  <2> QED BY <2>1, <2>4, <2>5, <2>6, <2>9 DEF AuditInv, Turned
<1> QED BY <1>8, <1>9, <1>10, <1>11

(* An acknowledged batch preserves the invariant: each of its events was   *)
(* acknowledged or masked.                                                 *)
LEMMA DeliveredStep ==
    ASSUME AuditInv, Delivered PROVE AuditInv'
<1>1. UNCHANGED <<timer, closed, postVars, issued, faults, reported, masked, thrown, delivered>>
  BY DEF Delivered
<1>2. pc = "fetch" /\ acked' = acked \cup Range(scrubbed) /\ resetBackoff /\ NextBatch
  BY DEF Delivered
<1>3. /\ Turned /\ force' \in BOOLEAN
      /\ closer' \in {"none", "draining", "resumed", "closed", "rejected"}
  BY <1>2, TurnFacts
<1>4. scrubbed' \in Seq(Event) /\ Range(scrubbed') = {}
  BY <1>3, EmptyFacts DEF Turned
<1>5. backoff' \in 0..MaxBackoff /\ left' \in 0..MaxBackoff
  BY <1>2, AuditAssumption DEF resetBackoff
<1>6. Range(scrubbed) \subseteq Event
  BY RangeFacts DEF AuditInv, TypeOK
<1>7. TypeOK'
  BY <1>1, <1>2, <1>3, <1>4, <1>5, <1>6 DEF AuditInv, TypeOK, Turned, postVars
<1>8. Fetches'
  BY <1>1, <1>2, <1>3 DEF AuditInv, Fetches, Turned, postVars
<1>9. Clean'
  BY <1>1, <1>4 DEF AuditInv, Clean
<1>10. Range(batch) \subseteq Settled'
  BY <1>1, <1>2, EmptyFacts DEF AuditInv, Accounts, Settled
<1>11. Pending \cup Settled \subseteq Pending' \cup Settled'
  BY <1>1, <1>2, <1>3, <1>10 DEF Turned, Pending, Settled
<1>12. Accounts'
  BY <1>1, <1>3, <1>11 DEF AuditInv, Accounts, Turned
<1> QED BY <1>3, <1>7, <1>8, <1>9, <1>12 DEF AuditInv, Turned

(* A drain the pipeline throws out of preserves the invariant: the events  *)
(* of its batch are accounted for by the rejection.                        *)
LEMMA ThrowStep ==
    ASSUME AuditInv, ScrubThrows PROVE AuditInv'
<1>1. UNCHANGED <<bufferVars, backoffVars, postVars, issued,
                  acked, reported, masked, delivered>>
  BY DEF ScrubThrows
<1>2. pc = "scrub" /\ thrown' = thrown \cup Range(batch) /\ Finish("rejected")
  BY DEF ScrubThrows
<1>3. faults' \in 0..MaxFaults
  BY AuditAssumption DEF ScrubThrows, AuditInv, TypeOK
<1>4. /\ pc' = "idle" /\ force' \in BOOLEAN
      /\ batch' = <<>> /\ todo' = <<>> /\ scrubbed' = <<>>
      /\ batch' \in Seq(Event) /\ Len(batch') = 0
      /\ closer' \in {"none", "draining", "resumed", "closed", "rejected"}
  BY <1>2, FinishFacts
<1>5. Range(batch) \subseteq Event /\ Range(batch') = {} /\ Range(scrubbed') = {}
  BY <1>4, RangeFacts, EmptyFacts DEF AuditInv, TypeOK
<1>6. TypeOK'
  BY <1>1, <1>2, <1>3, <1>4, <1>5 DEF AuditInv, TypeOK, bufferVars, backoffVars, postVars
<1>7. Phases' /\ Fetches' /\ Clean'
  BY <1>1, <1>2, <1>4, <1>5 DEF AuditInv, Phases, Fetches, Clean, postVars
<1>8. Queues'
  <2>1. Len(buffer) \in Nat /\ Len(batch) \in Nat
    BY DEF AuditInv, TypeOK
  <2> QED BY <1>1, <1>4, <2>1, AuditAssumption DEF AuditInv, Queues, bufferVars
<1>9. Pending \cup Settled \subseteq Pending' \cup Settled'
  BY <1>1, <1>2 DEF Pending, Settled, bufferVars
<1>10. Accounts'
  BY <1>1, <1>4, <1>9 DEF AuditInv, Accounts
<1> QED BY <1>6, <1>7, <1>8, <1>10 DEF AuditInv

(* A failed POST preserves the invariant, whether its batch is reported or *)
(* put back in front.                                                      *)
LEMMA FailStep ==
    ASSUME AuditInv, PostFails PROVE AuditInv'
<1>1. UNCHANGED <<timer, closed, postVars, issued, faults, acked, masked, thrown, delivered>>
  BY DEF PostFails
<1>2. raiseBackoff /\ Finish("resumed") /\ (DropBatch \/ Requeue)
  BY DEF PostFails
<1>3. /\ pc' = "idle" /\ force' \in BOOLEAN
      /\ batch' = <<>> /\ todo' = <<>> /\ scrubbed' = <<>>
      /\ batch' \in Seq(Event) /\ Len(batch') = 0
      /\ closer' \in {"none", "draining", "resumed", "closed", "rejected"}
  BY <1>2, FinishFacts
<1>4. backoff' \in 0..MaxBackoff /\ left' \in 0..MaxBackoff
  BY <1>2, AuditAssumption DEF raiseBackoff, Least, AuditInv, TypeOK
<1>5. /\ buffer \in Seq(Event) /\ Len(buffer) \in Nat /\ Len(batch) \in Nat
      /\ Len(buffer) + Len(batch) <= BufferSize + BatchSize /\ Range(batch) \subseteq Event
  BY RangeFacts DEF AuditInv, TypeOK, Queues
<1>6. /\ buffer' \in Seq(Event) /\ Len(buffer') <= BufferSize + BatchSize
      /\ reported' \subseteq Event /\ reported \subseteq reported'
      /\ Range(batch) \cup Range(buffer) \subseteq Range(buffer') \cup reported'
  <2>1. CASE DropBatch
    <3>1. Len(buffer) <= BufferSize + BatchSize
      BY <1>5, AuditAssumption
    <3> QED BY <1>5, <2>1, <3>1 DEF DropBatch, AuditInv, TypeOK
  <2>2. CASE Requeue
    BY <2>2, RequeueFacts DEF Requeue, AuditInv, TypeOK
  <2> QED BY <1>2, <2>1, <2>2
<1>7. Range(batch') = {} /\ Range(scrubbed') = {}
  BY <1>3, EmptyFacts
<1>8. TypeOK'
  BY <1>1, <1>3, <1>4, <1>6 DEF AuditInv, TypeOK, postVars
<1>9. Phases' /\ Clean'
  BY <1>1, <1>3, <1>7 DEF AuditInv, Phases, Clean
<1>10. Fetches'
  <2>1. attempt \in Nat /\ sends \in Nat
    BY AuditAssumption DEF AuditInv, TypeOK
  <2> QED BY <1>1, <1>3, <2>1 DEF AuditInv, Fetches, postVars
<1>11. Queues'
  <2>1. Len(buffer') \in Nat
    BY <1>6
  <2> QED BY <1>3, <1>6, <2>1, AuditAssumption DEF Queues
<1>12. Pending \cup Settled \subseteq Pending' \cup Settled'
  BY <1>1, <1>6 DEF Pending, Settled
<1>13. Accounts'
  BY <1>1, <1>3, <1>12 DEF AuditInv, Accounts
<1> QED BY <1>8, <1>9, <1>10, <1>11, <1>13 DEF AuditInv

(* Both halves of close() preserve the invariant, at any moment the host   *)
(* may call it.                                                            *)
LEMMA CloseStep ==
    ASSUME AuditInv, close \/ closeEnds PROVE AuditInv'
<1>1. CASE close /\ MayDrain(TRUE) /\ TakeBatch /\ force' = TRUE /\ closer' = "draining"
  <2>1. UNCHANGED <<backoffVars, postVars, ghostVars, issued, faults>>
        /\ timer' \in BOOLEAN /\ closed' \in BOOLEAN
    BY <1>1 DEF close
  <2> QED BY <1>1, <2>1, StartStep DEF MayDrain
<1>2. CASE close /\ ~MayDrain(TRUE) /\ closer' = "resumed" /\ UNCHANGED <<buffer, drainVars>>
  <2>1. UNCHANGED <<buffer, drainVars, backoffVars, postVars, ghostVars, issued, faults>>
        /\ timer' \in BOOLEAN /\ closed' \in BOOLEAN
    BY <1>2 DEF close
  <2>2. TypeOK'
    BY <1>2, <2>1 DEF AuditInv, TypeOK, drainVars, backoffVars, postVars, ghostVars
  <2>3. Phases' /\ Queues' /\ Fetches'
    BY <2>1 DEF AuditInv, Phases, Queues, Fetches, drainVars, postVars
  <2>4. Clean' /\ Accounts'
    BY <2>1 DEF AuditInv, Clean, Accounts, Pending, Settled, drainVars, ghostVars
  <2> QED BY <2>2, <2>3, <2>4 DEF AuditInv
<1>3. CASE closeEnds
  <2>1. UNCHANGED <<timer, closed, drainVars, backoffVars, postVars, issued, faults,
                    acked, masked, thrown, delivered>>
        /\ closer' = "closed" /\ reported' = reported \cup Range(buffer) /\ buffer' = <<>>
    BY <1>3 DEF closeEnds
  <2>2. buffer' \in Seq(Event) /\ Len(buffer') = 0 /\ Range(buffer) \subseteq Event
    BY <2>1, RangeFacts DEF AuditInv, TypeOK
  <2>3. TypeOK'
    BY <2>1, <2>2 DEF AuditInv, TypeOK, drainVars, backoffVars, postVars
  <2>4. Phases' /\ Fetches' /\ Clean'
    BY <2>1 DEF AuditInv, Phases, Fetches, Clean, drainVars, postVars
  <2>5. Queues'
    <3>1. Len(batch) \in Nat
      BY DEF AuditInv, TypeOK
    <3> QED BY <2>1, <2>2, <3>1, AuditAssumption DEF AuditInv, Queues, drainVars
  <2>6. Pending \cup Settled \subseteq Pending' \cup Settled'
    BY <2>1 DEF Pending, Settled, drainVars
  <2>7. Accounts'
    BY <2>1, <2>6 DEF AuditInv, Accounts, drainVars
  <2> QED BY <2>3, <2>4, <2>5, <2>7 DEF AuditInv
<1> QED BY <1>1, <1>2, <1>3 DEF close

(* Nothing moves when no variable changes. *)
LEMMA AuditStutter ==
    ASSUME AuditInv, UNCHANGED vars PROVE AuditInv'
<1> USE DEF vars, bufferVars, drainVars, backoffVars, postVars, ghostVars
<1>1. TypeOK'
  BY DEF AuditInv, TypeOK
<1>2. Phases' /\ Queues' /\ Fetches' /\ Clean' /\ Accounts'
  BY DEF AuditInv, Phases, Queues, Fetches, Clean, Accounts, Pending, Settled
<1> QED BY <1>1, <1>2 DEF AuditInv

(* The initial state satisfies the invariant. *)
LEMMA AuditInit ==
    Init => AuditInv
<1> SUFFICES ASSUME Init PROVE AuditInv
  OBVIOUS
<1>1. TypeOK
  <2>1. timer \in BOOLEAN /\ closed \in BOOLEAN /\ force \in BOOLEAN
        /\ refreshed \in BOOLEAN /\ seen \in BOOLEAN
    BY DEF Init
  <2>2. <<>> \in Seq(Event)
    OBVIOUS
  <2>3. backoff \in 0..MaxBackoff /\ left \in 0..MaxBackoff /\ attempt \in 0..Retries
        /\ sends \in Nat /\ issued \in 0..MaxEvents /\ faults \in 0..MaxFaults
    BY AuditAssumption DEF Init
  <2>4. \A s \in {acked, reported, masked, thrown, delivered} : s \subseteq Event
    BY DEF Init
  <2> QED BY <2>1, <2>2, <2>3, <2>4 DEF Init, TypeOK
<1>2. Phases /\ Queues /\ Fetches
  BY AuditAssumption DEF Init, Phases, Queues, Fetches
<1>3. Clean /\ Accounts
  BY EmptyFacts DEF Init, Clean, Accounts
<1> QED BY <1>1, <1>2, <1>3 DEF AuditInv

(* The invariant is inductive: ingestion, drains, retries, faults and      *)
(* close() preserve it in whatever order they interleave.                  *)
LEMMA AuditNext ==
    AuditInv /\ [Next]_vars => AuditInv'
<1> SUFFICES ASSUME AuditInv, [Next]_vars PROVE AuditInv'
  OBVIOUS
<1>1. CASE ingestAuditEvent
  BY <1>1, IngestStep
<1>2. CASE TimerFires \/ flushAuditBuffer
  <2>1. pc = "idle" /\ buffer # <<>> /\ TakeBatch /\ force' = FALSE
        /\ UNCHANGED <<timer, closed, closer, backoffVars, postVars, ghostVars, issued, faults>>
    BY <1>2 DEF TimerFires, flushAuditBuffer, drainAuditBuffer, MayDrain
  <2>2. timer' \in BOOLEAN /\ closed' \in BOOLEAN /\ force' \in BOOLEAN
        /\ closer' \in {"none", "draining", "resumed", "closed", "rejected"}
    BY <2>1 DEF AuditInv, TypeOK
  <2> QED BY <2>1, <2>2, StartStep
<1>3. CASE close \/ closeEnds
  BY <1>3, CloseStep
<1>4. CASE ScrubEvent
  BY <1>4, ScrubStep
<1>5. CASE Delivered
  BY <1>5, DeliveredStep
<1>6. CASE PostFails
  BY <1>6, FailStep
<1>7. CASE ScrubThrows
  BY <1>7, ThrowStep
<1>8. CASE Waits
  BY <1>8, WaitsStep
<1>9. CASE UNCHANGED vars
  BY <1>9, AuditStutter
<1> QED BY <1>1, <1>2, <1>3, <1>4, <1>5, <1>6, <1>7, <1>8, <1>9 DEF Next, Draining, Waits

(* The invariant holds in every state the audit pipeline reaches. *)
LEMMA AuditInvariant == Spec => []AuditInv
  BY AuditInit, AuditNext, PTL DEF Spec
-----------------------------------------------------------------------------
(* Every variable of the pipeline has its type, attempts and backoff stay  *)
(* within the configured maximum: requestWithResponse and                  *)
(* drainAuditBuffer never exceed retries and auditMaxBackoffMs.            *)
THEOREM AuditTypeCorrect == Spec => []TypeOK
<1>1. AuditInv => TypeOK
  BY DEF AuditInv
<1> QED BY <1>1, AuditInvariant, PTL

(* No audit event is lost without a trace, whatever overflows, fails, is   *)
(* requeued or is closed, for every size of buffer and batch.              *)
THEOREM AuditAccounted == Spec => []NothingLost
<1>1. AuditInv => NothingLost
  BY DEF AuditInv, Accounts, NothingLost
<1> QED BY <1>1, AuditInvariant, PTL

(* The events in memory never exceed one buffer and one batch, however     *)
(* long the server is down.                                                *)
THEOREM AuditBounded == Spec => []BufferBounded
<1>1. AuditInv => BufferBounded
  BY DEF AuditInv, Queues, BufferBounded
<1> QED BY <1>1, AuditInvariant, PTL

(* An event whose PII self-check fails never reaches central, not even     *)
(* through the retry of a batch that was requeued unscrubbed.              *)
THEOREM AuditLeakFree == Spec => []LeakNeverSent
<1>1. AuditInv => LeakNeverSent
  BY DEF AuditInv, Clean, LeakNeverSent
<1> QED BY <1>1, AuditInvariant, PTL

(* A POST is fetched at most once per attempt and once more for the token  *)
(* refresh: no server can keep requestWithResponse in a loop.              *)
THEOREM AuditSendsBounded == Spec => []SendsBounded
<1>1. AuditInv => SendsBounded
  <2> SUFFICES ASSUME AuditInv PROVE SendsBounded
    OBVIOUS
  <2>1. attempt \in 0..Retries /\ sends \in Nat /\ sends <= attempt + 2
    BY DEF AuditInv, TypeOK, Fetches
  <2> QED BY <2>1, AuditAssumption DEF SendsBounded
<1> QED BY <1>1, AuditInvariant, PTL
-----------------------------------------------------------------------------
(***************************************************************************)
(* The order of the events.  OrderKept speaks of the batch put in front of *)
(* the buffer; the invariant says of the two queues separately that each   *)
(* is in order and which lies before which, that acknowledged events lie   *)
(* before both, and that an event to come lies behind everything.          *)
(***************************************************************************)
Sorted(s) == \A i, j \in DOMAIN s : i < j => s[i] < s[j]

Below(A, B) == \A a \in A, b \in B : a < b

Order ==
    /\ Sorted(batch) /\ Sorted(buffer)
    /\ Below(Range(batch), Range(buffer))
    /\ Below(acked, Pending)
    /\ Pending \subseteq 1..issued /\ acked \subseteq 1..issued
    /\ Range(todo) \subseteq Range(batch) /\ Range(scrubbed) \subseteq Range(batch)

(* Cutting a sorted queue in two leaves two sorted ones, the first before the second. *)
LEMMA SortedSplit ==
    ASSUME NEW s \in Seq(Event), Sorted(s), NEW n \in 0..Len(s)
    PROVE  LET a == SubSeq(s, 1, n)
               b == SubSeq(s, n + 1, Len(s)) IN
           Sorted(a) /\ Sorted(b) /\ Below(Range(a), Range(b))
<1> DEFINE a == SubSeq(s, 1, n)
           b == SubSeq(s, n + 1, Len(s))
<1>0. Len(s) \in Nat /\ DOMAIN s = 1..Len(s)
  OBVIOUS
<1>1. DOMAIN a = 1..n /\ \A i \in 1..n : a[i] = s[i]
  OBVIOUS
<1>2. DOMAIN b = 1..(Len(s) - n) /\ \A i \in 1..(Len(s) - n) : b[i] = s[i + n]
  OBVIOUS
<1> HIDE DEF a, b
<1>3. Sorted(a)
  BY <1>0, <1>1 DEF Sorted
<1>4. Sorted(b)
  <2> SUFFICES ASSUME NEW i \in 1..(Len(s) - n), NEW j \in 1..(Len(s) - n), i < j
               PROVE  b[i] < b[j]
    BY <1>2 DEF Sorted
  <2>1. i + n \in DOMAIN s /\ j + n \in DOMAIN s /\ i + n < j + n
    BY <1>0
  <2>2. s[i + n] < s[j + n]
    BY <2>1 DEF Sorted
  <2> QED BY <1>2, <2>2
<1>5. Below(Range(a), Range(b))
  <2> SUFFICES ASSUME NEW i \in 1..n, NEW j \in 1..(Len(s) - n) PROVE a[i] < b[j]
    BY <1>1, <1>2 DEF Below, Range
  <2>1. i \in DOMAIN s /\ j + n \in DOMAIN s /\ i < j + n
    BY <1>0
  <2>2. s[i] < s[j + n]
    BY <2>1 DEF Sorted
  <2> QED BY <1>1, <1>2, <2>2
<1> QED BY <1>3, <1>4, <1>5 DEF a, b

(* Dropping the head of a sorted queue leaves a sorted queue. *)
LEMMA SortedTail ==
    ASSUME NEW s \in Seq(Event), s # <<>>, Sorted(s)
    PROVE  Sorted(Tail(s))
<1>0. Len(s) \in Nat \ {0} /\ DOMAIN s = 1..Len(s)
  OBVIOUS
<1>1. DOMAIN Tail(s) = 1..(Len(s) - 1) /\ \A i \in 1..(Len(s) - 1) : Tail(s)[i] = s[i + 1]
  OBVIOUS
<1> SUFFICES ASSUME NEW i \in 1..(Len(s) - 1), NEW j \in 1..(Len(s) - 1), i < j
             PROVE  Tail(s)[i] < Tail(s)[j]
  BY <1>1 DEF Sorted
<1>2. i + 1 \in DOMAIN s /\ j + 1 \in DOMAIN s /\ i + 1 < j + 1
  BY <1>0
<1>3. s[i + 1] < s[j + 1]
  BY <1>2 DEF Sorted
<1> QED BY <1>1, <1>3

(* Appending an event younger than all that wait keeps a queue sorted. *)
LEMMA SortedAppend ==
    ASSUME NEW s \in Seq(Event), Sorted(s), NEW e \in Event, Below(Range(s), {e})
    PROVE  Sorted(Append(s, e))
<1>0. Len(s) \in Nat /\ DOMAIN s = 1..Len(s)
  OBVIOUS
<1>1. /\ DOMAIN Append(s, e) = 1..(Len(s) + 1) /\ Append(s, e)[Len(s) + 1] = e
      /\ \A i \in 1..Len(s) : Append(s, e)[i] = s[i]
  OBVIOUS
<1>2. \A i \in 1..Len(s) : s[i] < e
  BY <1>0 DEF Below, Range
<1> SUFFICES ASSUME NEW i \in 1..(Len(s) + 1), NEW j \in 1..(Len(s) + 1), i < j
             PROVE  Append(s, e)[i] < Append(s, e)[j]
  BY <1>1 DEF Sorted
<1>3. i \in 1..Len(s)
  BY <1>0
<1>4. CASE j = Len(s) + 1
  BY <1>1, <1>2, <1>3, <1>4
<1>5. CASE j \in 1..Len(s)
  <2>1. s[i] < s[j]
    BY <1>0, <1>3, <1>5 DEF Sorted
  <2> QED BY <1>1, <1>3, <1>5, <2>1
<1> QED BY <1>0, <1>4, <1>5

(* A sorted queue in front of a later sorted one makes a sorted queue. *)
LEMMA SortedConcat ==
    ASSUME NEW s \in Seq(Event), NEW t \in Seq(Event), Sorted(s), Sorted(t),
           Below(Range(s), Range(t))
    PROVE  Sorted(s \o t)
<1>0. /\ Len(s) \in Nat /\ DOMAIN s = 1..Len(s)
      /\ Len(t) \in Nat /\ DOMAIN t = 1..Len(t)
  OBVIOUS
<1>1. /\ DOMAIN (s \o t) = 1..(Len(s) + Len(t))
      /\ \A i \in 1..Len(s) : (s \o t)[i] = s[i]
      /\ \A i \in (Len(s) + 1)..(Len(s) + Len(t)) : (s \o t)[i] = t[i - Len(s)]
  OBVIOUS
<1> SUFFICES ASSUME NEW i \in 1..(Len(s) + Len(t)), NEW j \in 1..(Len(s) + Len(t)), i < j
             PROVE  (s \o t)[i] < (s \o t)[j]
  BY <1>1 DEF Sorted
<1>2. CASE i <= Len(s) /\ j <= Len(s)
  <2>1. i \in DOMAIN s /\ j \in DOMAIN s
    BY <1>0, <1>2
  <2>2. s[i] < s[j]
    BY <2>1 DEF Sorted
  <2> QED BY <1>0, <1>1, <2>1, <2>2
<1>3. CASE i <= Len(s) /\ j > Len(s)
  <2>1. i \in DOMAIN s /\ j - Len(s) \in DOMAIN t
    BY <1>0, <1>3
  <2>2. s[i] \in Range(s) /\ t[j - Len(s)] \in Range(t)
    BY <2>1 DEF Range
  <2>3. s[i] < t[j - Len(s)]
    BY <2>2 DEF Below
  <2>4. (s \o t)[i] = s[i] /\ (s \o t)[j] = t[j - Len(s)]
    BY <1>0, <1>1, <1>3
  <2> QED BY <2>3, <2>4
<1>4. CASE i > Len(s)
  <2>1. i - Len(s) \in DOMAIN t /\ j - Len(s) \in DOMAIN t /\ i - Len(s) < j - Len(s)
    BY <1>0, <1>4
  <2>2. t[i - Len(s)] < t[j - Len(s)]
    BY <2>1 DEF Sorted
  <2>3. (s \o t)[i] = t[i - Len(s)] /\ (s \o t)[j] = t[j - Len(s)]
    BY <1>0, <1>1, <1>4
  <2> QED BY <2>2, <2>3
<1> QED BY <1>0, <1>2, <1>3, <1>4

(* The invariant gives the order of the batch in front of the buffer. *)
LEMMA OrderImplies ==
    ASSUME TypeOK, Order PROVE OrderKept
<1> DEFINE queue == batch \o buffer
<1>1. batch \in Seq(Event) /\ buffer \in Seq(Event)
  BY DEF TypeOK
<1>2. Sorted(queue)
  BY <1>1, SortedConcat DEF Order
<1>3. Range(queue) = Pending
  BY <1>1, ConcatFacts DEF Pending
<1> HIDE DEF queue
<1>4. \A i \in DOMAIN queue : queue[i] \in Pending
  BY <1>3 DEF Range
<1>5. \A a \in acked, i \in DOMAIN queue : a < queue[i]
  BY <1>4 DEF Order, Below
<1> QED BY <1>2, <1>5 DEF OrderKept, Sorted, queue

(* Taking the next batch off a buffer whose elders are all dealt with. *)
LEMMA OrderTake ==
    ASSUME AuditInv, Order, buffer # <<>>, TakeBatch, issued' = issued,
           acked' \subseteq acked \cup Range(batch)
    PROVE  Order'
<1> DEFINE n == Least(BatchSize, Len(buffer))
<1>1. buffer \in Seq(Event) /\ n \in 0..Len(buffer)
  BY AuditAssumption DEF AuditInv, TypeOK, Least
<1>2. batch' = SubSeq(buffer, 1, n) /\ buffer' = SubSeq(buffer, n + 1, Len(buffer))
  BY DEF TakeBatch
<1> HIDE DEF n
<1>3. Sorted(batch') /\ Sorted(buffer') /\ Below(Range(batch'), Range(buffer'))
  BY <1>1, <1>2, SortedSplit DEF Order
<1>4. Pending' = Range(buffer) /\ todo' = batch' /\ scrubbed' = <<>>
  BY TakeFacts DEF Pending
<1>5. Below(acked', Pending')
  BY <1>4 DEF Order, Below, Pending
<1>6. Pending' \subseteq 1..issued' /\ acked' \subseteq 1..issued'
  BY <1>4 DEF Order, Pending
<1> QED BY <1>3, <1>4, <1>5, <1>6, EmptyFacts DEF Order

(* Ending a drain whose batch is dealt with. *)
LEMMA OrderFinish ==
    ASSUME AuditInv, Order, NEW how, Finish(how), issued' = issued, buffer' = buffer,
           acked' \subseteq acked \cup Range(batch)
    PROVE  Order'
<1>1. batch' = <<>> /\ todo' = <<>> /\ scrubbed' = <<>>
  BY DEF Finish
<1>2. Range(batch') = {} /\ Pending' = Range(buffer) /\ Sorted(batch')
  BY <1>1, EmptyFacts DEF Pending, Sorted
<1>3. Below(acked', Pending') /\ Pending' \subseteq 1..issued' /\ acked' \subseteq 1..issued'
  BY <1>2 DEF Order, Below, Pending
<1>4. Below(Range(batch'), Range(buffer'))
  BY <1>2 DEF Below
<1> QED BY <1>1, <1>2, <1>3, <1>4 DEF Order

(* Either way a drain turns. *)
LEMMA OrderTurn ==
    ASSUME AuditInv, Order, NextBatch, issued' = issued, acked' \subseteq acked \cup Range(batch)
    PROVE  Order'
  BY OrderTake, OrderFinish DEF NextBatch

(* Ingesting: the new event is the youngest, an overflow takes the oldest of the buffer. *)
LEMMA OrderIngest ==
    ASSUME AuditInv, Order, ingestAuditEvent
    PROVE  Order'
<1> DEFINE e == issued + 1
<1>0. issued \in Nat /\ e \in Event /\ issued' = e /\ buffer \in Seq(Event)
  BY AuditAssumption DEF ingestAuditEvent, AuditInv, TypeOK, Event
<1>1. UNCHANGED <<batch, todo, scrubbed, acked>>
  BY DEF ingestAuditEvent, drainVars
<1>2. 1..issued \subseteq 1..issued'
  BY <1>0
<1>3. Below(Pending \cup acked, {e})
  BY <1>0 DEF Order, Below
<1>4. CASE buffer' = buffer
  BY <1>1, <1>2, <1>4 DEF Order, Pending
<1>5. CASE ~closed /\ ingestOpen(e)
  <2>1. PICK s \in Seq(Event) : /\ buffer' = Append(s, e) /\ Sorted(s)
                                /\ Range(s) \subseteq Range(buffer)
    <3>1. CASE Len(buffer) >= BufferSize
      <4>1. buffer # <<>>
        BY <1>0, <3>1, AuditAssumption
      <4>2. Tail(buffer) \in Seq(Event) /\ Range(Tail(buffer)) \subseteq Range(buffer)
        BY <1>0, <4>1, TailFacts
      <4>3. Sorted(Tail(buffer))
        BY <1>0, <4>1, SortedTail DEF Order
      <4> QED BY <1>5, <3>1, <4>2, <4>3 DEF ingestOpen
    <3>2. CASE ~(Len(buffer) >= BufferSize)
      BY <1>0, <1>5, <3>2 DEF ingestOpen, Order
    <3> QED BY <3>1, <3>2
  <2>2. Range(buffer') = Range(s) \cup {e}
    BY <1>0, <2>1, AppendFacts
  <2>3. Below(Range(s), {e})
    BY <1>3, <2>1 DEF Below, Pending
  <2>4. Sorted(buffer')
    BY <1>0, <2>1, <2>3, SortedAppend
  <2>5. Below(Range(batch), Range(buffer'))
    BY <1>3, <2>1, <2>2 DEF Order, Below, Pending
  <2>6. Below(acked, Range(batch) \cup Range(buffer'))
    BY <1>3, <2>1, <2>2 DEF Order, Below, Pending
  <2>7. e \in 1..issued'
    BY <1>0
  <2>8. Pending' \subseteq 1..issued' /\ acked \subseteq 1..issued'
    BY <1>1, <1>2, <2>1, <2>2, <2>7 DEF Order, Pending
  <2> QED BY <1>1, <2>4, <2>5, <2>6, <2>8 DEF Order, Pending
<1> QED BY <1>4, <1>5 DEF ingestAuditEvent

(* Scrubbing moves events of the batch, one after the other, to the scrubbed ones. *)
LEMMA OrderScrub ==
    ASSUME AuditInv, Order, ScrubEvent
    PROVE  Order'
<1> DEFINE e == Head(todo)
           s == applyPiiPipelineOrDrop(e)
<1>1. pc = "scrub" /\ UNCHANGED <<issued, acked>>
  BY DEF ScrubEvent
<1>2. todo \in Seq(Event) /\ todo # <<>> /\ scrubbed \in Seq(Event)
  BY <1>1 DEF AuditInv, TypeOK, Phases
<1>3. /\ e \in Event /\ e \in Range(batch) /\ Range(Tail(todo)) \subseteq Range(batch)
  BY <1>2, TailFacts DEF Order
<1>4. Range(s) \subseteq Range(batch)
  <2>1. Range(Append(scrubbed, e)) = Range(scrubbed) \cup {e}
    BY <1>2, <1>3, AppendFacts
  <2> QED BY <1>3, <2>1 DEF applyPiiPipelineOrDrop, Order
<1>5. CASE NextBatch
  BY <1>1, <1>5, OrderTurn
<1>6. CASE /\ UNCHANGED <<batch, buffer>> /\ scrubbed' = s
           /\ todo' = Tail(todo) \/ todo' = <<>>
  <2>1. Range(todo') \subseteq Range(batch) /\ Range(scrubbed') \subseteq Range(batch)
    BY <1>3, <1>4, <1>6, EmptyFacts
  <2> QED BY <1>1, <1>6, <2>1 DEF Order, Pending
<1> QED BY <1>5, <1>6 DEF ScrubEvent

(* A failed POST drops its batch or puts it back where it came from. *)
LEMMA OrderFails ==
    ASSUME AuditInv, Order, PostFails
    PROVE  Order'
<1>0. batch \in Seq(Event) /\ buffer \in Seq(Event)
  BY DEF AuditInv, TypeOK
<1>1. UNCHANGED <<issued, acked>> /\ Finish("resumed")
  BY DEF PostFails
<1>2. CASE DropBatch
  BY <1>1, <1>2, OrderFinish DEF DropBatch
<1>3. CASE Requeue
  <2>1. buffer' = batch \o buffer /\ batch' = <<>> /\ todo' = <<>> /\ scrubbed' = <<>>
    BY <1>1, <1>3 DEF Requeue, Finish
  <2>2. Sorted(buffer') /\ Range(buffer') = Pending
    BY <1>0, <2>1, SortedConcat, ConcatFacts DEF Order, Pending
  <2>3. Range(batch') = {} /\ Sorted(batch') /\ Pending' = Pending
    BY <2>1, <2>2, EmptyFacts DEF Pending, Sorted
  <2> QED BY <1>1, <2>1, <2>2, <2>3, EmptyFacts DEF Order, Below
<1> QED BY <1>2, <1>3 DEF PostFails

(* The steps that take no event off a queue, and the end of close(). *)
LEMMA OrderElse ==
    ASSUME AuditInv, Order, Waits \/ closeEnds \/ UNCHANGED vars
    PROVE  Order'
<1>1. UNCHANGED <<batch, todo, scrubbed, acked, issued>> /\ (buffer' = buffer \/ buffer' = <<>>)
  BY DEF Waits, Ingest, Fault, Retry, Refresh, Refreshed, Tick, closeEnds, vars, bufferVars,
     drainVars, ghostVars
<1>2. CASE buffer' = buffer
  BY <1>1, <1>2 DEF Order, Pending
<1>3. CASE buffer' = <<>>
  <2>1. Range(buffer') = {} /\ Sorted(buffer')
    BY <1>3, EmptyFacts DEF Sorted
  <2> QED BY <1>1, <2>1 DEF Order, Pending, Below
<1> QED BY <1>1, <1>2, <1>3

(* Every step of the pipeline keeps the order. *)
LEMMA OrderNext ==
    AuditInv /\ Order /\ [Next]_vars => Order'
<1> SUFFICES ASSUME AuditInv, Order, [Next]_vars PROVE Order'
  OBVIOUS
<1>1. CASE ingestAuditEvent
  BY <1>1, OrderIngest
<1>2. CASE TimerFires \/ flushAuditBuffer
  BY <1>2, OrderTake DEF TimerFires, flushAuditBuffer, drainAuditBuffer, MayDrain, ghostVars
<1>3. CASE close
  <2>1. CASE MayDrain(TRUE) /\ TakeBatch
    BY <1>3, <2>1, OrderTake DEF close, MayDrain, ghostVars
  <2>2. CASE UNCHANGED <<buffer, drainVars>>
    BY <1>3, <2>2 DEF close, drainVars, ghostVars, Order, Pending
  <2> QED BY <1>3, <2>1, <2>2 DEF close
<1>4. CASE ScrubEvent
  BY <1>4, OrderScrub
<1>5. CASE Delivered
  BY <1>5, OrderTurn DEF Delivered, Order
<1>6. CASE PostFails
  BY <1>6, OrderFails
<1>7. CASE ScrubThrows
  BY <1>7, OrderFinish DEF ScrubThrows, bufferVars
<1>8. CASE Waits \/ closeEnds \/ UNCHANGED vars
  BY <1>8, OrderElse
<1> QED BY <1>1, <1>2, <1>3, <1>4, <1>5, <1>6, <1>7, <1>8 DEF Next, Draining, Waits

(* "so ordering is preserved": whatever fails, is requeued, overflows or   *)
(* is dropped, what waits stays in the order of its ingestion and behind   *)
(* everything central acknowledged; for every buffer and batch size.       *)
THEOREM AuditOrdered == Spec => []OrderKept
<1>1. Init => Order
  BY EmptyFacts DEF Init, Order, Pending, Sorted, Below
<1>2. Spec => []Order
  BY <1>1, OrderNext, AuditInvariant, PTL DEF Spec
<1>3. AuditInv /\ Order => OrderKept
  BY OrderImplies DEF AuditInv
<1> QED BY <1>2, <1>3, AuditInvariant, PTL
=============================================================================
