------------------------------- MODULE LruMap -------------------------------
(***************************************************************************)
(* The bounded, insertion-ordered JavaScript Map behind every in-process   *)
(* cache of the SDK: `DecisionCache` (express/decision-cache.ts), the HITL *)
(* `ApprovalGrantCache` (evaluation/cedar-client.ts) and                   *)
(* `SimulateDecisionCache` (simulate-cache.ts).                            *)
(*                                                                         *)
(* A map is the sequence of its entries in Map iteration order, oldest     *)
(* first.  An entry is [key, val, left]: `left` is what remains of         *)
(* `expiresAt - Date.now()`, in ticks, so an entry is expired (expiresAt   *)
(* <= now) exactly when left = 0, and no absolute clock is needed.         *)
(***************************************************************************)
EXTENDS Naturals, Sequences

Entry(k, v, ttl) == [key |-> k, val |-> v, left |-> ttl]

(* Map.has *)
Has(m, k) == \E i \in DOMAIN m : m[i].key = k

IndexOf(m, k) == CHOOSE i \in DOMAIN m : m[i].key = k

Lookup(m, k) == m[IndexOf(m, k)]

DropAt(m, p) == [i \in 1..(Len(m) - 1) |-> IF i < p THEN m[i] ELSE m[i + 1]]

(* Map.delete *)
Without(m, k) == IF Has(m, k) THEN DropAt(m, IndexOf(m, k)) ELSE m

(* Mutant: expiresAt is not looked at. *)
Present(m, k) == Has(m, k)

(* A get() that returns the value: present and not expired. *)
Live(m, k) == Has(m, k) /\ Lookup(m, k).left > 0

(* Mutant: a hit restarts the entry's life. *)
AfterSlidingGet(m, k) ==
    IF Live(m, k)
    THEN Append(Without(m, k), [Lookup(m, k) EXCEPT !.left = @ + 1])
    ELSE Without(m, k)

(* What get() leaves behind: an expired entry is deleted, a live one is    *)
(* deleted and re-inserted at the tail with its expiry untouched.          *)
AfterGet(m, k) ==
    IF Live(m, k) THEN Append(Without(m, k), Lookup(m, k)) ELSE Without(m, k)

(* Overflow: the first key of the iteration order goes. *)
EvictOldest(m, max) == IF Len(m) >= max THEN DropAt(m, 1) ELSE m

(* ApprovalGrantCache.put: delete, make room, insert at the tail. *)
PutAtTail(m, max, e) == Append(EvictOldest(Without(m, e.key), max), e)

(* DecisionCache.put: make room only for a new key; Map.set on a key that  *)
(* is present replaces the value where it stands.                          *)
PutInPlace(m, max, e) ==
    IF Has(m, e.key)
    THEN [m EXCEPT ![IndexOf(m, e.key)] = e]
    ELSE Append(EvictOldest(m, max), e)

(* A sweep in iteration order that deletes what has expired. *)
Sweep(m) ==
    LET Swept[i \in 0 .. Len(m)] ==
            IF i = 0 THEN <<>>
            ELSE IF m[i].left > 0 THEN Append(Swept[i - 1], m[i]) ELSE Swept[i - 1]
    IN  Swept[Len(m)]

(* One tick of the clock. *)
Countdown(n) == IF n = 0 THEN 0 ELSE n - 1

Elapse(m) == [i \in DOMAIN m |-> [m[i] EXCEPT !.left = Countdown(@)]]

Unique(m) == \A i, j \in DOMAIN m : m[i].key = m[j].key => i = j
=============================================================================
