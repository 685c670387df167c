---------------------------- MODULE MCMcpEgress ----------------------------
(* TLC instances of McpEgress: two endpoints of servers with different     *)
(* names, and k1 and k2 whose keys are cut to the same text.               *)
EXTENDS McpEgress, TLC

MCEndpoints == {"e1", "e2", "own"}
MCNameOf == [e \in MCEndpoints |-> IF e = "e1" THEN "s1" ELSE IF e = "e2" THEN "s2" ELSE "none"]
MCCalls == {"k1", "k2", "k3", "k4"}
MCKeyOf == [k \in MCCalls |-> CASE k = "k3" -> "b" [] k = "k4" -> "c" [] OTHER -> "a"]

Call(c, plane, e, calls) ==
    [kind |-> "call", client |-> c, plane |-> plane, endpoint |-> e, calls |-> calls,
     dual |-> TRUE, text |-> TRUE]
Connect(c, plane, e, reply, session) ==
    [kind |-> "connect", client |-> c, plane |-> plane, endpoint |-> e, reply |-> reply,
     session |-> session, dual |-> TRUE, text |-> TRUE]

MCWorkload ==
    {Connect("c1", "fetch", "e1", "json", TRUE), Connect("c1", "node", "e2", "sse", FALSE),
     Connect("c1", "node", "e2", "fails", FALSE), Connect("raw", "fetch", "e1", "other", TRUE)}
    \cup {Connect("raw", "fetch", e, "sse", TRUE) : e \in {"e1", "e2"}}
    \cup {Call("c1", p, "e1", <<"k1">>) : p \in {"fetch", "stdio"}}
    \cup {Call("c1", "node", "e1", <<"k3">>),
          Call("raw", "fetch", "e1", <<"k2">>), Call("raw", "node", "e1", <<"k1", "k3">>),
          Call("raw", "undici", "e2", <<"k3", "k1">>), Call("raw", "fetch", "own", <<"k1">>)}

\* Nothing yet; or c1 is connected to e1, the planes know its name or only its
\* session, and the token of another client's call may be left.
Fresh == [client |-> [at |-> "none", name |-> "none"], known |-> <<>>, tokens |-> <<>>]
MCEarlier ==
    {Fresh} \cup
    {[client |-> [at |-> "e1", name |-> "s1"],
      known  |-> <<[key |-> "e1", name |-> n, session |-> TRUE]>>,
      tokens |-> IF n = "none" THEN <<>> ELSE <<[key |-> <<"c", "s1">>, left |-> 1]>>] :
        n \in {"s1", "none"}}
MCFresh == {Fresh}

\* A client that may connect to a second server.
MCReconnect ==
    {Connect("c1", "stdio", e, "json", FALSE) : e \in {"e1", "e2"}}
    \cup {Call("c1", "stdio", e, <<"k1">>) : e \in {"e1", "e2"}}

MCConfigs == {[failMode |-> "allow", shared |-> TRUE], [failMode |-> "deny", shared |-> FALSE]}
MCSymmetry == Permutations(Jobs)
=============================================================================
