------------------------------ MODULE Injection ------------------------------
(* What InjectiveConnectionMapping promises: a one-to-one relation.        *)
CONSTANTS Clients, Servers

VARIABLE pairs

Init == pairs = {}

Add(c, s) ==
    /\ \A p \in pairs : p[1] # c /\ p[2] # s
    /\ pairs' = pairs \cup {<<c, s>>}

DelClient(c) == pairs' = {p \in pairs : p[1] # c}
DelServer(s) == pairs' = {p \in pairs : p[2] # s}

Next ==
    \/ \E c \in Clients, s \in Servers : Add(c, s)
    \/ \E c \in Clients : DelClient(c)
    \/ \E s \in Servers : DelServer(s)

Spec == Init /\ [][Next]_pairs

==============================================================================
