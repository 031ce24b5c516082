-------------------------- MODULE ConnectionMapping --------------------------
(***************************************************************************)
(* InjectiveConnectionMapping: two hash maps, client2server and            *)
(* server2client, that are meant to be inverse of each other. The          *)
(* operators below are the map operations the class is written with, and   *)
(* the new values its methods give to the two maps.                        *)
(***************************************************************************)

\* std::unordered_map: no entry, m[k] = v, erase(k).
EmptyMap == [k \in {} |-> k]
Store(m, k, v) == [x \in DOMAIN m \cup {k} |-> IF x = k THEN v ELSE m[x]]
Erase(m, k) == [x \in DOMAIN m \ {k} |-> m[x]]

\* Mutant: the second map is written with key and value swapped.
add_s2c_swapped(s2c, clientId, serverId) == Store(s2c, clientId, serverId)
\* Mutant: only the first map is written.
add_s2c_missing(s2c, clientId, serverId) == s2c

\* add(clientId, serverId)
add_c2s(c2s, clientId, serverId) == Store(c2s, clientId, serverId)
add_s2c(s2c, clientId, serverId) == Store(s2c, serverId, clientId)

\* Mutant: only server2client is cleaned up.
del_c2s_missing(c2s, s2c, serverId) == c2s

\* del(serverId), for a serverId the map holds
del_c2s(c2s, s2c, serverId) == Erase(c2s, s2c[serverId])
del_s2c(s2c, serverId) == Erase(s2c, serverId)

\* The two maps are inverse of each other.
MutuallyInverse(c2s, s2c) ==
    /\ \A c \in DOMAIN c2s : c2s[c] \in DOMAIN s2c /\ s2c[c2s[c]] = c
    /\ \A s \in DOMAIN s2c : s2c[s] \in DOMAIN c2s /\ c2s[s2c[s]] = s

==============================================================================
