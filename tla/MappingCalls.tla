----------------------------- MODULE MappingCalls -----------------------------
(***************************************************************************)
(* InjectiveConnectionMapping on its own, one statement at a time: also    *)
(* del(clientId), which the forwarder does not call, and ids that are not  *)
(* in the map. operator[] inserts 0, or the empty id, for such a one.      *)
(***************************************************************************)
EXTENDS Naturals, ConnectionMapping

CONSTANTS Clients,     \* not empty strings
          Servers      \* descriptors; 0 is not one of a socket

NoClient == ""
ASSUME IdsAssumption == 0 \notin Servers /\ NoClient \notin Clients

VARIABLES c2s, s2c

maps == <<c2s, s2c>>

MapInit == c2s = EmptyMap /\ s2c = EmptyMap

\* operator[] on a map: the map it leaves, and what it finds.
Index(m, k, zero) == IF k \in DOMAIN m THEN m ELSE Store(m, k, zero)

\* forwardMessageToOutbound adds a client that is not there, with a new socket.
Add(c, s) ==
    /\ c \notin DOMAIN c2s /\ s \notin DOMAIN s2c
    /\ c2s' = add_c2s(c2s, c, s) /\ s2c' = add_s2c(s2c, c, s)

DelClient(c) == LET m == Index(c2s, c, 0) IN s2c' = Erase(s2c, m[c]) /\ c2s' = Erase(m, c)

\* Mutant: client2server is left alone.
DelServer_c2sStays(s) == LET m == Index(s2c, s, NoClient) IN UNCHANGED c2s /\ s2c' = Erase(m, s)

DelServer(s) == LET m == Index(s2c, s, NoClient) IN c2s' = Erase(c2s, m[s]) /\ s2c' = Erase(m, s)

MapNext ==
    \/ \E c \in Clients, s \in Servers : Add(c, s)
    \/ \E c \in Clients : DelClient(c)
    \/ \E s \in Servers : DelServer(s)

MapSpec == MapInit /\ [][MapNext]_maps

------------------------------------------------------------------------------
(* Properties *)

\* Deleting an id that is not there, from either side, leaves the maps inverse
\* of each other.
StaysInverse == MutuallyInverse(c2s, s2c)

\* The two maps are one injection, from which the calls remove what they name.
OneRelation == INSTANCE Injection WITH pairs <- {<<c, c2s[c]>> : c \in DOMAIN c2s}
ImplementsInjection == OneRelation!Spec

==============================================================================
