---------------------------- MODULE MCFilterTunnel ----------------------------
(***************************************************************************)
(* FilterTunnel for TLC: the --filter options of the README and others,    *)
(* mirrored or not, and lengths around every boundary of the code.         *)
(***************************************************************************)
EXTENDS FilterTunnel

Aes(k) == [reversals |-> 0, kind |-> "aes", key |-> k]
XorC(k) == [reversals |-> 0, kind |-> "xor", key |-> k]
Rev(c) == [c EXCEPT !.reversals = @ + 1]

MCSetups == {
    [near |-> <<>>, far |-> <<>>],
    [near |-> <<Aes("k1")>>, far |-> <<Rev(Aes("k1"))>>],
    [near |-> <<XorC("k1")>>, far |-> <<Rev(XorC("k1"))>>],
    [near |-> <<XorC("k1"), Aes("k1")>>, far |-> <<Rev(Aes("k1")), Rev(XorC("k1"))>>],
    [near |-> <<Aes("k1"), XorC("k2"), XorC("k1")>>,
     far |-> <<Rev(XorC("k1")), Rev(XorC("k2")), Rev(Aes("k1"))>>],
    [near |-> <<Aes("k1"), Rev(Rev(Aes("k2")))>>, far |-> <<Rev(Aes("k2")), Rev(Aes("k1"))>>],
    [near |-> <<Aes("k1"), Aes("k2")>>, far |-> <<Rev(Aes("k1")), Rev(Aes("k2"))>>],
    [near |-> <<Aes("k1")>>, far |-> <<Rev(Aes("k2"))>>],
    [near |-> <<>>, far |-> <<Rev(Aes("k1"))>>],
    [near |-> <<Rev(Aes("k1"))>>, far |-> <<Aes("k1")>>]}

==============================================================================
