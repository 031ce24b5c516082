----------------------------- MODULE FilterTunnel -----------------------------
(***************************************************************************)
(* One datagram and its answer through the tunnel of the README: a         *)
(* forwarder at the user's side, a forwarder at the server's side with the *)
(* reversed filters, and the UDP application behind it. Each forwarder     *)
(* receives into a buffer of fixed size, converts, and sends on. Filters   *)
(* keep no state between datagrams, so one exchange shows what any does.   *)
(***************************************************************************)
EXTENDS Filters

CONSTANTS Setups,   \* the --filter options of the two: [near, far]
          Lengths   \* lengths of the datagrams of the user and the application

ASSUME SetupsAssumption ==
    /\ Setups \subseteq [near: Seq(FilterConfig), far: Seq(FilterConfig)]
    /\ Lengths \subseteq Nat

VARIABLES near,     \* filters of the forwarder next to the user
          far,      \* filters of the forwarder next to the application
          at,       \* where the datagram is
          datagram, \* the datagram
          length    \* its length when the user or the application sent it

vars == <<near, far, at, datagram, length>>

TypeOK ==
    /\ near \in Seq(Filter)
    /\ far \in Seq(Filter)
    /\ at \in {"near", "far", "app", "farBack", "nearBack", "user",
               "unsent", "terminated"}
    /\ datagram.size \in 0 .. DGRAM_BUFFER_SIZE + kStateSize * (Len(near) + Len(far) + 1)
                         \/ datagram = Content(length)
    /\ datagram.intact \in BOOLEAN
    /\ length \in Lengths

Chain(configs) == [i \in DOMAIN configs |-> CreateFilterFromConfig(configs[i])]

\* The user's datagram is on its way to the near forwarder.
Init ==
    /\ \E s \in Setups : near = Chain(s.near) /\ far = Chain(s.far)
    /\ at = "near"
    /\ length \in Lengths
    /\ datagram = Content(length)

------------------------------------------------------------------------------
\* PlainInbound receives, converts forward, and PlainOutbound sends on with
\* quick_send, which sends nothing for an empty string.
Request(here, next, chain) ==
    /\ at = here
    /\ datagram' \in convertForward(chain, Truncate(datagram))
    /\ at' = IF datagram'.size = 0 THEN "unsent" ELSE next
    /\ UNCHANGED <<near, far, length>>

\* PlainOutbound receives, where an empty datagram ends the process, and
\* converts back; PlainInbound sends on, also what has become empty.
Answer(here, next, chain) ==
    /\ at = here
    /\ IF datagram.size = 0
       THEN at' = "terminated" /\ UNCHANGED datagram
       ELSE at' = next /\ datagram' \in convertBackward(chain, Truncate(datagram))
    /\ UNCHANGED <<near, far, length>>

\* The application answers with any datagram.
AppAnswers ==
    /\ at = "app"
    /\ length' \in Lengths
    /\ datagram' = Content(length')
    /\ at' = "farBack"
    /\ UNCHANGED <<near, far>>

Next ==
    \/ Request("near", "far", near)
    \/ Request("far", "app", far)
    \/ AppAnswers
    \/ Answer("farBack", "nearBack", far)
    \/ Answer("nearBack", "user", near)

Spec == Init /\ [][Next]_vars

------------------------------------------------------------------------------
(* Properties *)

\* The far side has the same filters as the near side, reversed and in the
\* opposite order, and the near side encrypts.
Mirrored ==
    /\ far = [i \in DOMAIN near |-> [ReverseChain(near)[i] EXCEPT !.rev = ~@]]
    /\ \A i \in DOMAIN near : near[i].kind = "aes" => ~near[i].rev

\* How long a datagram of n bytes is after the first i filters of a chain.
SizeAfter(chain, n) ==
    LET s[i \in 0 .. Len(chain)] ==
            IF i = 0 THEN n
            ELSE IF chain[i].kind = "aes" THEN get_padded_encrypted_size(s[i - 1])
            ELSE s[i - 1]
    IN s
FitsBuffers == SizeAfter(near, length)[Len(near)] <= DGRAM_BUFFER_SIZE
FitsKeys == \A i \in DOMAIN near :
                near[i].kind = "xor" => SizeAfter(near, length)[i] <= BlockSize + 1

Delivered == at \in {"app", "user"}

\* With mirrored filters, the application gets what the user sent and the
\* user what the application answered, also across AES padding, several
\* filters and both directions of each, as long as the converted datagram
\* fits the receive buffers and each XOR key covers what it is applied to.
TunnelTransparent ==
    Delivered /\ Mirrored /\ FitsBuffers /\ FitsKeys => datagram = Content(length)

\* However the decryption fails (other key, truncated or foreign datagram),
\* a side that decrypts never hands on more bytes than it received: the
\* padding taken from the last byte cannot make a length that wraps around.
DecryptionNeverGrows ==
    [][(/\ at = "far" /\ \A i \in DOMAIN far : far[i].rev \/ far[i].kind = "xor")
       => datagram'.size <= Truncate(datagram).size]_vars

\* With mirrored filters, no answer that the far forwarder lived through
\* reaches the near one empty, which would end its process (plain.hpp:164).
NearForwarderSurvives == at = "nearBack" /\ Mirrored => datagram.size > 0

\* So sizes are sound: filters add a block each at most (common.hpp:11,
\* aes_encryption.hpp:35), and no answer shrinks to nothing on its way.
SizesSound == TypeOK /\ NearForwarderSurvives

\* What the code says of XorFilter::convertBackward, "Decrypt"
\* (xor_encryption.hpp:29): it undoes convertForward.
XorDecrypts ==
    (/\ Delivered /\ Mirrored /\ FitsBuffers
     /\ \A i \in DOMAIN near : near[i].kind = "xor") => datagram = Content(length)

==============================================================================
