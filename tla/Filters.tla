-------------------------------- MODULE Filters --------------------------------
(***************************************************************************)
(* The filters a forwarder converts datagrams with: AESFilter (CBC, on     *)
(* plusaes), XorFilter, ReversedFilter, and ChainedFilters over a list.    *)
(* The ciphers are symbolic. A datagram is a record of                     *)
(*   size   - its length in bytes,                                         *)
(*   intact - whether its innermost content is what its sender sent,       *)
(*   layers - what the filters put around that content, outermost first:   *)
(*            an AES layer knows its key, the size inside, and whether all *)
(*            its bytes are still there; an XOR layer is the set of masks  *)
(*            that cover the bytes, as applying a mask twice removes it.   *)
(* Lengths are those of the code, in bytes.                                *)
(***************************************************************************)
EXTENDS Integers, Sequences

CONSTANTS Keys,        \* keys, as pskToKey makes them from the passwords
          HeapBytes,   \* what the memory after an XOR key may hold
          LastBytes,   \* last byte a failed decryption may come up with
          Word         \* 2^64, or any other number no length reaches

kStateSize == 16
BlockSize == 32                \* of XorFilter: the length of its key
DGRAM_BUFFER_SIZE == 20480

ASSUME FiltersAssumption ==
    /\ LastBytes \subseteq 0 .. 255
    /\ Word \in Nat /\ Word > 2 * DGRAM_BUFFER_SIZE
    /\ "none" \notin HeapBytes

Filter == [kind: {"aes", "xor"}, key: Keys, rev: BOOLEAN]

\* CreateFilterFromConfig: each "reverse@" in front wraps the filter into a
\* ReversedFilter, whose two conversions are the other's swapped.
FilterConfig == [reversals: Nat, kind: {"aes", "xor"}, key: Keys]
CreateFilterFromConfig(config) ==
    [kind |-> config.kind, key |-> config.key, rev |-> config.reversals % 2 = 1]

Content(size) == [size |-> size, intact |-> TRUE, layers |-> <<>>]
Garbage(size) == [size |-> size, intact |-> FALSE, layers |-> <<>>]

\* recvfrom and recv into msgBuffer: what does not fit is cut off silently.
Truncate(d) ==
    IF d.size <= DGRAM_BUFFER_SIZE THEN d
    ELSE [size |-> DGRAM_BUFFER_SIZE, intact |-> FALSE,
          layers |-> [i \in DOMAIN d.layers |->
                        IF d.layers[i].kind = "aes"
                        THEN [d.layers[i] EXCEPT !.whole = FALSE]
                        ELSE d.layers[i]]]

------------------------------------------------------------------------------
(* AESFilter *)

get_padded_encrypted_size(n) == n + kStateSize - (n % kStateSize)

\* AESFilter::convertForward. The conditions of encrypt_cbc hold: padding is
\* on, the key has 16 bytes and the buffer has the padded size.
Encrypt(f, d) ==
    [size |-> get_padded_encrypted_size(d.size), intact |-> d.intact,
     layers |-> <<[kind |-> "aes", key |-> f.key, size |-> d.size,
                   whole |-> TRUE]>> \o d.layers]

\* Mutant: the number of bytes is the difference, wherever it is.
substr_wraps(size, padded) == IF padded <= size THEN size - padded ELSE size - padded + Word
\* result.substr(0, datagram.size() - padded_size) in size_t arithmetic: a
\* difference below zero wraps around, and substr then returns everything.
substr(size, padded) ==
    LET n == IF padded <= size THEN size - padded ELSE size - padded + Word
    IN IF n < size THEN n ELSE size

Decryptable(f, d) ==
    /\ d.layers # <<>>
    /\ d.layers[1].kind = "aes"
    /\ d.layers[1].key = f.key
    /\ d.layers[1].whole

\* AESFilter::convertBackward. decrypt_cbc refuses a size that is zero or no
\* multiple of the block, and leaves the zeros of the result buffer and a
\* padded size of zero. Otherwise it takes the padded size from the last
\* byte before it checks the padding; the caller ignores its verdict.
Decrypt(f, d) ==
    IF d.size % kStateSize # 0 \/ d.size = 0 THEN {Garbage(d.size)}
    ELSE IF Decryptable(f, d)
    THEN {[size |-> substr(d.size, d.size - d.layers[1].size), intact |-> d.intact,
           layers |-> Tail(d.layers)]}
    ELSE {Garbage(substr(d.size, padded)) : padded \in LastBytes}

------------------------------------------------------------------------------
(* XorFilter *)

\* The mask: the key, its terminating zero, and from there on whatever the
\* memory behind the key holds at the time, as the index is never reduced.
\* The message buffers lie behind the key, so the read does not trap.
Masks(f, d) == {f.key} \X IF d.size <= BlockSize + 1 THEN {"none"} ELSE HeapBytes

\* The masks that cover a stack of layers, and what they cover.
IsCovered(layers) == layers # <<>> /\ layers[1].kind = "xor"
MasksOver(layers) == IF IsCovered(layers) THEN layers[1].masks ELSE {}
Below(layers) == IF IsCovered(layers) THEN Tail(layers) ELSE layers
Cover(masks, below) ==
    IF masks = {} THEN below ELSE <<[kind |-> "xor", masks |-> masks]>> \o below

Flip(masks, m) == IF m \in masks THEN masks \ {m} ELSE masks \cup {m}

\* XorFilter::convertForward, and convertBackward, which calls it.
Xor(f, d) ==
    {[size |-> d.size, intact |-> d.intact,
      layers |-> Cover(Flip(MasksOver(d.layers), m), Below(d.layers))] : m \in Masks(f, d)}

------------------------------------------------------------------------------
(* One filter, and a chain *)

Forward(f, d) ==
    IF f.kind = "xor" THEN Xor(f, d)
    ELSE IF f.rev THEN Decrypt(f, d) ELSE {Encrypt(f, d)}

Backward(f, d) == Forward([f EXCEPT !.rev = ~@], d)

ReverseChain(chain) == [i \in DOMAIN chain |-> chain[Len(chain) + 1 - i]]

\* ChainedFilters::convertForward: all results it may have.
convertForward(chain, d) ==
    LET after[i \in 0 .. Len(chain)] ==
            IF i = 0 THEN {d} ELSE UNION {Forward(chain[i], x) : x \in after[i - 1]}
    IN after[Len(chain)]

\* Mutant: the way back goes through the filters in the same order.
convertBackward_sameOrder(chain, d) ==
    convertForward([i \in DOMAIN chain |-> [chain[i] EXCEPT !.rev = ~@]], d)

\* Mutant: on the way back, too, each filter converts forward.
convertBackward_forward(chain, d) == convertForward(ReverseChain(chain), d)

\* ChainedFilters::convertBackward: from the last filter to the first.
convertBackward(chain, d) ==
    LET back == ReverseChain(chain)
        after[i \in 0 .. Len(back)] ==
            IF i = 0 THEN {d} ELSE UNION {Backward(back[i], x) : x \in after[i - 1]}
    IN after[Len(back)]

==============================================================================
