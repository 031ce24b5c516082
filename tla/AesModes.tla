------------------------------- MODULE AesModes -------------------------------
(***************************************************************************)
(* The modes of plusaes: ECB and CBC with or without padding, and CTR. The *)
(* block cipher is a parameter, so a block may be shorter than 16 bytes    *)
(* and a byte smaller than 256. A user encrypts some bytes and decrypts    *)
(* what came out, or decrypts bytes that came from somewhere else.         *)
(* AESFilter calls both with a buffer of the right size and reads neither  *)
(* return value.                                                           *)
(***************************************************************************)
EXTENDS Naturals, Sequences

CONSTANTS kStateSize,          \* bytes of a block, fewer than Base
          Base,                \* values of a byte
          encrypt_state(_), decrypt_state(_), \* the second undoes the first
          xor_byte(_, _),      \* the operator ^ of C on bytes
          Messages,            \* what is encrypted, or received
          Ivs,                 \* initialization vectors; zeros stand for no vector
          Nonces,
          MaxBlocks, Room      \* blocks in the output buffer, and bytes behind it

Bytes == 0 .. Base - 1
States == [1 .. kStateSize -> Bytes]

\* The padding says in a byte how long it is, and the cipher and ^ are undone.
ModesAssumption ==
    /\ kStateSize \in Nat \ {0} /\ Base \in Nat /\ kStateSize < Base /\ MaxBlocks \in Nat /\ Room \in Nat
    /\ Messages \subseteq Seq(Bytes) /\ Ivs \subseteq States /\ Nonces \subseteq Seq(Bytes)
    /\ \A s \in States : encrypt_state(s) \in States /\ decrypt_state(s) \in States
                         /\ decrypt_state(encrypt_state(s)) = s
    /\ \A a, b \in Bytes : xor_byte(a, b) \in Bytes /\ xor_byte(xor_byte(a, b), b) = a /\ xor_byte(a, 0) = a

VARIABLES plain,       \* what the user encrypted, or NoMessage
          call,        \* the call in progress
          data,        \* its input
          out,         \* the bytes at its output buffer, and beyond
          i,           \* blocks done
          pc, padded_size,
          counter, blk, blkpos  \* of crypt_ctr

vars == <<plain, call, data, out, i, pc, padded_size, counter, blk, blkpos>>
ctrVars == <<counter, blk, blkpos>>

NoMessage == <<Base>>
Untouched == Base
Space == 1 .. MaxBlocks * kStateSize + Room
Zeros == [k \in 1 .. kStateSize |-> 0]
Fill(n, b) == [k \in 1 .. n |-> b]

Sizes == 0 .. MaxBlocks * kStateSize
Calls == [op : {"encrypt", "decrypt"}, mode : {"ecb", "cbc"}, pads : BOOLEAN, iv : Ivs,
          key_ok : BOOLEAN, size : Sizes]
CtrCalls == [op : {"crypt"}, mode : {"ctr"}, nonce : Nonces, key_ok : BOOLEAN]

BlockAt(s, k) == SubSeq(s, k * kStateSize + 1, (k + 1) * kStateSize)
xor_data(s, t) == [k \in 1 .. kStateSize |-> xor_byte(s[k], t[k])]
memcpy(buf, at, s) == [k \in Space |-> IF k - at \in DOMAIN s THEN s[k - at] ELSE buf[k]]
BlocksOf(s) == Len(s) \div kStateSize
Rem == Len(data) % kStateSize
get_padded_encrypted_size(n) == n + kStateSize - (n % kStateSize)
OutputSize == IF call.pads THEN get_padded_encrypted_size(Len(data)) ELSE Len(data)

check_encrypt_cond ==
    IF ~call.pads /\ Rem # 0 THEN "InvalidDataSize"
    ELSE IF ~call.key_ok THEN "InvalidKeySize"
    ELSE IF call.size < OutputSize THEN "InvalidBufferSize"
    ELSE "Ok"

\* data_size - kStateSize is unsigned: no buffer is large enough for nothing.
check_decrypt_cond ==
    IF Rem # 0 THEN "InvalidDataSize"
    ELSE IF ~call.key_ok THEN "InvalidKeySize"
    ELSE IF call.pads /\ (data = <<>> \/ call.size < Len(data) - kStateSize) THEN "InvalidBufferSize"
    ELSE IF ~call.pads /\ call.size < Len(data) THEN "InvalidBufferSize"
    ELSE "Ok"

check_padding(padding, last) ==
    /\ padding <= kStateSize
    /\ \A k \in 0 .. padding - 1 : last[kStateSize - k] = padding

\* What a block is combined with: in CBC, the block of ciphertext before it.
Previous(cipher) ==
    IF call.mode = "ecb" THEN Zeros ELSE IF i = 0 THEN call.iv ELSE BlockAt(cipher, i - 1)

------------------------------------------------------------------------------
Init ==
    /\ data \in Messages
    /\ \/ call \in Calls /\ blk = <<>>
       \/ call \in CtrCalls /\ blk = Zeros
    /\ plain = IF call.op = "decrypt" THEN NoMessage ELSE data
    /\ counter = IF call.op = "crypt"
                 THEN [k \in 1 .. kStateSize |-> IF k \in DOMAIN call.nonce THEN call.nonce[k] ELSE 0]
                 ELSE <<>>
    /\ pc = IF call.op # "crypt" THEN "check"
            ELSE IF Len(call.nonce) > kStateSize THEN "InvalidNonceSize"
            ELSE IF ~call.key_ok THEN "InvalidKeySize"
            ELSE "bytes"
    /\ out = [k \in Space |-> Untouched] /\ i = 0 /\ padded_size = 0 /\ blkpos = kStateSize

Check ==
    /\ pc = "check"
    /\ LET e == IF call.op = "encrypt" THEN check_encrypt_cond ELSE check_decrypt_cond IN
       pc' = IF e = "Ok" THEN "blocks" ELSE e
    /\ UNCHANGED <<plain, call, data, out, i, padded_size, ctrVars>>

EncryptBlock ==
    /\ pc = "blocks" /\ call.op = "encrypt" /\ i < BlocksOf(data)
    /\ out' = memcpy(out, i * kStateSize, encrypt_state(xor_data(BlockAt(data, i), Previous(out))))
    /\ i' = i + 1
    /\ UNCHANGED <<plain, call, data, pc, padded_size, ctrVars>>

\* CBC encrypts a first block, whether or not there is one.
LastBlock == SubSeq(data, i * kStateSize + 1, Len(data)) \o Fill(kStateSize - Rem, kStateSize - Rem)
EncryptLast ==
    /\ pc = "blocks" /\ call.op = "encrypt" /\ i = BlocksOf(data)
    /\ out' = IF call.pads \/ (call.mode = "cbc" /\ data = <<>>)
              THEN memcpy(out, i * kStateSize, encrypt_state(xor_data(LastBlock, Previous(out))))
              ELSE out
    /\ pc' = "Ok"
    /\ UNCHANGED <<plain, call, data, i, padded_size, ctrVars>>

Deciphered == xor_data(decrypt_state(BlockAt(data, i)), Previous(data))
DecryptBlock ==
    /\ pc = "blocks" /\ call.op = "decrypt" /\ i + 1 < BlocksOf(data)
    /\ out' = memcpy(out, i * kStateSize, Deciphered)
    /\ i' = i + 1
    /\ UNCHANGED <<plain, call, data, pc, padded_size, ctrVars>>

\* The last block is deciphered apart. Of a single block, CBC has written all
\* to the buffer when it clears as much as the caller says there is.
Kept(last) == IF call.pads THEN kStateSize - last[kStateSize] ELSE kStateSize
Fits(last) == call.pads => call.size >= i * kStateSize + Kept(last)
DecryptLast ==
    /\ pc = "blocks" /\ call.op = "decrypt" /\ i + 1 = BlocksOf(data)
    /\ LET last == Deciphered
           at == i * kStateSize
           buf == IF call.mode = "cbc" /\ i = 0
                  THEN memcpy(memcpy(out, 0, last), 0, Fill(call.size, 0)) ELSE out IN
       /\ padded_size' = IF call.pads THEN last[kStateSize] ELSE padded_size
       /\ \/ call.pads /\ ~check_padding(last[kStateSize], last) /\ pc' = "InvalidKey" /\ out' = buf
          \/ /\ call.pads => check_padding(last[kStateSize], last)
             /\ IF Fits(last)
                THEN pc' = "Ok" /\ out' = memcpy(buf, at, SubSeq(last, 1, Kept(last)))
                ELSE pc' = "InvalidBufferSize" /\ out' = buf
    /\ UNCHANGED <<plain, call, data, i, ctrVars>>

\* Without padding nothing is decrypted as one block less than none: the loop
\* goes on until the process dies, wherever it has written by then.
DecryptNothing ==
    /\ pc = "blocks" /\ call.op = "decrypt" /\ data = <<>>
    /\ \E b \in Bytes : out' = [k \in Space |-> b]
    /\ pc' = "crashed"
    /\ UNCHANGED <<plain, call, data, i, padded_size, ctrVars>>

\* The user decrypts what it encrypted, into a buffer of any size.
Decrypt ==
    /\ pc = "Ok" /\ call.op = "encrypt"
    /\ data' = SubSeq(out, 1, OutputSize)
    /\ \E size \in Sizes : call' = [call EXCEPT !.op = "decrypt", !.size = size]
    /\ pc' = "check" /\ i' = 0 /\ out' = [k \in Space |-> Untouched]
    /\ UNCHANGED <<plain, padded_size, ctrVars>>

\* incr_counter: a number whose last byte is the least significant.
\* Mutant: the carry is lost.
incr_counter_noCarry(c) == [c EXCEPT ![kStateSize] = (@ + 1) % Base]
incr_counter(c) == [k \in 1 .. kStateSize |->
    IF \A j \in k + 1 .. kStateSize : c[j] = Base - 1 THEN (c[k] + 1) % Base ELSE c[k]]

\* crypt_ctr works in place, one byte at a time.
CryptByte ==
    /\ pc = "bytes" /\ i < Len(data)
    /\ LET fresh == blkpos = kStateSize
           b == IF fresh THEN encrypt_state(counter) ELSE blk
           p == IF fresh THEN 0 ELSE blkpos IN
       /\ counter' = IF fresh THEN incr_counter(counter) ELSE counter
       /\ blk' = b /\ blkpos' = p + 1
       /\ data' = [data EXCEPT ![i + 1] = xor_byte(@, b[p + 1])]
    /\ i' = i + 1
    /\ UNCHANGED <<plain, call, out, pc, padded_size>>

CryptReturn ==
    /\ pc = "bytes" /\ i = Len(data) /\ pc' = "Ok"
    /\ UNCHANGED <<plain, call, data, out, i, padded_size, ctrVars>>

Next ==
    \/ Check \/ EncryptBlock \/ EncryptLast
    \/ DecryptBlock \/ DecryptLast \/ DecryptNothing \/ Decrypt
    \/ CryptByte \/ CryptReturn

Spec == Init /\ [][Next]_vars

------------------------------------------------------------------------------
(* Properties *)

Decrypted == call.op = "decrypt" /\ pc = "Ok"

\* Whoever encrypts and decrypts with the same mode, vector and padding gets
\* the message back, whatever its length (encrypt_cbc, decrypt_cbc, ..._ecb).
RoundTrip == Decrypted /\ plain # NoMessage =>
    SubSeq(out, 1, Len(data) - padded_size) = plain

\* A caller whose buffers are as large as the data is never refused its own
\* data: AESFilter relies on it, for it ignores the error. It has to pad, or
\* to have something to encrypt.
OwnDataAccepted ==
    /\ call.op = "decrypt" /\ plain # NoMessage /\ call.key_ok /\ call.size >= Len(data)
    /\ call.pads \/ plain # <<>>
    => pc \in {"check", "blocks", "Ok"}

\* The calls whose first block is written though the check lets through a size
\* less than a block: CBC decrypts one padded block, or encrypts nothing and
\* does not pad.
FirstBlockUnasked ==
    /\ call.mode = "cbc"
    /\ \/ call.op = "decrypt" /\ call.pads /\ Len(data) = kStateSize
       \/ call.op = "encrypt" /\ ~call.pads /\ data = <<>>

\* What is written past the size the caller names: nothing, also where the
\* size is less than the data because the padding will go, but for the first
\* block of the calls above, and for a decryption of nothing.
InBounds == call.op # "crypt" /\ pc # "crashed" =>
    \A k \in Space : k > call.size /\ out[k] # Untouched => FirstBlockUnasked /\ k <= kStateSize

\* plusaes.hpp:654: "Decrypted data buffer size." A caller may take it that
\* nothing is written past the size it names, and that every call returns.
NeverPastBuffer == call.op # "crypt" => \A k \in Space : k > call.size => out[k] = Untouched

\* crypt_ctr counts in whole blocks: the key stream of byte k of a message is
\* the cipher of nonce + k \div kStateSize, also across a carry.
Number(c) == LET n[k \in 0 .. Len(c)] == IF k = 0 THEN 0 ELSE Base * n[k - 1] + c[k] IN n[Len(c)]
Power[k \in 0 .. kStateSize] == IF k = 0 THEN 1 ELSE Base * Power[k - 1]
CounterCounts == call.op = "crypt" /\ pc \in {"bytes", "Ok"} =>
    LET from == Number(call.nonce) * Power[kStateSize - Len(call.nonce)]
        used == (i + kStateSize - 1) \div kStateSize IN
    Number(counter) = (from + used) % Power[kStateSize]

\* "this function removes padding by PKCS and returns padded size using
\* padded_size": what is accepted ends in padded_size bytes, at least one.
PaddingIsPkcs == Decrypted /\ call.pads => padded_size \in 1 .. kStateSize

==============================================================================
