---------------------------------- MODULE Aes ----------------------------------
(***************************************************************************)
(* plusaes: the AES block cipher, byte by byte. A state has 16 bytes; byte *)
(* r of its word c is element 4 * c + r + 1. One action is one round.      *)
(***************************************************************************)
EXTENDS Naturals, Sequences

LOCAL INSTANCE SequencesExt

CONSTANTS Blocks,    \* blocks to encrypt
          CipherKeys \* keys of 16, 24 or 32 bytes

VARIABLES data, key,   \* what is encrypted, and with which key
          rkeys,       \* the round keys
          s,           \* the state
          round, pc,
          trace        \* the states encrypt_state went through

vars == <<data, key, rkeys, s, round, pc, trace>>

\* The bitwise operators of C on bytes, by table.
Byte == 0 .. 255
Bit(n, i) == (n \div 2^i) % 2

\* Exclusive or of two digits of four bits.
XorDigits == <<
    <<0, 1, 2, 3, 4, 5, 6, 7, 8, 9, 10, 11, 12, 13, 14, 15>>,
    <<1, 0, 3, 2, 5, 4, 7, 6, 9, 8, 11, 10, 13, 12, 15, 14>>,
    <<2, 3, 0, 1, 6, 7, 4, 5, 10, 11, 8, 9, 14, 15, 12, 13>>,
    <<3, 2, 1, 0, 7, 6, 5, 4, 11, 10, 9, 8, 15, 14, 13, 12>>,
    <<4, 5, 6, 7, 0, 1, 2, 3, 12, 13, 14, 15, 8, 9, 10, 11>>,
    <<5, 4, 7, 6, 1, 0, 3, 2, 13, 12, 15, 14, 9, 8, 11, 10>>,
    <<6, 7, 4, 5, 2, 3, 0, 1, 14, 15, 12, 13, 10, 11, 8, 9>>,
    <<7, 6, 5, 4, 3, 2, 1, 0, 15, 14, 13, 12, 11, 10, 9, 8>>,
    <<8, 9, 10, 11, 12, 13, 14, 15, 0, 1, 2, 3, 4, 5, 6, 7>>,
    <<9, 8, 11, 10, 13, 12, 15, 14, 1, 0, 3, 2, 5, 4, 7, 6>>,
    <<10, 11, 8, 9, 14, 15, 12, 13, 2, 3, 0, 1, 6, 7, 4, 5>>,
    <<11, 10, 9, 8, 15, 14, 13, 12, 3, 2, 1, 0, 7, 6, 5, 4>>,
    <<12, 13, 14, 15, 8, 9, 10, 11, 4, 5, 6, 7, 0, 1, 2, 3>>,
    <<13, 12, 15, 14, 9, 8, 11, 10, 5, 4, 7, 6, 1, 0, 3, 2>>,
    <<14, 15, 12, 13, 10, 11, 8, 9, 6, 7, 4, 5, 2, 3, 0, 1>>,
    <<15, 14, 13, 12, 11, 10, 9, 8, 7, 6, 5, 4, 3, 2, 1, 0>>>>

XorBytes(m, n) ==
    16 * XorDigits[(m \div 16) + 1][(n \div 16) + 1] + XorDigits[(m % 16) + 1][(n % 16) + 1]
m ^^ n == XorBytes(m, n)

kSbox == <<
    99, 124, 119, 123, 242, 107, 111, 197, 48, 1, 103, 43, 254, 215, 171, 118, 202, 130, 201, 125, 250, 89, 71, 240, 173, 212, 162, 175, 156, 164, 114, 192,
    183, 253, 147, 38, 54, 63, 247, 204, 52, 165, 229, 241, 113, 216, 49, 21, 4, 199, 35, 195, 24, 150, 5, 154, 7, 18, 128, 226, 235, 39, 178, 117,
    9, 131, 44, 26, 27, 110, 90, 160, 82, 59, 214, 179, 41, 227, 47, 132, 83, 209, 0, 237, 32, 252, 177, 91, 106, 203, 190, 57, 74, 76, 88, 207,
    208, 239, 170, 251, 67, 77, 51, 133, 69, 249, 2, 127, 80, 60, 159, 168, 81, 163, 64, 143, 146, 157, 56, 245, 188, 182, 218, 33, 16, 255, 243, 210,
    205, 12, 19, 236, 95, 151, 68, 23, 196, 167, 126, 61, 100, 93, 25, 115, 96, 129, 79, 220, 34, 42, 144, 136, 70, 238, 184, 20, 222, 94, 11, 219,
    224, 50, 58, 10, 73, 6, 36, 92, 194, 211, 172, 98, 145, 149, 228, 121, 231, 200, 55, 109, 141, 213, 78, 169, 108, 86, 244, 234, 101, 122, 174, 8,
    186, 120, 37, 46, 28, 166, 180, 198, 232, 221, 116, 31, 75, 189, 139, 138, 112, 62, 181, 102, 72, 3, 246, 14, 97, 53, 87, 185, 134, 193, 29, 158,
    225, 248, 152, 17, 105, 217, 142, 148, 155, 30, 135, 233, 206, 85, 40, 223, 140, 161, 137, 13, 191, 230, 66, 104, 65, 153, 45, 15, 176, 84, 187, 22>>
kInvSbox == <<
    82, 9, 106, 213, 48, 54, 165, 56, 191, 64, 163, 158, 129, 243, 215, 251, 124, 227, 57, 130, 155, 47, 255, 135, 52, 142, 67, 68, 196, 222, 233, 203,
    84, 123, 148, 50, 166, 194, 35, 61, 238, 76, 149, 11, 66, 250, 195, 78, 8, 46, 161, 102, 40, 217, 36, 178, 118, 91, 162, 73, 109, 139, 209, 37,
    114, 248, 246, 100, 134, 104, 152, 22, 212, 164, 92, 204, 93, 101, 182, 146, 108, 112, 72, 80, 253, 237, 185, 218, 94, 21, 70, 87, 167, 141, 157, 132,
    144, 216, 171, 0, 140, 188, 211, 10, 247, 228, 88, 5, 184, 179, 69, 6, 208, 44, 30, 143, 202, 63, 15, 2, 193, 175, 189, 3, 1, 19, 138, 107,
    58, 145, 17, 65, 79, 103, 220, 234, 151, 242, 207, 206, 240, 180, 230, 115, 150, 172, 116, 34, 231, 173, 53, 133, 226, 249, 55, 232, 28, 117, 223, 110,
    71, 241, 26, 113, 29, 41, 197, 137, 111, 183, 98, 14, 170, 24, 190, 27, 252, 86, 62, 75, 198, 210, 121, 32, 154, 219, 192, 254, 120, 205, 90, 244,
    31, 221, 168, 51, 136, 7, 199, 49, 177, 18, 16, 89, 39, 128, 236, 95, 96, 81, 127, 169, 25, 181, 74, 13, 45, 229, 122, 159, 147, 201, 156, 239,
    160, 224, 59, 77, 174, 42, 245, 176, 200, 235, 187, 60, 131, 83, 153, 97, 23, 43, 4, 126, 186, 119, 214, 38, 225, 105, 20, 99, 85, 33, 12, 125>>

sub(b) == kSbox[b + 1]
inv_sub(b) == kInvSbox[b + 1]
Column(st, c) == SubSeq(st, 4 * c + 1, 4 * c + 4)
XorSeq(x, y) == [i \in DOMAIN x |-> x[i] ^^ y[i]]
Positions == 1 .. 16
Row(i) == (i - 1) % 4
Col(i) == (i - 1) \div 4
At(st, c, r) == st[(4 * (c % 4)) + r + 1]

sub_bytes(st) == [i \in Positions |-> sub(st[i])]
inv_sub_bytes(st) == [i \in Positions |-> inv_sub(st[i])]
shift_rows(st) == [i \in Positions |-> At(st, Col(i) + Row(i), Row(i))]
\* Mutant: the rows move by one place less.
inv_shift_rows_short(st) == [i \in Positions |-> At(st, Col(i) + 5 - Row(i), Row(i))]
inv_shift_rows(st) == [i \in Positions |-> At(st, Col(i) + 4 - Row(i), Row(i))]

mul2(b) == IF b >= 128 THEN ((2 * b) % 256) ^^ 27 ELSE 2 * b
mul(b, m) ==
    LET Times(vt, bit) == <<IF bit = 1 THEN vt[1] ^^ vt[2] ELSE vt[1], mul2(vt[2])>>
    IN FoldLeft(Times, <<0, b>>, [i \in 1 .. 8 |-> Bit(m, i - 1)])[1]

\* Every byte of a column becomes the sum of the four, times coefficients
\* that move along the column.
Mix(st, coef) == [i \in Positions |->
    LET col == Column(st, Col(i))
        term(r) == mul(col[r + 1], coef[((r + 4 - Row(i)) % 4) + 1]) IN
    (term(0) ^^ term(1)) ^^ (term(2) ^^ term(3))]
mix_columns(st) == Mix(st, <<2, 3, 1, 1>>)
inv_mix_columns(st) == Mix(st, <<14, 11, 13, 9>>)

get_round_count(key_size) == (key_size \div 4) + 6
rcon == <<0, 1, 2, 4, 8, 16, 32, 64, 128, 27, 54>>

\* expand_key grows the list of words; the first ones are the key.
RotSub(t) == <<sub(t[2]), sub(t[3]), sub(t[4]), sub(t[1])>>
Scheduled(t, i, nk) ==
    IF i % nk = 0 THEN XorSeq(RotSub(t), <<rcon[(i \div nk) + 1], 0, 0, 0>>)
    ELSE IF nk > 6 /\ i % nk = 4 THEN [j \in 1 .. 4 |-> sub(t[j])]
    ELSE t
expand_key(k) ==
    LET nk == Len(k) \div 4
        nr == get_round_count(Len(k))
        Grow(w, i) == Append(w, XorSeq(Scheduled(w[i], i, nk), w[i - nk + 1]))
        w == FoldLeft(Grow, [i \in 1 .. nk |-> Column(k, i - 1)], [i \in 1 .. 4 * (nr + 1) - nk |-> nk + i - 1])
    IN [i \in 1 .. nr + 1 |-> w[4 * i - 3] \o w[4 * i - 2] \o w[4 * i - 1] \o w[4 * i]]

add_round_key(i, st) == XorSeq(st, rkeys[i + 1])
LastRound == Len(rkeys) - 1

------------------------------------------------------------------------------
Init ==
    /\ data \in Blocks /\ key \in CipherKeys /\ rkeys = expand_key(key)
    /\ s = data /\ round = 0 /\ pc = "encrypt" /\ trace = <<>>

EncryptRound ==
    /\ pc = "encrypt"
    /\ s' = IF round = 0 THEN add_round_key(0, s)
            ELSE LET t == shift_rows(sub_bytes(s)) IN
                 add_round_key(round, IF round < LastRound THEN mix_columns(t) ELSE t)
    /\ trace' = Append(trace, s)
    /\ IF round < LastRound THEN round' = round + 1 /\ UNCHANGED pc
                       ELSE pc' = "decrypt" /\ UNCHANGED round
    /\ UNCHANGED <<data, key, rkeys>>

DecryptRound ==
    /\ pc = "decrypt"
    /\ s' = IF round = 0 THEN add_round_key(0, s)
            ELSE LET t == add_round_key(round, s) IN
                 inv_sub_bytes(inv_shift_rows(IF round < LastRound THEN inv_mix_columns(t) ELSE t))
    /\ IF round > 0 THEN round' = round - 1 /\ UNCHANGED pc
                    ELSE pc' = "done" /\ UNCHANGED round
    /\ UNCHANGED <<data, key, rkeys, trace>>

Next == EncryptRound \/ DecryptRound

Spec == Init /\ [][Next]_vars

------------------------------------------------------------------------------
(* Properties *)

\* decrypt_state undoes encrypt_state round by round, for every key size.
DecryptsBackwards ==
    /\ pc = "decrypt" /\ round < LastRound => s = trace[round + 2]
    /\ pc = "done" => s = data

\* The S-boxes of the source are those of FIPS 197: the inverse in the field
\* of 256 elements, followed by an affine map; and its inverse.
FromBits(b) == FoldRight(LAMBDA bit, rest : bit + 2 * rest, b, 0)
Affine(b) == FromBits([i \in 1 .. 8 |->
    (Bit(b, i - 1) + Bit(b, (i + 3) % 8) + Bit(b, (i + 4) % 8) + Bit(b, (i + 5) % 8)
     + Bit(b, (i + 6) % 8) + Bit(99, i - 1)) % 2])
Inverses(b) == IF b = 0 THEN {0} ELSE {c \in Byte : mul(b, c) = 1}
SboxIsFips197 == pc = "done" => \A i \in Positions :
    LET b == trace[1][i] IN inv_sub(sub(b)) = b /\ \E c \in Inverses(b) : sub(b) = Affine(c)

\* The examples of FIPS 197, appendix C.
KeyOf(size) == [i \in 1 .. size |-> i - 1]
Example == [size \in {16, 24, 32} |->
    CASE size = 16 -> <<105, 196, 224, 216, 106, 123, 4, 48, 216, 205, 183, 128, 112, 180, 197, 90>>
      [] size = 24 -> <<221, 169, 124, 164, 134, 76, 223, 224, 110, 175, 112, 160, 236, 13, 113, 145>>
      [] size = 32 -> <<142, 162, 183, 202, 81, 103, 69, 191, 234, 252, 73, 144, 75, 73, 96, 137>>]
EncryptsAsFips197 ==
    pc = "decrypt" /\ round = LastRound /\ data = [i \in Positions |-> 17 * (i - 1)] /\ key = KeyOf(Len(key))
       => s = Example[Len(key)]

==============================================================================
