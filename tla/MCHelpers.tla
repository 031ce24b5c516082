------------------------------- MODULE MCHelpers -------------------------------
(***************************************************************************)
(* The parts that run outside the two event loops, for TLC, side by side:  *)
(* the start of the program, the map of connections on its own, and the    *)
(* helpers of rlib and plusaes. A behaviour exercises one of them; they    *)
(* share no variable, so this checks each of them as it stands.            *)
(***************************************************************************)
EXTENDS HelperParts

LOCAL INSTANCE SequencesExt

VARIABLES
    block, key, rkeys, s, round, aesPc, trace,                        \* Aes
    op, input, needle, to, nargs, text, pos, prev, buf, escaped, textPc  \* Strings

poolVars == vars
listVars == <<list, live>>
aesVars == <<block, key, rkeys, s, round, aesPc, trace>>
modeVars == <<plain, call, data, out, blocks, modePc, padded_size, counter, blk, blkpos>>
textVars == <<op, input, needle, to, nargs, text, pos, prev, buf, escaped, textPc>>
mainVars == <<argv, os, args, inboundConfig, outboundConfig, filterConfigs, chain, message, mainPc>>
sockVars == <<platform, fn, udp, addrs, listens, wsaHeld, sockPc, rp, open, frees, wsa>>
readVars == <<readPc, pvptr, sent, closed, taken, size, current, currvptr, buffer, result>>
helperVars == <<exercised, poolVars, maps, listVars, aesVars, modeVars, textVars, mainVars, sockVars, readVars>>

-------------------------------------------------------------------------------
(* Instances *)

\* The keys and the block of the examples of FIPS 197, and blocks that hold
\* every byte between them.
MCKeys == {[k \in 1 .. n |-> k - 1] : n \in {16, 24, 32}}
MCBlocks == {[k \in 1 .. 16 |-> 17 * (k - 1)]} \cup {[k \in 1 .. 16 |-> 16 * b + k - 1] : b \in 0 .. 15}
Cipher == INSTANCE Aes WITH data <- block, pc <- aesPc, Blocks <- MCBlocks, CipherKeys <- MCKeys

\* Blocks of three bytes of two bits, and a cipher that moves the bytes and
\* changes each by its place.
MCCipher(b) == [k \in 1 .. kStateSize |-> (b[(k % kStateSize) + 1] + k) % Base]
MCDecipher(b) == [k \in 1 .. kStateSize |->
    LET j == IF k = 1 THEN kStateSize ELSE k - 1 IN (b[j] + Base - j) % Base]
MCXor(m, n) == Cipher!XorBytes(m, n)

\* Messages of up to two blocks and a byte, some that end like padding and one
\* that ends in zeros, and one of nine blocks for the counter.
MCMessages == {[k \in 1 .. n |-> b] : n \in 0 .. 2 * kStateSize + 1, b \in {0, 1, 2}}
              \cup {[k \in 1 .. 9 * kStateSize |-> 1]}
MCIvs == {[k \in 1 .. kStateSize |-> 0], [k \in 1 .. kStateSize |-> k]}
MCNonces == {<<>>, <<1>>, [k \in 1 .. kStateSize |-> Base - 1],
             [k \in 1 .. kStateSize |-> IF k = 2 THEN Base - 2 ELSE Base - 1],
             [k \in 1 .. kStateSize + 1 |-> 0]}

MCNeedles == {<<"a">>, <<"a", "a">>, <<"a", "b">>, <<"b", "a">>}
MCFormats == UNION {[1 .. n -> {"{}", "\\", "x"}] : n \in 0 .. 5}
Text == INSTANCE Strings WITH
    pc <- textPc, Letters <- {"a", "b"}, MaxLen <- 5, Needles <- MCNeedles,
    Formats <- MCFormats, Args <- <<"arg1", "arg2">>

\* Command lines of up to five pieces: -i and -o in both forms, filters good,
\* bad and empty, a log level, help, and an option without a value.
Pieces == {<<<<"-i">>, <<"plain1">>>>, <<<<"-i", "plain1">>>>, <<<<"-o">>, <<"plain2">>>>, <<<<"-o", "plain2">>>>,
           <<<<"-o", "dynport">>>>, <<<<"--filter">>, <<"aes">>>>, <<<<"--filter", "xor">>>>, <<<<"--filter">>, <<"">>>>,
           <<<<"--filter", "{}">>>>, <<<<"--log", "debug">>>>, <<<<"-h">>>>, <<<<"-i">>>>}
MCCommandLines ==
    {FlattenSeq(p) : p \in UNION {[1 .. n -> Pieces] : n \in 1 .. 3}}
    \cup {<<<<"-i", "plain1">>>> \o FlattenSeq(p) \o <<<<"-o", "plain2">>>> : p \in [1 .. 3 -> Pieces]}
    \cup {<<<<"--filter">>, <<"aes">>, <<"-o">>, <<"plain2">>, <<"--filter", "xor">>, <<"-i">>, <<"plain1">>, <<"--filter">>, <<"aes">>>>}

ASSUME PartsAssumption ==
    /\ List!NodesAssumption /\ Sock!AddrsAssumption /\ Stream!StreamAssumption /\ Modes!ModesAssumption
    /\ Main!CommandLinesAssumption

-------------------------------------------------------------------------------
(* Specification *)

\* The values of variables whose part, called from many places with many
\* arguments, is not the one that is exercised.
NoCall == "none"
NoCipher ==
    /\ block = NoCall /\ key = NoCall /\ rkeys = NoCall /\ s = NoCall /\ round = NoCall
    /\ aesPc = NoCall /\ trace = NoCall
NoModes ==
    /\ plain = NoCall /\ call = NoCall /\ data = NoCall /\ out = NoCall /\ blocks = NoCall
    /\ modePc = NoCall /\ padded_size = NoCall /\ counter = NoCall /\ blk = NoCall
    /\ blkpos = NoCall
NoText ==
    /\ op = NoCall /\ input = NoCall /\ needle = NoCall /\ to = NoCall /\ nargs = NoCall
    /\ text = NoCall /\ pos = NoCall /\ prev = NoCall /\ buf = NoCall
    /\ escaped = NoCall /\ textPc = NoCall
NoMain ==
    /\ argv = NoCall /\ os = NoCall /\ args = NoCall /\ inboundConfig = NoCall
    /\ outboundConfig = NoCall /\ filterConfigs = NoCall /\ chain = NoCall
    /\ message = NoCall /\ mainPc = NoCall
NoSock ==
    /\ platform = NoCall /\ fn = NoCall /\ udp = NoCall /\ addrs = NoCall
    /\ listens = NoCall /\ wsaHeld = NoCall /\ sockPc = NoCall /\ rp = NoCall
    /\ open = NoCall /\ frees = NoCall /\ wsa = NoCall
NoStream ==
    /\ readPc = NoCall /\ pvptr = NoCall /\ sent = NoCall /\ closed = FALSE
    /\ taken = NoCall /\ size = NoCall /\ current = NoCall /\ currvptr = NoCall
    /\ buffer = NoCall /\ result = NoCall

HelpersInit ==
    /\ exercised \in {"pool", "maps", "list", "cipher", "modes", "text", "main", "socket", "stream"}
    /\ Init /\ (exercised # "pool" => made = {})
    /\ MapInit /\ List!Init
    /\ IF exercised = "cipher" THEN Cipher!Init ELSE NoCipher
    /\ IF exercised = "modes" THEN Modes!Init ELSE NoModes
    /\ IF exercised = "text" THEN Text!Init ELSE NoText
    /\ IF exercised = "main" THEN Main!Init ELSE NoMain
    /\ IF exercised = "socket" THEN Sock!Init ELSE NoSock
    /\ IF exercised = "stream" THEN Stream!Init ELSE NoStream

Exercise(name) == exercised = name /\ UNCHANGED exercised

Pool_Next == Exercise("pool") /\ Next
    /\ UNCHANGED <<maps, listVars, aesVars, modeVars, textVars, mainVars, sockVars, readVars>>
Map_Next == Exercise("maps") /\ MapNext
    /\ UNCHANGED <<poolVars, listVars, aesVars, modeVars, textVars, mainVars, sockVars, readVars>>
List_Next == Exercise("list") /\ List!Next
    /\ UNCHANGED <<poolVars, maps, aesVars, modeVars, textVars, mainVars, sockVars, readVars>>
Cipher_Next == Exercise("cipher") /\ Cipher!Next
    /\ UNCHANGED <<poolVars, maps, listVars, modeVars, textVars, mainVars, sockVars, readVars>>
Modes_Next == Exercise("modes") /\ Modes!Next
    /\ UNCHANGED <<poolVars, maps, listVars, aesVars, textVars, mainVars, sockVars, readVars>>
Text_Next == Exercise("text") /\ Text!Next
    /\ UNCHANGED <<poolVars, maps, listVars, aesVars, modeVars, mainVars, sockVars, readVars>>
Main_Next == Exercise("main") /\ Main!Next
    /\ UNCHANGED <<poolVars, maps, listVars, aesVars, modeVars, textVars, sockVars, readVars>>
Sock_Next == Exercise("socket") /\ Sock!Next
    /\ UNCHANGED <<poolVars, maps, listVars, aesVars, modeVars, textVars, mainVars, readVars>>
Stream_Next == Exercise("stream") /\ Stream!Next
    /\ UNCHANGED <<poolVars, maps, listVars, aesVars, modeVars, textVars, mainVars, sockVars>>

HelpersNext ==
    \/ Pool_Next \/ Map_Next \/ List_Next \/ Cipher_Next \/ Modes_Next
    \/ Text_Next \/ Main_Next \/ Sock_Next \/ Stream_Next

HelpersSpec == HelpersInit /\ [][HelpersNext]_helperVars

\* Each call is a sequential program that goes on; the peer of a stream is
\* under no obligation.
HelpersFairSpec ==
    /\ HelpersSpec
    /\ WF_mainVars(exercised = "main" /\ Main!Next)
    /\ WF_sockVars(exercised = "socket" /\ Sock!Next)
    /\ WF_readVars(exercised = "stream" /\ (Stream!ReadFirst \/ Stream!ReadNext))

-------------------------------------------------------------------------------
(* Properties of the parts, put together from those of their modules *)

\* Aes: decryption retraces the states of encryption; the tables and the
\* examples of encryption are those of the standard.
CipherSound == exercised = "cipher" =>
    Cipher!DecryptsBackwards /\ Cipher!SboxIsFips197 /\ Cipher!EncryptsAsFips197

\* Strings: join undoes split, replace does not search in what it has put in,
\* and a format gets its arguments in order or throws.
TextSound == exercised = "text" =>
    Text!SplitsAtDividers /\ Text!ReplacesEach /\ Text!ArgumentsInOrder

\* Startup, QuickSocket and ReadAll: main ends or the forwarder runs, the
\* socket helpers return, and the end of a stream ends readall.
CallsEnd ==
    /\ exercised = "main" => Main!StartupEnds
    /\ exercised = "socket" => Sock!CallEnds
    /\ exercised = "stream" => Stream!EndIsSeen

==============================================================================
