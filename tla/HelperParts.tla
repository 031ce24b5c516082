------------------------------ MODULE HelperParts ------------------------------
(***************************************************************************)
(* Helpers of the forwarder next to one another, each with variables of    *)
(* its own, and what they promise: the object pool, the maps of            *)
(* connections, the list with its pointers, the socket helpers, the modes  *)
(* of plusaes, and the start of the program.                               *)
(***************************************************************************)
EXTENDS ObjectPool, MappingCalls

CONSTANTS Nodes, Nil,          \* TraceableList
          MaxAddrs,            \* QuickSocket
          BufferSizes, StreamLen, \* ReadAll
          kStateSize, Base, encrypt_state(_), decrypt_state(_), xor_byte(_, _),
          Messages, Ivs, Nonces, MaxBlocks, Room,                   \* AesModes
          CommandLines, Platforms, Plain, Dynport, Filters, LogLevels, HoleTexts \* Startup

VARIABLES
    list, live,                                                       \* TraceableList
    platform, fn, udp, addrs, listens, wsaHeld, sockPc, rp, open, frees, wsa, \* QuickSocket
    readPc, pvptr, sent, closed, taken, size, current, currvptr, buffer, result, \* ReadAll
    plain, call, data, out, blocks, modePc, padded_size, counter, blk, blkpos, \* AesModes
    argv, os, args, inboundConfig, outboundConfig, filterConfigs, chain, message, mainPc \* Startup

VARIABLE exercised   \* the part a behaviour is about

List == INSTANCE TraceableList
Sock == INSTANCE QuickSocket WITH pc <- sockPc, held <- wsaHeld
Stream == INSTANCE ReadAll WITH pc <- readPc, Sizes <- BufferSizes
Modes == INSTANCE AesModes WITH i <- blocks, pc <- modePc
Main == INSTANCE Startup WITH pc <- mainPc, platform <- os

\* TraceableList: it implements a sequence, in both directions.
ImplementsSeqList == List!ImplementsSeqList

\* QuickSocket and ReadAll: the first address that works is taken; a call that
\* returns leaves no other socket open and has freed its list, and one that
\* throws leaves what QuickSocket names; no reference to Winsock is taken from
\* others; and no byte of a stream is lost.
SocketsSound ==
    /\ exercised = "socket" => Sock!SocketsSound
    /\ exercised = "stream" => Stream!PrefixReturned

\* AesModes: what was encrypted comes back, one's own data is never refused,
\* nothing is written past the buffer but in the calls AesModes names, and the
\* counter counts blocks.
ModesSound == exercised = "modes" =>
    Modes!RoundTrip /\ Modes!OwnDataAccepted /\ Modes!InBounds /\ Modes!CounterCounts

\* Startup: what runs is what the command line asks for, and no argument is left.
StartsAsAsked == exercised = "main" => Main!StartsAsAsked

===============================================================================
