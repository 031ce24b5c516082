# UDP forwarder: verification project

This directory holds TLA+ models of the UDP forwarder, the TLC runs that check
them and the TLAPS proofs about them. The program receives UDP datagrams on one
address, converts them with a chain of filters, and sends them to a next hop;
answers come back the other way, converted back, to the client they belong to.
Usually two of them are chained, one encrypting and one (with `reverse@`
filters) decrypting.

## 1. Inventory

| Part | Source (under `src/src/`) | State | Operations |
|---|---|---|---|
| `Forwarder` | `forwarder.hpp` | the inbound, the outbound, the filter chain | constructor (configuration), `runForever`: a detached inbound thread and the outbound loop in the main thread |
| `PlainInbound` | `protocols/plain.hpp` 35-101 | `ipcPipe`, `listenFd`, locals of `onEvent` | `listenForever`: create the pipe, bind, epoll loop on two descriptors; `forwardMessageToOutbound` |
| `PlainOutbound` | `protocols/plain.hpp` 104-197 | `ipcPipe`, `connectionMap`, one connected socket per client id, locals of `onEvent` | `listenForever`: spin until the pipe is there, epoll loop on the pipe and every connection; `forwardMessageToInbound` |
| `InjectiveConnectionMapping` | `protocols/plain.hpp` 15-33 | `client2server`, `server2client` | `add`, `del(clientId)` (no caller), `del(serverId)` |
| IPC pipe, framing | `utils.hpp` 80-91, `lib/rlib/sys/sio.hpp` 515-557, 646-669 | two socket buffers | `mk_tcp_pipe`, `send_msg`, `recv_msg` |
| Client ids | `utils.hpp` 19-46 | none | `makeClientId`, `parseClientId` |
| Filter chain | `filters/base.hpp` | list of filters | `convertForward`, `convertBackward`, reversed filters |
| `AESFilter`, `XorFilter` | `filters/*.hpp`, `lib/plusaes.hpp` | key | encrypt/decrypt; sizes and padding |
| Options, `main` | `main.cc`, `lib/rlib/opt.hpp`, `forwarder.hpp` 14-60 | argument list, configurations, filter chain | `getValueArg`, `getBoolArg`, the `--filter` loop, dispatch of the configurations, the last handler on Windows |
| rlib sockets | `lib/rlib/sys/sio.hpp` | list of addresses, open sockets, a reference to Winsock, a growing buffer | `quick_listen`, `quick_connect`, `quick_accept`, `sendn`, `recvn`, `readall`, `recvall` |
| rlib pool, list | `lib/rlib/pool.hpp`, `lib/rlib/impl/traceable_list.hpp` | free and lent objects, `new_obj_ready`, the waiting threads; nodes with two pointers | `borrow`, `try_borrow`, release; push, insert, erase, walking both ways |
| rlib strings | `lib/rlib/string.hpp` | the text being worked on | `split`, `join`, `replace`, `format` |
| cipher | `lib/plusaes.hpp` | state, round keys; counter | key expansion, one block, ECB, CBC, CTR, padding |
| wepoll | `lib/wepoll.c` | a tree of ports with reference locks; per port a tree of sockets, an update and a deleted queue, poll groups, polls in the driver | `epoll_create1`, `epoll_ctl`, `epoll_wait`, `epoll_close`, the global initialisation |
| stubs | `protocols/dynport.hpp`, `filters/quic_obfs.hpp`, `filters/wechat_video_obfs.hpp` | | empty or not compiling |

**How the parts interact.** The inbound thread creates a loop-back TCP
connection and stores one end in its own `ipcPipe`, the other in the
outbound's. Clients reach `listenFd`. `PlainInbound::onEvent` reads one
datagram, applies `convertForward`, and calls its own
`forwardMessageToOutbound`: two blocking `send_msg`, first the client id, then
the payload. `PlainOutbound::onEvent` reads both with blocking `recv_msg`,
looks the id up, connects a new UDP socket if it is not there, and sends. An
answer on a connected socket is converted back and goes through the pipe in the
same way, with the id `server2client` has for the descriptor; the inbound thread
sends it with `sendto` to the address inside the id. No lock is used: the two
threads share the pipe and, at start, the two `ipcPipe` fields. Any exception
in either thread ends the process. `main` reads the options, builds the
forwarder with its two configurations and its filters, and calls `runForever`.

On Windows the same event loops run on wepoll: an `epoll` descriptor is a
completion port, found in a global tree of handles. Each registered socket has
a poll operation pending in the driver, whose completion packet points to the
memory of the socket's state. `epoll_wait` submits the polls that are due under
the lock of the port, leaves the lock to wait for packets, and takes it again to
translate them. `epoll_close` waits, through the reference lock, for the threads
that are inside the port.

**What is hard.** Four blocking calls per datagram, interleaved between two
threads that read and write each other; frames that do not say what they are; a
two-sided map kept in step with the open descriptors; calls that
fail with the consequence that the process ends; a level-triggered event loop
that must not lose or starve an event; unwritten bytes in a key. In wepoll: handle
values and memory that are used again while another thread still holds them, a
driver that writes into memory the port wants to free, a set that changes while
threads sleep on it, additions that fail half way. In the helpers: one flag for
many waiters, options that erase what they read, a list of addresses each of
which may fail at each step, carries and padding at the ends of blocks. The
list, each at its line, is under "hazards" in `PROJECT.json`.

**What makes each part correct.**
- pipe and framing: a receiver never takes an id for a payload, and a payload
  always follows the id of its own client;
- connection map: a bijection between client ids and open sockets, and an id
  keeps its connection;
- outbound: a connection carries one client's datagrams only, and what waits in
  it belongs to the client the map names;
- inbound: an answer goes only to the client whose request was answered;
- filters: one conversion forward, one back;
- wepoll: a port is used by nobody when it is freed and by nobody else under its
  handle, closing ends, a packet always points to memory that waits for it, what
  lasts on a socket of the set is reported, memory of deleted sockets is freed,
  a failed addition leaves nothing behind, the tree stays balanced;
- the pool lends no object twice, and nobody sleeps on once all are back;
- the socket helpers return the first address that works, and of the rest only
  what they are known to leak is left;
- options: what runs is what the command line asks for;
- cipher and strings compute what they are defined to compute;
- the whole: nothing accepted is lost, duplicated, reordered or misrouted, the
  process does not end by itself, and what the kernel queued is delivered.

## 2. Modules

| Module | Models | Correspondence |
|---|---|---|
| `Net` | the world outside the process (external) | `listenQ`, `connQ`: receive queues; `connErr`: pending ICMP errors; `wireOut`, `wireBack`: all that was sent; `proc`: running, or the call that ended the process; actions `ClientSend`, `ServerReply`, `IcmpArrives` |
| `ChannelOps` | `send_msg`, `recv_msg` on whole messages | blocking operators on a bounded queue of `PipeCap` messages |
| `IpcPipe` | the pipe, ids, the filter chain as seen by the relay | `toOut`, `toIn`: frames in the socket buffers, moved with `ChannelOps`; `ClientId` = address and unwritten bytes; `convertForward` and `convertBackward` add and take one layer |
| `PlainInbound` | the inbound thread | `inPc`: setup steps; `inBatch`: events of the last `epoll_wait`; `inGot`, `inTodo`: frames read, and still to write, of the current event. One action per stretch of code between two blocking calls |
| `ConnectionMapping` | `InjectiveConnectionMapping` | `add_*`, `del_*`: the new value of each map |
| `PlainOutbound` | the outbound thread | as the inbound, with `client2server` and `server2client` |
| `Forwarder` | both threads, pipe and network | `Next` interleaves them while `proc = "running"`; the properties |
| `UdpRelay` | the abstract specification | two queues, an association of ids and connections, no threads or pipe |
| `MCForwarder` | TLC instance | symmetry of clients, unwritten bytes and descriptors |
| `ForwarderProofs` | TLAPS proofs about `Forwarder` and that it implements `UdpRelay` | one lemma per action of the inductive step; for the relay one per kind of step: quiet, accepting, delivering, ending |
| `MsgChannel` | the abstract specification of one direction of the pipe | the operators of `ChannelOps` and what was read |
| `MsgFraming` (`MCMsgFraming`) | `send_msg` and `recv_msg` byte by byte, in two threads | `toSend`: what `sendn` has left of head and body; `stream`: the socket buffers; `rPc`, `rBuf`: which `recvn` runs and what it has; `SendSome`/`RecvSome` transfer any number of bytes |
| `MsgFramingProofs` | TLAPS proofs about `MsgFraming` | the bytes of all messages in one row that reader, stream and writer divide |
| `Filters` | `AESFilter`, `XorFilter`, `ReversedFilter`, `ChainedFilters`, `CreateFilterFromConfig` | pure operators; a conversion is the set of results it may have; lengths in bytes as in the code |
| `FilterTunnel` (`MCFilterTunnel`) | one datagram and its answer through two forwarders | `at`: which forwarder the datagram reaches next; `Request`, `Answer`: receive, convert, send on |
| `FilterProofs` | TLAPS proofs about `Filters` and `FilterTunnel` | one filter, one chain by induction, two forwarders |
| `TmpPipe` | `mk_tcp_pipe` in several processes on one host | `pipePc`: the line of the process; `backlog`: connections queued at a listening socket; `Accept` is the helper thread |
| `MappingCalls`, `Injection` | every call of `InjectiveConnectionMapping`, with ids that are not there; the one-to-one relation it promises | `c2s`, `s2c`: the maps; `Index` is `operator[]`, which inserts |
| `Startup` | `opt_parser`, `main`, the constructor of `Forwarder` | `args`: what is left of the command line; `pc`: the reading that is next; `chain`: the filters |
| `StartupProofs` | TLAPS proofs about `TmpPipe` and `Startup` | one section for each: the pipe, the command line |
| `QuickSocket` | `quick_listen`, `quick_connect` on both platforms | `addrs`: the list and what fails where; `open`, `frees`, `wsa`: what is held |
| `ReadAll` | `readall`, `recvall` | `size`, `current`, `currvptr` as in the code; the bytes of the stream are numbered |
| `ObjectPool` | `fixed_object_pool` | `pc`: where in borrowing or releasing a thread is, asleep at the condition variable included; `made`, `free`, `held`: the objects; `ready`: `new_obj_ready` |
| `HelperParts` | the object pool, maps, list, socket helpers, modes of plusaes and start of the program next to one another | instances with variables of their own, and what they promise |
| `HelperProofs` | TLAPS proofs about `MappingCalls`, `ObjectPool`, `QuickSocket`, `ReadAll`, `TraceableList` and `AesModes` | one section for each |
| `TraceableList`, `SeqList` | the linked list with its pointers; a sequence | `list`: head, tail and the two pointers of each node; shown to implement `SeqList` read in both directions |
| `Strings` | `split`, `join`, `replace`, `format` | one action per turn of a loop |
| `Aes`, `AesModes` | bytes, the block cipher, its modes | one action per round; one action per block |
| `EpollHandles` | the life of a port in wepoll | global tree, reference locks, completion ports; one action per stretch between two locks or system calls |
| `EpollPort`, `EpollSet` | one port: sockets, polls, queues, waiting; what an epoll set promises | `cell`: the memory of the sockets' states; `op`, `packets`: the driver; shown to implement `EpollSet` |
| `SockNew` | adding a socket, step by step | `pc`: the step; every step may fail |
| `RedBlackTree`, `PollGroups` | the tree and the queue of groups | their pointers, as in the code |
| `WepollInit` | the one-time initialisation | `once`, `done`, the parts in order |
| `WepollParts` | handles, groups, additions and initialisation next to one another | as `HelperParts` |
| `EpollHandlesProofs` | TLAPS proofs about `EpollHandles`, `WepollInit`, `SockNew` and `PollGroups` | one section for each |
| `RecursionFacts` | lemmas for proofs about recursive functions | no code: they exist, and what each step keeps holds all the way |
| `EpollPortProofs` | TLAPS proofs about `EpollPort` | first the cells and queues, then the threads, then the epoll set |
| `MCWepoll`, `MCHelpers` | TLC instances | the parts side by side, see below |

The parts of wepoll, and the helpers, are checked side by side: a behaviour
picks one of them (`exercised`), and the variables of the others keep their
initial values. Nothing is lost by this because the parts share no variable, and
no product of their states arises. `WepollParts` and `HelperParts` declare the
variables and state what the parts promise, once for the runs (`MCWepoll`,
`MCHelpers`) and the proofs (`EpollHandlesProofs`, `HelperProofs`, `StartupProofs`); a property
that begins with `exercised = ... =>` is that of the part named there.
How the parts of wepoll meet: `EpollHandles` treats what a thread does inside a
port as one stretch between taking and dropping its reference, `EpollPort` is
that stretch under the lock of a port that lives; `EpollPort` adds a socket in
one step, which `SockNew` breaks up (it never leaves the lock), and uses trees
and groups as the sets that `RedBlackTree` and `PollGroups` represent.

Atomicity: an action is the code from one call that can block or be observed
to the next. Local computation, the map update and the (non-blocking) UDP
`send` that follows it are one action, since no other thread can see the state
in between: `connectionMap` is touched by the outbound thread only.

In the composition a frame moves as a whole, in `MsgFraming` byte by byte, and
`ImplementsChannel` connects the two. One difference remains: with bytes a
reader can enter `recv_msg` when only the beginning of a frame is there and
wait for the rest. The writer of that frame is inside `send_msg` at that
moment and nothing but this reader can hold it up, so it goes on.

What is abstracted: payload bytes (a datagram is its client, a serial number,
how many conversions it has on, and whether it is empty; in `Filters` a
datagram is its length, whether its content is intact, and its layers of
encryption); the ciphers, which are symbolic (a datagram decrypts under the key
and only as a whole); logging; the order in
which one thread handles a batch of events (any order is allowed, the code's is
one of them); datagrams lost outside the process (a lost one is one never sent).

In `AesModes` the block cipher is a parameter and blocks are shorter, so that
carries and padding come up within few blocks. Every call is made that the
checks of the code see, those it lets through by mistake included: a CBC
decryption into less than a block, and conversions of nothing without padding.
The decryption of nothing runs away (`DecryptNothing`); the model leaves it at
memory written anywhere and a dead process. In `Strings` letters are values and
the pair of braces is one letter. `TraceableList` leaves to callers, as the code
does, what its iterators do not check: `pop_back` of an empty list, and an
`end()` kept over a change of the list; calls that throw leave the list alone.

Mutants: operators whose comment begins with "Mutant" are plausible faults of
the definition below them and are used by no specification.

## 3. Runs

| Run | Instance | Shows |
|---|---|---|
| `safety` | 2 clients, 2 values of the unwritten bytes (so up to 4 ids), 3 descriptors, 3 requests, 2 answers, empty and non-empty, pipe of 2 frames, every fault: pipe, bind, epoll, recvfrom, sendto, connect, send, ICMP | all safety properties, and that the forwarder implements `UdpRelay` |
| `live` | 2 clients, 2 descriptors, no fault, a padding filter, 2 requests, 2 answers, pipe of 2 frames | nothing ends the process; no mutual block; every queued request and answer is delivered |
| `empty_answer` | as `safety`, without faults | the assertion at `plain.hpp:171` fails after an empty answer |
| `client_id_bytes` | one client | two ids for one client |
| `full_pipes` | one client, 3 requests, 2 answers, pipe of 2 frames | the two threads block each other for good |
| `msg_framing` | 3 messages out of four (empty, body like a head, longer than the socket buffers, above the limit), buffers of 3 bytes, failing calls | the byte stream implements the channel, every message arrives, the magic number is never missed |
| `filter_tunnel` | ten pairs of `--filter` options, 15 lengths at the boundaries of block, key, buffer and UDP | mirrored filters are transparent within the stated limits, failed decryptions do not grow a datagram, no answer reaches the near forwarder empty |
| `xor_key` | the XOR pairs among them | the XOR filters do not undo each other above 33 bytes |
| `tmp_pipe` | 3 processes, 2 ports | a process with a port of its own joins its own two threads, and does so in the end |
| `port_clash` | 2 processes, 2 ports | a process may wait for its pipe for ever |
| `wepoll` | ports: 3 threads, 2 ports, 1 handle value, poll groups of 1; one port: 2 threads, 2 cells, with one socket and failing polls, with one socket and time-outs, with two sockets; a tree of 8 keys; 4 groups of 2; 3 sockets to add under up to 3 layers; 3 threads and 3 runs of the initialisation | life of ports, packets and cells, epoll set, tree, groups, failed additions, initialisation; closing returns, what lasts is reported, the deleted is freed |
| `helpers` | 4 threads and 2 pooled objects; 4 clients and 4 descriptors; lists of 5; keys and blocks of FIPS 197 and all bytes; messages of up to 9 blocks; strings of up to 5 letters; some 3600 command lines; 3 addresses; a stream of 8 bytes | the helpers compute what they promise, leave over only what section 4 names, and return |

**Why these bounds are enough.** Three descriptors with four possible ids make
the descriptor table run out. A pipe of two frames with up to six request
frames and four answer frames fills in both directions, so every blocking call
really blocks in some state. Two answers suffice for two answers of different
clients to be in the pipe together. Two events per batch with up to four ready
descriptors make `epoll_wait` return less than what is ready.
`live` and `full_pipes` are the two sides of one threshold: a thread blocks
towards the other only when more than `PipeCap` frames of its direction are
outstanding, so with `PipeCap = 2` two requests (of which one must have left
before an answer exists) cannot block both threads and three can. That no lower
load blocks them, for any `PipeCap`, is the theorem `NeverBlocked`.

In `msg_framing` the head has two bytes (one for the 4-byte magic, one for the
8-byte length), so head and body are split by partial transfers at every place,
and buffers of 3 bytes hold neither a whole message nor only whole heads.
`MsgLimit` is 4 where the code has 2 GiB: the comparison is all that matters.
`filter_tunnel` computes with the real constants 16, 32 and 20480; its lengths
are both sides of each boundary, also of the boundaries after one padding (a
datagram of 20464 bytes is 20480 long when encrypted, one byte more is cut off
by the peer), up to the largest UDP datagram. `LastBytes` are the
last bytes of a failed decryption that take different paths (0, 1, 16, 17,
255), and `Word` is any number above all lengths in place of 2^64. Two values of
`HeapBytes` are enough for the two sides to differ. In `tmp_pipe` three
processes and two ports give runs in which one process is alone on its port
while two others clash on theirs; `clashed` is kept for each process, so that
both properties speak of the first.

In `wepoll` one handle value for two ports makes the kernel give the value of a
closed port to the next one at once; with three threads one can close, one create
and one still be inside. Two cells for two sockets, or for one that is deleted
and added again while its poll is cancelled, are used again after they are
freed; `MaxCtl` bounds the changes of the set, two of which are enough to change
the events asked for while an earlier poll is with the driver. Events are
reported one at a time (`MaxEvents` 1), so that two sockets compete. Eight keys
reach every case of the removal, mirrored ones included; four groups of two, the
moves to both ends of the queue. In `helpers` the pool has two more threads than
objects, so two of them wait at one flag. The counter of CTR carries twice, since
a byte of the instance has four values. Command lines are any three pieces of
twelve, alone and between the two mandatory options.

Assumed in `Filters`: both sides derive the same key from the same password
(`pskToKey` uses `std::hash`, which is implementation-defined), reading behind
the XOR key does not trap, and a datagram encrypted with another key does not
decrypt to the original content. Filters keep no state between datagrams, so two
threads may share them and one exchange stands for all.

**Fairness.** `FairSpec` of `Forwarder` assumes weak fairness of each of the two threads as a
whole: the operating system schedules both, and each is a sequential program
that goes on unless it is blocked. Clients, server and network are not fair.
`MsgFraming` and `TmpPipe` assume the same of their threads and processes; no
call need ever fail, and no message need be sent. In wepoll a thread inside a
call goes on (weak fairness), the driver answers a poll for which something has
happened (`Complete`), the application calls `epoll_wait` again and again
(`Wait`, as both event loops of the forwarder do), and a thread that waits for
the lock of a port gets it in the end although others take it meanwhile (`Back`,
strong fairness: the hand-out of a Windows lock). `CloseReturns` is checked for
one thread and `DeletedIsFreed` for one cell, which stand for all since no
action tells them apart. `Startup`, `QuickSocket` and `ReadAll` are sequential
and go on; the peer of a stream need not send or close.

**Deadlock checking** is off: an idle forwarder with the client and server
budgets spent stops rightly, and so does a process that has ended, or one whose pipe
is up, a delivered datagram, or a helper that has returned. The wrong
kind of stop is what `NoMutualBlock` and the liveness properties are for.

## 4. What the runs found

- An empty UDP datagram of the server ends the process (`plain.hpp` 164-171):
  the branch that handles it as a closed connection does not return. With a
  filter that pads (AES) the wire form is never empty and the branch is not
  reached, which is why `live` uses one.
- `makeClientId` (`utils.hpp` 35) copies bytes `recvfrom` has not written; one
  client may thus get several ids, hence several connections, and the server
  sees several peers. Answers still reach the client (`AnswersReachTheirClient`
  holds with any unwritten bytes).
- With both directions of the pipe full, both threads wait for ever
  (`plain.hpp` 46 and 115).
- The XOR filter reads past its key on datagrams of more than 33 bytes (32 and
  the terminating zero), so the two sides do not agree on the mask
  (`xor_encryption.hpp` 24).
- Two forwarders of one user that draw the same port share it (`SO_REUSEPORT`),
  and one of them can hang in `mk_tcp_pipe` (`utils.hpp` 85) without an error.

The findings above have a run each. The following statements of the code's own
assertions and comments are definitions of the modules that the code does not
satisfy; TLC shows a counterexample for each when it is named in the
configuration of its module's run.

| Definition | Source | What happens |
|---|---|---|
| `EpollHandles.GroupHasIocp` | `wepoll.c` 1445 | an `epoll_ctl` that holds a reference comes to a new poll group after `epoll_close` has closed the completion port: the assertion fails |
| `ObjectPool.ServedWhenFree` | `pool.hpp` 23, 101 | two objects come back, two sleepers are woken, the first resets the one flag and the second sleeps on beside a free object (checked under `FairSpec`) |
| `AesModes.NeverPastBuffer` | `plusaes.hpp` 677, 654 | CBC decrypts the only block into a buffer for which the check wants no byte (436), and writes 16 before it compares sizes; it also encrypts a block where there is none (619) |
| `QuickSocket.AllGivenBack` | `sio.hpp` 143, 238 | a `quick_listen` that throws after `getaddrinfo` leaks the list (129, 136, 140, 222, 224, 231, 235), its reference to Winsock, and the socket if it was `setsockopt` or `::listen` that failed; `quick_connect` leaks the socket when `setsockopt` fails, and on Windows frees its list by hand and again in its guard (174 and 191) |
| `AesModes.PaddingIsPkcs` | `plusaes.hpp` 445 | padding of length 0 passes the check |
| `Strings.EscapesRemoved` | `string.hpp` 110 | some escaped holes keep their backslash |
| `Startup.EveryFilterUsed` | `main.cc` 49 | the loop ends at an empty `--filter` and leaves later ones alone |
| `Startup.EveryExceptionPrinted` | `main.cc` 69 | the handler formats the text of the exception, which throws when the user wrote braces |
| `ReadAll.BufferIsMalloced` | `sio.hpp` 333, 394 | `quick_readall` passes a pointer that it has not set, and bytes are written through it |

Reading for the models also showed, without a definition of its own: an
interrupted `epoll_wait` ends the process (`plain.hpp` 90 and 182, action
`InCallFails` and `OutCallFails`); `readall` never makes its buffer larger,
since it asks for half of it and compares with the whole (`sio.hpp` 356): it
returns at most one bufferful, though nothing of it is lost; and on Windows an
exception of the inbound thread meets no handler (`main.cc` 64-71,
`forwarder.hpp` 68).

## 5. Proofs

`ForwarderProofs` proves, for any number of clients and descriptors, any
capacities, bounds and faults, under the assumptions named in the modules
(`NetAssumption`, `PipeAssumption`, `MaxEventsAssumption`, and that the pipe end
is none of the connection descriptors, `FdsAssumption`):

| Theorem | Property |
|---|---|
| `TypeCorrect` | `TypeOK` |
| `MapCorrect` | `ConnectionMapSound` |
| `FramingCorrect` | `FramesAligned` |
| `RoutingCorrect` | `ConnectionsRouted` |
| `AnswersCorrect` | `AnswersReachTheirClient` |
| `SeparationCorrect` | `ConnectionsNotShared` |
| `StickyCorrect` | `ConnectionsSticky` |
| `BlockNeedsLoad`, `NeverBlocked` | `NoMutualBlock` |
| `StaysAlive` | `NeverTerminates` |
| `RelayCorrect` | `ImplementsRelay` |

The inductive invariant `Inv` is the conjunction of the first six, because none
is inductive alone. `TypeOK` needs `FramesAligned`: the handler that sends an
answer takes the first frame for an id. `AnswersReachTheirClient` needs it too,
with the client of each payload. `FramesAligned` after an answer is accepted
needs `ConnectionsRouted`, which needs `ConnectionMapSound`: a new connection
gets a descriptor that is in no entry. `FramesAligned` speaks about a whole path
(frames read, frames in the pipe, frames still to write), which makes it
independent of how the threads interleave: a `send_msg` or `recv_msg` moves a
frame along the path and leaves the path as it is, an event adds or takes one
pair. TLC checks each conjunct of `Inv` in the run `safety`.

`NoMutualBlock` does not hold of the program as it is (run `full_pipes`);
`BlockNeedsLoad` states from which load on it can fail: while `sent` datagrams
have been sent and `2 * (sent - 1) <= PipeCap`, the threads do not wait for each
other, whatever is lost or fails. Its invariant `LoadInv` counts two frames for
each datagram in the kernel's queue, the frames on the way to the outbound, and
two for the one that has left once anything is on the wire; an answer in any
place (`AnswerExists`) means that something is. If both threads waited, the pipe
would be full of requests, a frame more would be in the hands of the inbound, and
one datagram would have left. `NeverBlocked` is the same for a `MaxSent` that
keeps within this load.

`StaysAlive` names what the program needs to go on: no failing call
(`Faults = {}`), no empty answer on the wire (the filter pads, or no datagram is
empty), and as many descriptors as there are client ids. The last is used through
`DescriptorLeft`: a bijection of the ids in use and the open descriptors leaves
one over for an id that is new. Its invariant `AliveInv` adds that no socket has
an error pending and that no queued answer is empty. Each assumption is needed:
`empty_answer` shows the second, and `safety` has runs of the process that end
for want of the others. These are facts about the environment, which the model
keeps; what is proved is that the two threads never get into one of their own
failing calls or assertions by the way they interleave.

`RelayCorrect` takes the argument one step further: under `Inv` the pairs of a
path are the queue of the relay. `PairsIsSeq`, `PairAdded` and `PairTaken` say what
happens to the pairs when a path is extended or shortened; a quiet step
(`InQuietStep`, `OutQuietStep`) leaves both paths alone and is a stutter of the
relay, or brings the socket up, or ends the process; `ClientEventRelays` and
`ServerEventRelays` are the two ways to accept a datagram, `SendKnownRelays`,
`ConnectRelays` and `SendToRelays` the three to deliver one. A step in which a call
fails ends the relay, which never has more on the wire than the process had.

`MsgFramingProofs` proves, for any messages, any limit, any size of the socket
buffers and any partial transfers (`FramingAssumption`), that `recv_msg` reads a
head where a head begins (`FramesCorrect`, `FramesSound`) and that the stream
implements `MsgChannel` (`FramingIsChannel`, `ImplementsChannel`). The invariant
says that there is a row of bytes, head and body of every message in turn
(`Holds`), which is what the reader has consumed, what it holds, the stream and
what the writer has left, in this order (`Divided`). A `send` or `recv` moves
bytes over one of the borders; starting a message makes the row longer. The reader
stands at the place in the row its program counter and `got` say, so the number
it takes for the magic is one and the length it reads is that of the next
message (`InOrder`). `TypeOK` and `InOrder` alone are not inductive: they say
nothing of the bytes that are under way. The messages between the last one
returned and the last one wholly given away are the queue of the channel.

`FilterProofs` proves the three properties of `FilterTunnel` for any chains of
filters, keys, lengths and stacks of layers (`FiltersAssumption`,
`SetupsAssumption`):

| Theorem | Property |
|---|---|
| `TunnelCorrect` | `TunnelTransparent` |
| `SizesCorrect` | `SizesSound` |
| `DecryptionCorrect` | `DecryptionNeverGrows` |

One filter first: `AesUndone` and `XorUndone` (the second conversion gives back
exactly the datagram, the XOR filter where its key covers it), `FilterUndone`
(both, for the backward conversion and for the reversed filter), `DecryptShrinks`
(no decryption makes a datagram longer, whatever its last byte is) and
`FilterKeepsForm`. `DecryptShrinks` needs that the length an AES layer remembers
fits the length around it; `SizesKept` says so of a whole stack and
`FilterKeepsSizes` that every filter keeps it.

Then a chain. Its results are defined by recursion over the filters. That the
recursion defines something (`Recursion`) and that what every step keeps holds
all the way (`AllTheWay`) are proved in `RecursionFacts`, from the fact that a
non-empty set of numbers has a smallest member (`Smallest`). `BackwardIsTurned` turns the way back into a way
forward through the chain in opposite order with each filter reversed, which is
also what the far side has when it mirrors the near one. `ChainUndone` walks back
through the sets of results: the result that filter `i` gave leads back to one
that filter `i - 1` gave, with the one before the first being the datagram.

The invariant of the tunnel (`TunnelInv`) says that what is between the two
forwarders is a result of the near chain (if the chains are mirrored and what was
sent fits the buffers), in both directions: the far side's backward conversion is
the near side's forward one. It is then received whole and undone (`Arrived`).

`StartupProofs` proves `PipeTypeOK` (`TmpPipeTypeCorrect`) and
`PipeJoinsOwnThreads` (`PipeCorrect`) of `TmpPipe` for any number of processes
and ports, of every process that shares its port with no other while it listens
(not in `clashed`), whatever the others do. The inductive invariant says which
processes listen in which state, that two listeners of one port have both
clashed (`PortsApart`), that only the connection of a process that has clashed
waits at another or is reset before its own process fails (`NoneStray`), and how
far a process that has not clashed is with its own (`AloneOnPort`).

Its `StartCorrect` proves `StartsAsAsked` for every command line whose arguments
have one of two forms, a text or `name=value`
(`CommandLinesAssumption`). `Given` says what a line asks for, by recursion over
its arguments; the code finds and erases one option at a time. The lemma between
the two is `TakenGiven`: without the first place of an option (`Without`) the line
gives the same option one value less, its first, and every other option what it
gave before. It holds of correct lines only, where no value is an option and no
flag has a value, and the shorter line is correct again (`WithoutLine`), because
the arguments on the two sides of the gap cannot be taken for an option and its
value. The invariant (`Reading`) says that what was read of an option and what is
left of it are what was asked for, and that behind the flags none is left;
`Chained` says that the filters built are the first of those that were read. A
line that is empty for every option and has no flags is empty, since its first
argument could not be a value.

`HelperProofs` has six parts. It proves that the two maps stay inverse of each
other under every call (`AlwaysInverse`) and that they implement a one-to-one
relation (`IsInjection`), for any ids, given that descriptor 0 and the empty client id
are not among those in use (`IdsAssumption`): these are what `operator[]`
inserts for an absent id.

Of the pool it proves `PoolSound` and each of its parts (`PoolCorrect`,
`AlwaysOneOwner`, `BorrowNeverThrows`, `NobodyLeftAsleep`) for any number of
threads and objects (`ObjectsAssumption`: the pool is not empty). The invariant
relates the flag to objects and sleepers: a set flag means a free object
(`ReadyHasFree`), a thread waits on a flag that is not set only while somebody
holds an object (`SomeoneHolds`), and `AllBackNobodySleeps` itself.

`SocketsCorrect` proves `SocketsSound` of `HelperParts` from its two parts:
`QuickSocketCorrect` is that of `QuickSocket` for lists of addresses of any length
(`AddrsAssumption`): what is left over when it returns, and what may be when it
throws. It does not say that all is given back, for it is not (`AllGivenBack`,
section 4). `ReadAllCorrect` proves `PrefixReturned` of `ReadAll` for any stream and any
sizes of reads (`StreamAssumption`). The invariant of the first says, for each
place in the loop, which socket is open, which addresses have been tried and what
came of them; that of the second that the bytes taken fill the buffer up to
where the next read begins, and that the buffer has room for it.

`ListIsSequence` proves `ImplementsSeqList` for any finite set of nodes that does
not contain the null pointer (`NodesAssumption`). The invariant `ListInv` says
that there is a row of different nodes, the allocated ones, of which head and
tail are the ends and whose neighbours the pointers name (`Linked`). An
`emplace_one` puts a node into the row (`EmplaceLinks`), a `pop_one` takes one out
(`PopLinks`), at either end or between, and the loop of `pop_some` takes the range
out one after the other, which leaves the row with the range cut
(`PopsInTurn`, by `AllTheWay` of `RecursionFacts`). `StepsMeetRow` shows that
repeating `operator++` from the head meets the nodes of a row in order and then
the null pointer; applied to the mirrored row it shows the same of `operator--`
from the tail, so both readings are the row (`BothDirections`).

`ModesCorrect` proves `ModesSound` for blocks and bytes of any size, any cipher and any
`^` that undo as they should (`ModesAssumption`, which also says that a byte can
hold the length of a padding), and messages of any length. The invariant
`BlocksInv` says of an encryption that the blocks done are the message, padded
(`Pattern`), enciphered and chained (`Enciphered`), and that all of them fit; of
the decryption of one's own data that this input is the message enciphered and
that the bytes done are the message again (`OwnData`); and of any decryption
that the size holds all blocks but the last, so that only the first block of a
call can be written past it, in the calls `FirstBlockUnasked` names. The second invariant, `Counting`, says that after
`u` blocks of key stream were begun the counter is the nonce, as the most
significant digits, plus `u`, modulo the numbers of one block. `IncrementAddsOne`
is the step of it: by induction over the digits, the number of the first `k` of
them goes up by one, or from the greatest to zero, just where all that follow
are at their greatest. What recursive functions on digits and powers compute
rests on `RecursionFacts` (`Horner`, `DivUnique`).

`EpollHandlesProofs` proves `PortLifeSound` and its parts (`PortLifeCorrect`,
`PortsNotUsedAfterFree`, `ReflockAlwaysSound`, `NewHandleAlwaysFree`,
`ForeignWaitMeansClosed`) for any number of threads, ports, handles and sockets
(`HandlesAssumption`). The inductive invariant `IInv` adds to the types that the
count of a reference lock is the number of threads that hold it (`Counted`) and
the shape of the state (`Shape`): whoever is inside holds memory that is in use,
a port is made or closed by one thread, a port in the tree is under its own
handle and not yet marked, the mark and the poison of the lock agree with where
the closing thread is, and the signal to it is sent by the last one out.
Counting makes it inductive: dropping a reference changes a cardinality by one,
and the port can be freed only when that is zero.

The same module proves `GlobalInitSound` of `WepollInit` (`GlobalInitCorrect`,
`InitAssumption`), `AdditionSound` of `SockNew` (`AdditionCorrect`,
`AddAssumption`) and `GroupsSound` of `PollGroups` (`GroupsCorrect`,
`GroupsAssumption`: finitely many groups, none of them the head, with room for at
least one socket). The first needs that whoever runs the initialisation is the one
inside `once` and that a completed one has all its parts (`RunnerInside`,
`CompleteFirst`). The second counts, at each step of an addition, what has been
acquired so far (`AcquiredSoFar`): the numbers of places, cells and devices are
those of the registered sockets and groups, plus one where the step has taken one
that is not registered yet. An error path gives back exactly that one. The
invariant of the third (`QueueInv`) names a row of groups that the links make
(`Ring`), whose members are the groups allocated and of which the full ones come
first (`Ordered`). Removing, appending and prepending a node change the row as
they would change a sequence (`DetachRing`, `AppendRing`, `PrependRing`), and
following the links from the head meets the groups of the row in order
(`WalkIs`), by the lemmas of `RecursionFacts`.

`EpollPortProofs` proves, for any number of threads, sockets and cells, any
events asked for and reported and any number of changes of the set
(`PortAssumption`: the cells are finite, the driver has no event that only closing
a socket makes, `None` is no thread, cell or set of flags), the three safety
properties of one port:

| Theorem | Property |
|---|---|
| `CellsAreSound` | `CellsSound` |
| `EventsReach` | `EventsReachWaiters` |
| `PortIsEpollSet` | `ImplementsEpollSet` |

The invariant `Inv` has two halves. `Data` is about the memory: a packet or poll
points to a cell that waits for it (`PacketsPointToCells`), a cell is in the
queues its flags say and in them once (`QueuesSound`), a cell that is in no
queue has a poll that covers what its user asks for or one that is coming back
(`CoveredAt`), and the driver's poll is the one the cell remembers
(`PollMatchesAt`). The last is what makes the third inductive: an update submits
nothing when it believes the pending poll sufficient, so the belief has to be
right. `Control` is about the threads: who has the lock (`LockHeld`), that only a
thread that has come back from the driver holds packets (`BatchKept`), and which
result a thread may have where (`MayResult`). Every operation is split into the
steps of the code on one cell (the lemmas on updates, freeing and feeding an
event), each of which keeps `Data`; what a `CHOOSE` or a removal from a queue
gives is stated once (`Without` and its lemmas).

`EventsReach` adds `Wake`: nobody waits beside an update that is not submitted
(`PollersSeeAllSockets`), and a thread whose wait has timed out has nothing to
submit for others unless the driver has just refused one (`TimeoutsSubmitNothing`),
so that their errors do not become its result (`TimeoutReturnsZero`). `PortIsEpollSet` adds `ToldOfClosed`: a packet that reports a closed
socket is about one that its user has closed. Without it the step in which the
port drops such a socket from its set could not be told from an event for which
nobody may remove it. At most one registered cell per socket (in `QueuesSound`
and the types) makes `Interest`, defined by a `CHOOSE`, the user's request.

Only model-checked:
- `TreeSound` of `RedBlackTree`: the proof needs the tree that the pointers form,
  as `QueueInv` and `ListInv` name a row, and an induction over its height for each
  rotation;
- `CipherSound`: it rests on tables that are inverse of each other, which is a
  computation over 256 bytes, and on the arithmetic of bits;
- `TextSound`: `Pieces` is a recursive operator, and what `join` folds is an
  induction over sequences of sequences;
- the liveness properties (fairness and `ENABLED` are out of the prover's reach).

## 6. Plan

1. (done) Core: `Net`, `IpcPipe`, `PlainInbound`, `ConnectionMapping`,
   `PlainOutbound`, `Forwarder`, `UdpRelay`; safety and liveness runs; the
   inductive invariant and its theorems.
2. (done) `MsgFraming` and `MsgChannel`: the bytes of a frame.
3. (done) `TmpPipe`: `mk_tcp_pipe` in several processes.
4. (done) `Filters`, `FilterTunnel`: filter chains over two forwarders, sizes.
5. (done) `MappingCalls`: the connection map on its own, with `del(clientId)`
   and the entries that `operator[]` inserts.
6. (done) `Startup`: options, the `--filter` loop, the dispatch on the
   configurations, `windows_main`.
7. (done) `ObjectPool`, `TraceableList`, `Strings`, `QuickSocket`, `ReadAll`, `Aes`,
   `AesModes`: the helpers.
8. (done) The error paths of the event loops.
9. (done) wepoll: `EpollHandles`, `EpollPort` with `EpollSet`, `SockNew`,
   `RedBlackTree`, `PollGroups`, `WepollInit`.
10. (done) Proofs: `ImplementsRelay`, `ImplementsInjection`, `PoolSound`,
    `PortLifeSound`.
11. (done) Proofs: `NoMutualBlock` and `NeverTerminates` from assumptions on the
    load and the environment; `FramesSound`, `ImplementsChannel`; `CellsSound`,
    `EventsReachWaiters`, `ImplementsEpollSet`; `SocketsSound`; `AdditionSound`;
    `GlobalInitSound`; `TunnelTransparent`, `SizesSound`, `DecryptionNeverGrows`;
    `GroupsSound`; `ImplementsSeqList`; `ModesSound`; `StartsAsAsked`.
12. Proofs left: `TreeSound`; `TextSound` by induction over the pieces.

## 7. Not modelled

- `picosha2.h`, which no source file includes (`pskToKey` uses `std::hash`); the
  logging, printing and traits headers of rlib, whose state the forwarder does
  not read; the protocol and filter stubs.
- The rest of `string.hpp` (conversions to numbers, strip, case), single calls of
  the library; `getSubCommand` and the `getValueArg` with two names, which
  nothing calls; `get_peer_name` and `MakeNonBlocking`.
- wepoll's table of error codes, except that `EBADF` is found first.
- What happens on Windows after the exception of the outbound thread has been
  caught: `main` destroys the `Forwarder` and sleeps five seconds while the
  detached inbound thread goes on using its memory (`main.cc` 71). That is
  undefined behaviour, and no property could bound it.
- Losses outside the process, and the kernel's own queues beyond their bounds.

The status of every part is in `PROJECT.json`.
