-------------------------------- MODULE MCWepoll --------------------------------
(***************************************************************************)
(* The modules about wepoll.c for TLC, side by side: a behaviour exercises *)
(* one of them, and the variables of the others keep their initial values. *)
(* They share no variable, so this checks each of them as it stands.       *)
(* EpollPort comes three times: with a driver that refuses and loses       *)
(* polls, with time-outs, and with two sockets.                            *)
(***************************************************************************)
EXTENDS WepollParts, EpollPort

VARIABLE exercised   \* the part this behaviour is about

VARIABLES rbTree, keys   \* RedBlackTree

treeVars == <<rbTree, keys>>
groupVars == <<next, prev, size, live, closing>>
addVars == <<addPc, sock, layer, base, layers, addGroups, devices, taken, cells, errno>>
initVars == <<initPc, done, once, runner, part, up, hasPorts, runs>>
wepollVars == <<handlesVars, vars, treeVars, groupVars, addVars, initVars, exercised>>

\* A port of which only one socket is used, on which the driver refuses and
\* loses polls, and whose users wait with and without a time-out.
FaultyPort == INSTANCE EpollPort WITH
    Wants <- {{"IN"}, {"IN", "OUT", "ONESHOT"}}, Happens <- {"RECEIVE", "SEND"},
    MayFail <- TRUE, MayTimeOut <- TRUE

\* The same while the driver does its work.
TimedPort == INSTANCE EpollPort WITH
    Wants <- {{"IN"}}, Happens <- {"RECEIVE"}, MayFail <- FALSE, MayTimeOut <- TRUE

\* A port with two sockets, whose users wait until something happens.
SoundPort == INSTANCE EpollPort WITH
    Wants <- {{"IN"}, {"IN", "ONESHOT"}}, Happens <- {"RECEIVE"},
    MayFail <- FALSE, MayTimeOut <- FALSE

OneSocket ==
    /\ level'["s2"] = {} /\ "s2" \notin closed'
    /\ \A c \in Cells : cell'[c] # None => cell'[c].sock = "s1"

ASSUME PortsAssumption ==
    PortAssumption /\ FaultyPort!PortAssumption /\ TimedPort!PortAssumption /\ SoundPort!PortAssumption

\* Keys enough for every case of the removal.
Tree == INSTANCE RedBlackTree WITH tree <- rbTree, N <- 8

ASSUME PartsAssumption == Adding!AddAssumption /\ Global!InitAssumption /\ Queue!GroupsAssumption

WepollInitial ==
    /\ HandlesInit /\ Init /\ Tree!Init /\ Queue!Init /\ Adding!Init /\ Global!Init
    /\ exercised \in {"handles", "faulty port", "timed port", "sound port", "tree", "queue",
                      "adding", "global"}

Exercise(name) == exercised = name /\ UNCHANGED exercised

Handles_Next == Exercise("handles") /\ HandlesNext
                /\ UNCHANGED <<vars, treeVars, groupVars, addVars, initVars>>
FaultyPort_Next == Exercise("faulty port") /\ FaultyPort!Next /\ OneSocket
                   /\ UNCHANGED <<handlesVars, treeVars, groupVars, addVars, initVars>>
TimedPort_Next == Exercise("timed port") /\ TimedPort!Next /\ OneSocket
                  /\ UNCHANGED <<handlesVars, treeVars, groupVars, addVars, initVars>>
SoundPort_Next == Exercise("sound port") /\ SoundPort!Next
                  /\ UNCHANGED <<handlesVars, treeVars, groupVars, addVars, initVars>>
Tree_Next == Exercise("tree") /\ Tree!Next
             /\ UNCHANGED <<handlesVars, vars, groupVars, addVars, initVars>>
Queue_Next == Exercise("queue") /\ Queue!Next
              /\ UNCHANGED <<handlesVars, vars, treeVars, addVars, initVars>>
Adding_Next == Exercise("adding") /\ Adding!Next
               /\ UNCHANGED <<handlesVars, vars, treeVars, groupVars, initVars>>
Global_Next == Exercise("global") /\ Global!Next
               /\ UNCHANGED <<handlesVars, vars, treeVars, groupVars, addVars>>

WepollNext ==
    \/ Handles_Next \/ FaultyPort_Next \/ TimedPort_Next \/ SoundPort_Next \/ Tree_Next
    \/ Queue_Next \/ Adding_Next \/ Global_Next

WepollSpec == WepollInitial /\ [][WepollNext]_wepollVars

\* The threads inside a call go on, the driver answers its polls, and the
\* application waits again and again; each as its module states it.
WepollFairSpec ==
    /\ WepollSpec
    /\ \A t \in Callers : WF_handlesVars(exercised = "handles" /\ ~aborted /\ Inside(t))
    /\ \A c \in Cells : WF_vars(exercised = "sound port" /\ SoundPort!Complete(c))
    /\ \A t \in Threads :
          /\ WF_vars(exercised = "sound port" /\ SoundPort!Proceed(t))
          /\ SF_vars(exercised = "sound port" /\ SoundPort!Back(t))
          /\ WF_vars(exercised = "sound port" /\ SoundPort!Wait(t))

-------------------------------------------------------------------------------
(* Properties of the parts that their modules state for each thread, socket *)
(* or cell, or in pieces                                                   *)

\* EpollHandles: epoll_close returns. No action tells threads apart, so one
\* of them stands for all; so does one cell in DeletedIsFreed.
CloseReturns == CloseReturnsIn(CHOOSE t \in Callers : TRUE)

\* EpollPort: what lasts is reported, with one event per wait and two sockets.
EveryDueIsReported == exercised = "sound port" => DueIsReported
\* EpollPort: the memory of a deleted socket is freed.
DeletedIsFreed == exercised = "sound port" => IsFreed("c1")

\* RedBlackTree: it finds what was added and not deleted, its links agree, and
\* its colors keep it balanced.
TreeSound == Tree!FindsExactlyTheKeys /\ Tree!LinksAgree /\ Tree!Balanced

==============================================================================
