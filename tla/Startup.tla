------------------------------- MODULE Startup -------------------------------
(***************************************************************************)
(* main and rlib::opt_parser: the command line is read option by option,   *)
(* each reading erasing what it took, until the Forwarder is built and     *)
(* runs. On Windows main is wrapped in a handler that prints exceptions.   *)
(*                                                                         *)
(* An argument is <<text>>, or <<name, value>> for name=value; a text that *)
(* is a configuration is told by the sets it is in.                        *)
(***************************************************************************)
EXTENDS Naturals, Sequences, FiniteSets

LOCAL INSTANCE SequencesExt

CONSTANTS CommandLines, Platforms,
          Plain,    \* configurations plain@address@port
          Dynport,  \* configurations of the protocol dynport
          Filters,  \* configurations of filters CreateFilterFromConfig accepts
          LogLevels,
          HoleTexts \* texts with {} in them

VARIABLES argv, platform,
          args,     \* opt_parser::args: what is not taken yet
          inboundConfig, outboundConfig, filterConfigs,
          chain,    \* the filters built
          message,  \* what the exception quotes
          pc

vars == <<argv, platform, args, inboundConfig, outboundConfig, filterConfigs, chain, message, pc>>
line == <<argv, platform>>
configs == <<inboundConfig, outboundConfig, filterConfigs, chain>>

Empty == ""
Flags == {"--help", "-h"}
Valued == {"-i", "-o", "--log", "--filter"}
Options == Valued \cup Flags

\* A command line is a sequence of arguments, each of one of the two forms.
CommandLinesAssumption == \A c \in CommandLines :
    /\ c \in Seq({c[k] : k \in DOMAIN c})
    /\ \A k \in DOMAIN c : c[k] = <<c[k][1]>> \/ c[k] = <<c[k][1], c[k][2]>>

------------------------------------------------------------------------------
(* opt_parser *)

Where(name) == {k \in DOMAIN args : args[k][1] = name}
Has(name) == Where(name) # {}
\* Mutant: the last one is found, not the first.
pos_last(name) == CHOOSE k \in Where(name) : \A j \in Where(name) : j <= k
pos(name) == CHOOSE k \in Where(name) : \A j \in Where(name) : k <= j
useEqualSym(name) == Len(args[pos(name)]) = 2
Dangling(name) == Has(name) /\ ~useEqualSym(name) /\ pos(name) = Len(args)

\* getValueArg. An argument name=value taken as a value is some other text.
Value(name) ==
    IF useEqualSym(name) THEN args[pos(name)][2]
    ELSE IF Len(args[pos(name) + 1]) = 1 THEN args[pos(name) + 1][1]
    ELSE "name=value"

\* rlib_defer: the option goes when the call returns, with its value.
Width(name) == IF useEqualSym(name) THEN 1 ELSE 2
Erase(name) == args' = SubSeq(args, 1, pos(name) - 1) \o SubSeq(args, pos(name) + Width(name), Len(args))

Throw(text) == message' = text /\ pc' = "threw"

\* No value follows. Where the exception is caught, on Windows, the deferred
\* erasures are done while it is on its way, one at end(), the other past it.
ThrowDangling ==
    /\ Throw(Empty) \/ (platform = "windows" /\ pc' = "crashed" /\ UNCHANGED message)
    /\ UNCHANGED <<args, configs>>

------------------------------------------------------------------------------
(* real_main *)

Init ==
    /\ argv \in CommandLines /\ platform \in Platforms
    /\ args = argv /\ inboundConfig = Empty /\ outboundConfig = Empty
    /\ filterConfigs = <<>> /\ chain = <<>> /\ message = Empty /\ pc = "help"

\* getBoolArg("--help", "-h").
Defined(flag) == \E k \in DOMAIN args : args[k] = <<flag>>
CheckHelp ==
    /\ pc = "help"
    /\ IF \E f \in Flags : Defined(f)
       THEN pc' = "helped" /\ args' = RemoveFirst(args, IF Defined("--help") THEN <<"--help">> ELSE <<"-h">>)
       ELSE pc' = "-i" /\ UNCHANGED args
    /\ UNCHANGED <<line, configs, message>>

\* getValueArg of a required option.
TakeRequired(name, next) ==
    /\ pc = name
    /\ \/ ~Has(name) /\ Throw(Empty) /\ UNCHANGED <<args, configs>>
       \/ Dangling(name) /\ ThrowDangling
       \/ /\ Has(name) /\ ~Dangling(name)
          /\ inboundConfig' = IF name = "-i" THEN Value(name) ELSE inboundConfig
          /\ outboundConfig' = IF name = "-o" THEN Value(name) ELSE outboundConfig
          /\ Erase(name) /\ pc' = next /\ UNCHANGED <<filterConfigs, chain, message>>
    /\ UNCHANGED line

TakeLog ==
    /\ pc = "--log"
    /\ \/ ~Has("--log") /\ pc' = "--filter" /\ UNCHANGED <<args, configs, message>>
       \/ Dangling("--log") /\ ThrowDangling
       \/ /\ Has("--log") /\ ~Dangling("--log")
          /\ Erase("--log") /\ UNCHANGED configs
          /\ IF Value("--log") \in LogLevels THEN pc' = "--filter" /\ UNCHANGED message
                                             ELSE Throw(Value("--log"))
    /\ UNCHANGED line

\* The loop over --filter ends when getValueArg gives an empty text.
\* Mutant: an empty text is skipped.
AfterEmpty_skip == "--filter"
AfterEmpty == "inbound"
TakeFilter ==
    /\ pc = "--filter"
    /\ \/ ~Has("--filter") /\ pc' = AfterEmpty /\ UNCHANGED <<args, configs, message>>
       \/ Dangling("--filter") /\ ThrowDangling
       \/ /\ Has("--filter") /\ ~Dangling("--filter") /\ Erase("--filter")
          /\ IF Value("--filter") = Empty
             THEN pc' = AfterEmpty /\ UNCHANGED filterConfigs
             ELSE filterConfigs' = Append(filterConfigs, Value("--filter")) /\ UNCHANGED pc
          /\ UNCHANGED <<inboundConfig, outboundConfig, chain, message>>
    /\ UNCHANGED line

------------------------------------------------------------------------------
(* Forwarder, and windows_main *)

\* A configuration is refused with a text that quotes it (an unknown name) or
\* with loadConfig's own (the wrong parameters).
Refuse(config) == \E text \in {config, Empty} : Throw(text)

\* dynport leaves a null pointer, on which loadConfig is called.
Build(config, at, next) ==
    /\ pc = at
    /\ \/ config \in Plain /\ pc' = next /\ UNCHANGED message
       \/ config \in Dynport /\ pc' = "crashed" /\ UNCHANGED message
       \/ config \notin Plain \cup Dynport /\ Refuse(config)
    /\ UNCHANGED <<line, args, configs>>

BuildFilter ==
    /\ pc = "filters" /\ Len(chain) < Len(filterConfigs)
    /\ LET config == filterConfigs[Len(chain) + 1] IN
       IF config \in Filters THEN chain' = Append(chain, config) /\ UNCHANGED <<message, pc>>
                             ELSE Refuse(config) /\ UNCHANGED chain
    /\ UNCHANGED <<line, args, inboundConfig, outboundConfig, filterConfigs>>

Run ==
    /\ pc = "filters" /\ Len(chain) = Len(filterConfigs) /\ pc' = "running"
    /\ UNCHANGED <<line, args, configs, message>>

\* rlog.fatal takes what() for a format: a hole in it is one argument short,
\* and that exception leaves the handler.
Handle ==
    /\ pc = "threw" /\ platform = "windows"
    /\ pc' = IF message \in HoleTexts THEN "terminated" ELSE "printed"
    /\ UNCHANGED <<line, args, configs, message>>

Next ==
    \/ CheckHelp \/ TakeRequired("-i", "-o") \/ TakeRequired("-o", "--log") \/ TakeLog \/ TakeFilter
    \/ Build(inboundConfig, "inbound", "outbound") \/ Build(outboundConfig, "outbound", "filters")
    \/ BuildFilter \/ Run \/ Handle

Spec == Init /\ [][Next]_vars
FairSpec == Spec /\ WF_vars(Next)

------------------------------------------------------------------------------
(* Properties *)

\* "This opt_parser works well for correct cmd args": flags, and options each
\* with a value that is not an option.
IsValue(c, k) == k > 1 /\ Len(c[k - 1]) = 1 /\ c[k - 1][1] \in Valued
IsCorrect(c) == \A k \in DOMAIN c :
    /\ c[k][1] \in Flags => Len(c[k]) = 1
    /\ c[k][1] \in Valued => Len(c[k]) = 2 \/ (k < Len(c) /\ Len(c[k + 1]) = 1)
    /\ IsValue(c, k) <=> c[k][1] \notin Options
Correct == IsCorrect(argv)

\* The values that a correct command line gives an option, in their order.
ValueAt(c, k) == IF Len(c[k]) = 2 THEN c[k][2] ELSE c[k + 1][1]
Given(c, name) ==
    LET given[k \in 0 .. Len(c)] ==
            IF k = 0 THEN <<>>
            ELSE IF c[k][1] = name THEN Append(given[k - 1], ValueAt(c, k))
            ELSE given[k - 1]
    IN given[Len(c)]
NoEmpty == \A name \in Valued : \A j \in DOMAIN Given(argv, name) : Given(argv, name)[j] # Empty

\* What runs is what the command line asks for: the first -i and -o, and every
\* --filter in order, however the options are mixed and written.
RunsAsAsked == pc = "running" /\ Correct /\ NoEmpty =>
    /\ inboundConfig = Given(argv, "-i")[1] /\ outboundConfig = Given(argv, "-o")[1]
    /\ filterConfigs = Given(argv, "--filter") /\ chain = filterConfigs

\* Options given once are all erased: nothing of one call is left for another.
AllArgDone == pc = "running" /\ Correct /\ NoEmpty /\ (\A name \in {"-i", "-o", "--log"} : Len(Given(argv, name)) <= 1) =>
    args = <<>>

\* Both together: what was asked for runs, and nothing more was asked.
StartsAsAsked == RunsAsAsked /\ AllArgDone

\* main reaches an end or the forwarder: the loop over --filter stops.
StartupEnds == <>(pc \in {"helped", "threw", "printed", "terminated", "crashed", "running"})

\* "There could be multiple --filter, but they MUST be in correct order": the
\* ones that name a filter are all used.
EveryFilterUsed == pc = "running" /\ Correct => chain = SelectSeq(Given(argv, "--filter"), LAMBDA f : f # Empty)

\* "Let's catch all exceptions and print."
EveryExceptionPrinted == Correct => pc # "terminated"

==============================================================================
