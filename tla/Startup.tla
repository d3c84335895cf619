-------------------------------- MODULE Startup --------------------------------
(***************************************************************************)
(* How the program comes to serve: main parses the command line            *)
(* (CommandLine), negotiates with the radio (Negotiation), forks, and the  *)
(* client process opens its socket, joins the multicast group and prepares *)
(* the IAM datagram before it enters its loop.                             *)
(*                                                                         *)
(* Abstractions.  A fork(2) that fails is left to Supervisor, where        *)
(* signals and the end of the sons are modelled.  The group of -B is an    *)
(* address or not.  Only the length of the radio's name is kept, and only  *)
(* from where it is used.                                                  *)
(* (X_Y is a plausible mistake in X; it is used only to see that a         *)
(* property notices it.)                                                   *)
(***************************************************************************)
EXTENDS Negotiation, CommandLine, FiniteSets

CONSTANTS
  Argvs,      \* the command lines considered
  Groups,     \* arguments of -B that are IPv4 addresses
  Interfaces, \* network interfaces that are up and have an address
  NameLens,   \* lengths of the name of the radio
  Word,       \* 2^16: uint16_t counts modulo this
  HeaderLen,  \* 4, the bytes before the payload of a datagram
  MaxUdp      \* 65507, the longest datagram

ASSUME StartupAssumption ==
  /\ NameLens \subseteq Nat /\ Word \in Nat /\ HeaderLen \in Nat \ {0} /\ MaxUdp \in Nat
  /\ MaxUdp < Word - HeaderLen

\* An argument is a string, which EMPTY_ARG is not, and a refusal is no record of arguments.
ASSUME ArgvsAssumption ==
  \A args \in Argvs :
    /\ args \in Seq(STRING) /\ \A i \in DOMAIN args : args[i] # EMPTY_ARG
    /\ ArgsFrom([flag \in Flags |-> GetParameterString(args, flag)]) # Refused

VARIABLES
  stage,   \* of main: parse, negotiate, refused (the command line) or forked
  argv,    \* the command line
  cmd,     \* what is made of it
  client,  \* client process: none, socket, bind, group, list, join, iam,
           \* serving, dead (exit) or crashed
  bound,   \* bind(2) has succeeded
  listed,  \* interfaces that get_ifi_info has found
  able,    \* those with IFF_MULTICAST, or "any" when there is no list
  todo,    \* those that mcast_join has not come to yet
  joined,  \* history: where IP_ADD_MEMBERSHIP has succeeded
  iam      \* length field and length of the payload of gl_iam_message

groupVars   == <<listed, able, todo, joined>>
clientVars  == <<client, bound, groupVars, iam>>
startupVars == <<vars, stage, argv, cmd, clientVars>>

-----------------------------------------------------------------------------
(***************************************************************************)
(* main up to the forks.                                                   *)
(***************************************************************************)
ParseArgs ==
  /\ stage = "parse"
  /\ cmd' = ParseCommandLineArgs(argv)
  /\ IF cmd' = Refused THEN stage' = "refused" /\ UNCHANGED metadata
     ELSE stage' = "negotiate" /\ metadata' = cmd'.metadata
  /\ UNCHANGED <<interrupted, pc, addresses, lines, eot, response, sending, ended, argv, clientVars>>

\* run_proxy_server_process before its fork.
NegotiateWithRadio ==
  /\ stage = "negotiate"
  /\ Negotiate
  /\ UNCHANGED <<stage, argv, cmd, clientVars>>

\* `if (pipefd[0] > 0)': the pipe is there when a port was given.
HasClient == cmd.proxy_port > 0

ForkSons ==
  /\ stage = "negotiate" /\ pc = "agreed"
  /\ stage' = "forked"
  /\ client' = IF HasClient THEN "socket" ELSE "none"
  /\ UNCHANGED <<vars, argv, cmd, bound, groupVars, iam>>

-----------------------------------------------------------------------------
(***************************************************************************)
(* udp_sockets_init: after any failure the socket is closed and the client *)
(* process ends with exit(1).                                              *)
(***************************************************************************)
InClient(at) == client = at /\ UNCHANGED <<vars, stage, argv, cmd>>

Dead == client' = "dead"

\* socket(2), then SO_BROADCAST.
OpenSocket ==
  /\ InClient("socket")
  /\ client' = "bind" \/ Dead
  /\ UNCHANGED <<bound, groupVars, iam>>

\* The port may be taken; only REUSEADDR_FLAG, which nobody sets, would ignore that.
BindIgnored == FALSE

AfterBind == IF cmd.proxy_group = NULL THEN "iam" ELSE "group"

Bind ==
  /\ InClient("bind")
  /\ \/ bound' = TRUE /\ client' = AfterBind
     \/ bound' = FALSE /\ IF BindIgnored THEN client' = AfterBind ELSE Dead
  /\ UNCHANGED <<groupVars, iam>>

\* mcast_join: inet_aton.
ParseGroup ==
  /\ InClient("group")
  /\ IF cmd.proxy_group \in Groups THEN client' = "list" ELSE Dead
  /\ UNCHANGED <<bound, groupVars, iam>>

\* get_ifi_info.  Without a list, because a call failed or no interface is up, the kernel
\* chooses where to join.  With a list, interfaces without IFF_MULTICAST are passed over:
\* there may be none left.
ListInterfaces(list, multicast) ==
  /\ InClient("list") /\ multicast \subseteq list
  /\ client' = "join"
  /\ listed' = list
  /\ able' = IF list = {} THEN {"any"} ELSE multicast
  /\ todo' = able'
  /\ UNCHANGED <<bound, joined, iam>>

\* One IP_ADD_MEMBERSHIP; the first that fails ends the loop.
JoinGroup_GoOn(i) ==
  /\ InClient("join") /\ i \in todo
  /\ todo' = todo \ {i}
  /\ joined' \in {joined, joined \cup {i}}
  /\ UNCHANGED <<client, bound, listed, able, iam>>
JoinGroup(i) ==
  /\ InClient("join") /\ i \in todo
  /\ \/ todo' = todo \ {i} /\ joined' = joined \cup {i} /\ UNCHANGED client
     \/ Dead /\ UNCHANGED <<todo, joined>>
  /\ UNCHANGED <<bound, listed, able, iam>>

\* mcast_set_ttl, whose result is ignored.
GroupJoined ==
  /\ InClient("join") /\ todo = {}
  /\ client' = "iam"
  /\ UNCHANGED <<bound, groupVars, iam>>

-----------------------------------------------------------------------------
(***************************************************************************)
(* run_proxy_loop up to the loop: set_iam_message.                         *)
(***************************************************************************)
\* The size of the buffer is counted in uint16_t, and so is the length field.
IamBuffer_Wrapped(n) == (n + HeaderLen) % Word
IamBuffer(n) == IF n < Word - 1 - HeaderLen THEN n + HeaderLen ELSE Word - 1

Iam(n) == [length |-> n % Word, payload |-> IamBuffer(n) - HeaderLen]

SetIam(n) ==
  /\ InClient("iam") /\ icy_name
  /\ iam' = Iam(n) /\ client' = "serving"
  /\ UNCHANGED <<bound, groupVars>>

\* strlen(NULL) when the radio has told no name.
SetIamCrashes ==
  /\ InClient("iam") /\ ~icy_name
  /\ client' = "crashed"
  /\ UNCHANGED <<bound, groupVars, iam>>

\* No memory for the messages or the set: the loop is not entered, exit(0).
NoMemory ==
  /\ InClient("iam")
  /\ Dead
  /\ UNCHANGED <<bound, groupVars, iam>>

-----------------------------------------------------------------------------
StartClient ==
  \/ OpenSocket \/ Bind \/ ParseGroup
  \/ \E list, multicast \in SUBSET Interfaces : ListInterfaces(list, multicast)
  \/ \E i \in todo : JoinGroup(i)
  \/ GroupJoined \/ SetIamCrashes \/ NoMemory
  \/ \E n \in NameLens : SetIam(n)

Start == ParseArgs \/ NegotiateWithRadio \/ ForkSons \/ StartClient

StartupInit ==
  /\ Init
  /\ stage = "parse" /\ argv \in Argvs /\ cmd = NULL
  /\ client = "none" /\ bound = FALSE /\ iam = NULL
  /\ listed = {} /\ able = {} /\ todo = {} /\ joined = {}

\* SIGINT is blocked in all of this and seen only where a signalfd is looked at.
InterruptStart == Interrupt /\ UNCHANGED <<stage, argv, cmd, clientVars>>

StartupNext == Start \/ InterruptStart

StartupSpec == StartupInit /\ [][StartupNext]_startupVars

\* The processes are scheduled and their waits end; but that the radio takes the request is
\* waited for without a timeout, until the signal comes.
Own == (pc = "sending" => interrupted) /\ Start

StartupFairSpec == StartupSpec /\ WF_startupVars(Own)

-----------------------------------------------------------------------------
(***************************************************************************)
(* Properties.                                                             *)
(***************************************************************************)

\* What the usage in Task.md says: the arguments are pairs of a flag and a value.
Pairs(args) == 1..(Len(args) \div 2)

PairValue(args, flag) ==
  LET hits == {k \in Pairs(args) : args[2 * k - 1] = flag}
  IN  IF hits = {} THEN NULL ELSE args[2 * First(hits)]

\* Pairs in which no value looks like a flag.
Plain(args) ==
  Len(args) % 2 = 0 /\ \A k \in Pairs(args) : args[2 * k] \notin Flags

Coherent(args) ==
  /\ \A f \in DOMAIN args : args[f] # Refused
  /\ args.proxy_port = NoPort => args.proxy_group = NULL

(***************************************************************************)
(* The scan of get_parameter_string, which starts anew for every flag and  *)
(* stops at the first match wherever it is, agrees with the reading in     *)
(* pairs: what is accepted has the meaning that the pairs have, and pairs  *)
(* whose values look like no flag are refused only for a bad value or for  *)
(* -B or -T without -P.                                                    *)
(***************************************************************************)
ArgumentsArePairs ==
  [][ stage = "parse" =>
        LET given == [flag \in Flags |-> PairValue(argv, flag)]
            meant == ArgsFrom(given)
            fine  == Coherent(meant) /\ (meant.proxy_port = NoPort => given["-T"] = NULL)
        IN  /\ stage' = "negotiate" => cmd' = meant /\ fine
            /\ stage' = "refused" /\ Plain(argv) => ~fine
    ]_<<stage, cmd>>

\* Where the request tells whether metadata is wanted, and whether it is by the pairs of argv.
Wish == 10
Wanted == PairValue(argv, "-m") = "yes"

\* What the radio reads of the wish for metadata, in a request sent in whatever parts, is what
\* the pairs of the command line say: "yes" behind -m, and nothing else, is a wish.
AsksWhatIsMeant ==
  errors = 0 /\ Len(sent) >= Wish => (sent[Wish] = "1" <=> Wanted)

\* A process that listens to listeners was asked for by -P and has its port, whichever call
\* failed on the way.  When a group was given, it is an address and was joined on every listed
\* interface with multicast, or where the kernel chose when none was listed; it was joined
\* nowhere only if interfaces were listed and all of them lack multicast: then mcast_join
\* succeeds without having joined anything, whatever udp_sockets.h:18-23 says.
ServesWhatWasAsked ==
  client = "serving" =>
    /\ cmd.proxy_port \in 1..MaxPort
    /\ bound
    /\ cmd.proxy_group # NULL =>
         /\ cmd.proxy_group \in Groups
         /\ joined = able
         /\ joined = {} => listed # {}

\* An IAM that can be sent at all has a length field that tells the length of its payload,
\* whatever the length of the name and its 16-bit arithmetic.
IamLengthHonest ==
  client = "serving" /\ iam.payload + HeaderLen <= MaxUdp => iam.length = iam.payload

\* SIGINT ends the start even with a radio that sends header fields for ever: the program
\* has refused, given up, or got as far as processes that look at the signal themselves.
InterruptEndsStartup ==
  interrupted ~> \/ stage = "refused" \/ pc \in {"failed", "killed"}
                 \/ stage = "forked" /\ client \in {"none", "serving", "dead", "crashed"}
===============================================================================
