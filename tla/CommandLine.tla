------------------------------ MODULE CommandLine ------------------------------
(***************************************************************************)
(* rp_command_line.c: the arguments of the program, turned into a record   *)
(* or refused.  Every parameter is looked for from the beginning of argv,  *)
(* wherever the others are.                                                *)
(*                                                                         *)
(* Abstractions.  argv is a sequence without the name of the program, so   *)
(* argv[i] is the i-th argument for i = 1, 2, ...  What strtoull makes of  *)
(* an argument is given by Numeral; other arguments are no numbers (signs  *)
(* other than one plus, other characters behind the digits, nothing).      *)
(* (X_Y is a plausible mistake in X; it is used only to see that a         *)
(* property notices it.)                                                   *)
(***************************************************************************)
EXTENDS Integers, Sequences

CONSTANTS
  Numeral,  \* the numbers that some of the arguments are
  MaxU32,   \* 0xffffffff
  LongMax,  \* 0x7fffffff, LONG_MAX of rp_command_line.c
  MaxPort,  \* 0xffff
  NULL,     \* the null pointer
  EMPTY_ARG, Refused \* an argument without a value, and one that is not accepted

ASSUME CommandLineAssumption ==
  /\ \A a \in DOMAIN Numeral : Numeral[a] \in Nat
  /\ LongMax \in Nat /\ MaxU32 \in Nat /\ MaxPort \in Nat
  /\ LongMax <= MaxU32 /\ MaxPort <= MaxU32

\* The null pointer is no argument; EMPTY_ARG is told apart from every argument and from all
\* that is made of one.
ASSUME EmptyArgAssumption ==
  /\ NULL \notin {"yes", "no"}
  /\ EMPTY_ARG \notin Int \cup BOOLEAN \cup {NULL, "yes", "no"} \cup DOMAIN Numeral

Flags == {"-h", "-r", "-p", "-m", "-t", "-P", "-B", "-T"}

DefaultTimeout == 5
NoPort == -1

-----------------------------------------------------------------------------
\* string_to_uint32_t: a number, or OVERFLOW, or MALFORMED.
IsNumber(arg) == arg \in DOMAIN Numeral /\ Numeral[arg] <= MaxU32

\* The places of a flag in argv, values included.
Places(argv, flag) == {i \in DOMAIN argv : argv[i] = flag}

First(S) == CHOOSE i \in S : \A j \in S : i <= j

\* A flag is the first, third, ... argument and has something behind it.
IsFlag_Anywhere(argv, i) == i < Len(argv)
IsFlag(argv, i) == i < Len(argv) /\ i % 2 = 1

\* get_parameter_string: NULL when the flag is not there.
GetParameterString(argv, flag) ==
  LET places == Places(argv, flag)
  IN  IF places = {} THEN NULL
      ELSE IF IsFlag(argv, First(places)) THEN argv[First(places) + 1]
      ELSE EMPTY_ARG

\* get_metadata.
MetadataOf_Given(arg) == arg # NULL
MetadataOf(arg) ==
  CASE arg = NULL  -> FALSE
    [] arg = "yes" -> TRUE
    [] arg = "no"  -> FALSE
    [] OTHER       -> Refused

\* parse_timeout, get_timeout and get_proxy_timeout.
TimeoutOf(arg) ==
  IF arg = NULL THEN DefaultTimeout
  ELSE IF IsNumber(arg) /\ Numeral[arg] <= LongMax THEN Numeral[arg] ELSE Refused

\* get_proxy_port.
PortOf(arg) ==
  IF arg = NULL THEN NoPort
  ELSE IF IsNumber(arg) /\ Numeral[arg] \in 1..MaxPort THEN Numeral[arg] ELSE Refused

\* get_host, get_resource and get_port: these have no default.
Required(arg) == IF arg = NULL THEN Refused ELSE arg

\* The record that every function fills in part, from the parameter of every flag.
ArgsFrom(given) ==
  [host |-> Required(given["-h"]), resource |-> Required(given["-r"]),
   port |-> Required(given["-p"]),
   metadata |-> MetadataOf(given["-m"]), timeout |-> TimeoutOf(given["-t"]),
   proxy_port |-> PortOf(given["-P"]), proxy_group |-> given["-B"],
   proxy_timeout |-> TimeoutOf(given["-T"])]

ParseCommandLineArgs(argv) ==
  LET given == [flag \in Flags |-> GetParameterString(argv, flag)]
      args  == ArgsFrom(given)
  IN  IF \/ \E f \in DOMAIN args : args[f] \in {Refused, EMPTY_ARG}
         \/ args.proxy_port = NoPort /\ (args.proxy_group # NULL \/ given["-T"] # NULL)
        THEN Refused ELSE args
===============================================================================
