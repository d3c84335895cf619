------------------------------- MODULE MCStartup -------------------------------
(***************************************************************************)
(* Command lines around the three arguments that are needed; 16-bit words  *)
(* of four bits, other words scaled alike, with numbers of the radio       *)
(* outside a size_t on both sides; one write that may fail; two addresses   *)
(* and two interfaces; names around the lengths at which the buffer, the   *)
(* datagram and the word end.                                              *)
(***************************************************************************)
EXTENDS Startup

MCNumbers == {-2, 16}

MCNumeral == [a \in {"0", "1", "15", "16", "32"} |->
                CASE a = "0" -> 0 [] a = "1" -> 1 [] a = "15" -> 15
                  [] a = "16" -> 16 [] a = "32" -> 32]

Needed == <<"-h", "host", "-r", "/", "-p", "1">>

Options == {<<>>} \cup {<<f>> : f \in Flags} \cup
           {<<f, v>> : f \in Flags, v \in {"-h", "x"}} \cup
           {<<"-m", "yes">>, <<"-m", "no">>} \cup {<<"-P", n>> : n \in DOMAIN MCNumeral} \cup
           {<<f, n>> : f \in {"-t", "-T"}, n \in {"15", "16", "32"}}

Before == {o \in Options : Len(o) < 2 \/ o[2] \in {"15", "-h", "x"}}

Two == {<<"-P", "15", "-B", "group">>, <<"-B", "x", "-P", "1">>, <<"-B", "group">>,
        <<"-P", "1", "-m", "yes">>, <<"-P", "1", "-T", "16">>, <<"-T", "1", "-P", "0">>,
        <<"-m", "yes", "-m", "no">>, <<"-m", "-P", "-P", "1">>}

MCArgvs == {o \o Needed : o \in Before} \cup {Needed \o o : o \in Options \cup Two}
             \cup {SubSeq(Needed, 1, 4) \o o : o \in Before}

MCNameLens == {7, 8, 11, 12, 16}
===============================================================================
