--------------------------------- MODULE Text ---------------------------------
(***************************************************************************)
(* What my_string.h promises to its callers: an object holds a text; it is *)
(* cleared, or extended by the whole of what is given or by nothing; a     *)
(* copy does not depend on its original; a text that was handed out stays  *)
(* with the caller.  An operation that finds no memory changes nothing.    *)
(***************************************************************************)
EXTENDS Sequences, Functions

CONSTANTS
  Objects, \* names of the objects of the two classes
  Handles, \* names of the texts handed out
  Texts,   \* texts that callers pass, sequences of characters, << >> among them
  Moved    \* what is left in an object whose text was moved away

VARIABLES
  text,  \* the text of every existing object
  kept   \* the texts that callers have taken over

vars == <<text, kept>>

Init == text = << >> /\ kept = << >>

\* A function with one more argument, and one with one less.
With(f, x, v) == [y \in DOMAIN f \cup {x} |-> IF y = x THEN v ELSE f[y]]
Without(f, x) == Restrict(f, DOMAIN f \ {x})

Fresh == Objects \ DOMAIN text
Usable == {o \in DOMAIN text : text[o] # Moved}

\* base_string_new, resizable_string_new, resizable_char_buffer.
Create(o, t) ==
  /\ o \in Fresh
  /\ text' = With(text, o, t)
  /\ UNCHANGED kept

\* clone: an object of its own.
Copy(o, p) == o \in Usable /\ Create(p, text[o])

\* move: the old object may only be deleted from now on.
Transfer(o, p) ==
  /\ o \in Usable /\ p \in Fresh
  /\ text' = With([text EXCEPT ![o] = Moved], p, text[o])
  /\ UNCHANGED kept

\* resizable_string_clear.
Empty(o) ==
  /\ o \in Usable
  /\ text' = [text EXCEPT ![o] = << >>]
  /\ UNCHANGED kept

\* resizable_string_append_c and resizable_string_append_str.
Extend(o, s) ==
  /\ o \in Usable
  /\ text' = [text EXCEPT ![o] = @ \o s]
  /\ UNCHANGED kept

\* base_string_delete.
Remove(o) ==
  /\ o \in DOMAIN text
  /\ text' = Without(text, o)
  /\ UNCHANGED kept

\* base_string_raw_destructive: the object goes, its text stays.
HandOut(o, h) ==
  /\ o \in Usable /\ h \in Handles \ DOMAIN kept
  /\ text' = Without(text, o)
  /\ kept' = With(kept, h, text[o])

\* free(3) on a text that was handed out.
Dispose(h) ==
  /\ h \in DOMAIN kept
  /\ kept' = Without(kept, h)
  /\ UNCHANGED text

Next ==
  \/ \E o \in Objects :
       \/ \E s \in Texts : Create(o, s)
       \/ \E p \in Objects : Copy(o, p)
       \/ \E p \in Objects : Transfer(o, p)
       \/ Empty(o)
       \/ \E s \in Texts : Extend(o, s)
       \/ Remove(o)
       \/ \E h \in Handles : HandOut(o, h)
  \/ \E h \in Handles : Dispose(h)

Spec == Init /\ [][Next]_vars
===============================================================================
