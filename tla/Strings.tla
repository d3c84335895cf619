-------------------------------- MODULE Strings --------------------------------
(***************************************************************************)
(* The two classes of objective_c/my_string.c, base_string and             *)
(* resizable_string, and new, delete, clone and move of class.c: objects   *)
(* that own a block of malloc(3) with a C string in it.  Any allocation    *)
(* may fail; realloc(3) may move the block.                                *)
(*                                                                         *)
(* Abstractions.  Blocks are names, given out again after free(3); the     *)
(* memory of the object itself is left out, and so is a constructor that   *)
(* finds no memory, which gives back all it has and changes nothing.  Junk *)
(* is a byte that nobody wrote, or that was left behind the first NUL of   *)
(* its block, where nobody reads.                                          *)
(* (X_Y is a plausible mistake in X; it is used only to see that a         *)
(* property notices it.)                                                   *)
(***************************************************************************)
EXTENDS Integers, Sequences, Functions, FiniteSets

CONSTANTS
  Objects, Blocks,  \* names of objects and of blocks of memory
  NULL,             \* the null pointer
  NUL, Junk,        \* the terminating byte, and a byte nobody wrote
  Texts,            \* texts that callers pass, sequences of other bytes
  Letters,          \* characters that callers append
  BufferLens,       \* what callers pass to resizable_char_buffer
  MinimalSize,      \* 16, MINIMAL_SIZE
  MaxText,          \* bound of the model: the longest text an object gets
  MaxKept           \* bound of the model: texts that callers hold at once

\* The characters of texts.
Chars == Letters \cup UNION {{t[i] : i \in DOMAIN t} : t \in Texts}

ASSUME StringsAssumption ==
  /\ NULL \notin Blocks /\ NULL \notin Seq(Chars)
  /\ NUL # Junk /\ Chars \cap {NUL, Junk} = {}
  /\ << >> \in Texts /\ Texts \subseteq Seq(Chars) /\ MaxKept \in Nat
  /\ BufferLens \subseteq Nat /\ MinimalSize \in Nat \ {0, 1} /\ MaxText \in Nat

VARIABLES
  heap,   \* the cells of every block in use, numbered from 0
  object, \* the fields of every object: class, raw, size and len
  kept    \* blocks that base_string_raw_destructive handed to callers

vars == <<heap, object, kept>>

Resizable == "resizable_string"
Base      == "base_string"

ERRNO_ERROR == -1

-----------------------------------------------------------------------------
(***************************************************************************)
(* A C string is read up to its first NUL.                                 *)
(***************************************************************************)
StrLen(cells) ==
  CHOOSE n \in DOMAIN cells : cells[n] = NUL /\ \A i \in 0..(n - 1) : cells[i] # NUL

CString(cells) == [i \in 1..StrLen(cells) |-> cells[i - 1]]

\* strcpy(3) of t to a new block of the given size.
Strcpy(t, size) ==
  [i \in 0..(size - 1) |-> IF i < Len(t) THEN t[i + 1] ELSE IF i = Len(t) THEN NUL ELSE Junk]

\* What is behind the first NUL is as good as never written.
Forget(cells) ==
  [i \in DOMAIN cells |-> IF \E j \in 0..(i - 1) : cells[j] = NUL THEN Junk ELSE cells[i]]

SizeFor(n) == IF n + 1 < MinimalSize THEN MinimalSize ELSE n + 1

BaseLen(size, cells) == IF size = MinimalSize THEN StrLen(cells) ELSE size - 1

Length(o) ==
  LET x == object[o]
  IN  IF x.class = Base THEN BaseLen(x.size, heap[x.raw]) ELSE x.len

Usable == {o \in DOMAIN object : object[o].raw # NULL}

FreeBlocks == Blocks \ DOMAIN heap

Without(f, x) == Restrict(f, DOMAIN f \ {x})
With(f, x, v) == [y \in DOMAIN f \cup {x} |-> IF y = x THEN v ELSE f[y]]

\* An object o of this class with its own block b.
Construct(o, class, b, cells, len) ==
  /\ o \notin DOMAIN object /\ b \in FreeBlocks
  /\ heap' = With(heap, b, cells)
  /\ object' = With(object, o, [class |-> class, raw |-> b,
                                size |-> Cardinality(DOMAIN cells), len |-> len])
  /\ UNCHANGED kept

-----------------------------------------------------------------------------
(***************************************************************************)
(* base_string_new and resizable_string_new with their constructors.       *)
(***************************************************************************)
StringNew(o, class, t, b) ==
  LET cells == Strcpy(t, SizeFor(Len(t)))
  IN  Construct(o, class, b, cells,
                IF class = Base THEN 0 ELSE BaseLen(SizeFor(Len(t)), cells))

\* resizable_char_buffer: a text of n letters that is cleared at once.
CharBuffer(o, n, b) ==
  Construct(o, Resizable, b,
            Forget([Strcpy([i \in 1..n |-> Junk], SizeFor(n)) EXCEPT ![0] = NUL]), 0)

Clear(o) ==
  /\ object[o].class = Resizable
  /\ object' = [object EXCEPT ![o].len = 0]
  /\ heap' = [heap EXCEPT ![object[o].raw] = Forget([@ EXCEPT ![0] = NUL])]
  /\ UNCHANGED kept

\* clone, base_string_clone and resizable_string_clone.
Clone(o, p, b) ==
  LET x == object[o]
  IN  Construct(p, x.class, b, Strcpy(CString(heap[x.raw]), x.size), x.len)

\* move, base_string_move and resizable_string_move.
MovedFrom_Shared(x) == x
MovedFrom(x) == [x EXCEPT !.raw = NULL]

Move(o, p) ==
  /\ p \notin DOMAIN object
  /\ object' = With([object EXCEPT ![o] = MovedFrom(object[o])], p, object[o])
  /\ UNCHANGED <<heap, kept>>

-----------------------------------------------------------------------------
(***************************************************************************)
(* Appending.  A string that is being extended is a record of its cells,   *)
(* size and len, of the result so far, of the reallocations that will      *)
(* still succeed and of whether one has happened.                          *)
(***************************************************************************)
Extended(o, successes) ==
  [cells |-> heap[object[o].raw], size |-> object[o].size, len |-> object[o].len,
   successes |-> successes, grown |-> FALSE, result |-> 0]

NewSize(size) == IF size > 0 THEN size * 2 ELSE 10

\* base_string_resize.
Resize(x, size) ==
  IF x.successes = 0 THEN [x EXCEPT !.result = ERRNO_ERROR]
  ELSE [x EXCEPT !.cells = [i \in 0..(size - 1) |-> IF i \in DOMAIN @ THEN @[i] ELSE Junk],
                 !.size = size, !.successes = @ - 1, !.grown = TRUE]

Full_Late(x, c) == x.len >= x.size /\ c # NUL
Full(x, c) == x.len >= x.size - 1 /\ c # NUL

Put(x, c) ==
  [x EXCEPT !.cells = [@ EXCEPT ![x.len] = c, ![x.len + 1] = NUL], !.len = @ + 1]

AppendC(x, c) ==
  LET y == IF Full(x, c) THEN Resize(x, NewSize(x.size)) ELSE x
  IN  IF y.result = 0 THEN Put(y, c) ELSE y

\* The characters of s one by one, up to the first that fails.
AppendEach(x, s) ==
  LET after[i \in 0..Len(s)] ==
        IF i = 0 THEN x
        ELSE IF after[i - 1].result # 0 THEN after[i - 1]
        ELSE AppendC(after[i - 1], s[i])
  IN  after[Len(s)]

Rollback_Not(x, y) == y
Rollback(x, y) == [y EXCEPT !.len = x.len, !.cells[x.len] = NUL]

AppendStr(x, s) ==
  LET y == AppendEach(x, s)
  IN  IF y.result # 0 THEN Rollback(x, y) ELSE y

\* The extended string takes the place of o's; b is where its block is now.
Store_Stale(o, y, b) ==
  /\ b \in IF y.grown THEN FreeBlocks \cup {object[o].raw} ELSE {object[o].raw}
  /\ heap' = With(Without(heap, object[o].raw), b, Forget(y.cells))
  /\ object' = [object EXCEPT ![o].size = y.size, ![o].len = y.len]
  /\ UNCHANGED kept
Store(o, y, b) ==
  /\ b \in IF y.grown THEN FreeBlocks \cup {object[o].raw} ELSE {object[o].raw}
  /\ heap' = With(Without(heap, object[o].raw), b, Forget(y.cells))
  /\ object' = [object EXCEPT ![o] = [class |-> Resizable, raw |-> b,
                                      size |-> y.size, len |-> y.len]]
  /\ UNCHANGED kept

\* As many reallocations as a text of MaxText letters may need succeed, or fewer.
Successes == 0..MaxText

ResizableAppendStr(o, s, successes, b) ==
  /\ object[o].class = Resizable /\ object[o].len + Len(s) <= MaxText
  /\ Store(o, AppendStr(Extended(o, successes), s), b)

ResizableAppendC(o, c, successes, b) ==
  /\ object[o].class = Resizable /\ object[o].len < MaxText
  /\ Store(o, AppendC(Extended(o, successes), c), b)

-----------------------------------------------------------------------------
(***************************************************************************)
(* The end of an object.                                                   *)
(***************************************************************************)
\* base_string_dtor and delete: free(NULL) does nothing.
Delete(o) ==
  /\ heap' = Without(heap, object[o].raw)
  /\ object' = Without(object, o)
  /\ UNCHANGED kept

RawDestructive(o) ==
  /\ Cardinality(kept) < MaxKept
  /\ kept' = kept \cup {object[o].raw}
  /\ object' = Without(object, o)
  /\ UNCHANGED heap

\* A caller frees the text it was given.
Free(b) ==
  /\ b \in kept
  /\ heap' = Without(heap, b)
  /\ kept' = kept \ {b}
  /\ UNCHANGED object

-----------------------------------------------------------------------------
Init == heap = << >> /\ object = << >> /\ kept = {}

Next ==
  \/ \E o \in Objects, b \in FreeBlocks :
       \/ \E class \in {Base, Resizable}, t \in Texts : StringNew(o, class, t, b)
       \/ \E n \in BufferLens : CharBuffer(o, n, b)
  \/ \E o \in Usable :
       \/ \E p \in Objects, b \in FreeBlocks : Clone(o, p, b)
       \/ \E p \in Objects : Move(o, p)
       \/ Clear(o)
       \/ \E s \in Texts, n \in Successes, b \in Blocks : ResizableAppendStr(o, s, n, b)
       \/ \E c \in Letters, n \in {0, 1}, b \in Blocks : ResizableAppendC(o, c, n, b)
       \/ RawDestructive(o)
  \/ \E o \in DOMAIN object : Delete(o)
  \/ \E b \in kept : Free(b)

Spec == Init /\ [][Next]_vars

-----------------------------------------------------------------------------
\* Every field has its type: sizes are positive and pointers point to blocks in use or nowhere.
TypeOK ==
  /\ DOMAIN heap \subseteq Blocks /\ kept \subseteq DOMAIN heap
  /\ DOMAIN object \subseteq Objects
  /\ \A o \in DOMAIN object :
       /\ object[o].class \in {Base, Resizable}
       /\ object[o].raw \in DOMAIN heap \cup {NULL}
       /\ object[o].size \in Nat \ {0} /\ object[o].len \in Nat

(***************************************************************************)
(* base_string_len never looks further than the block reaches and agrees   *)
(* with strlen: `size' is the size of the block, the cell at the length is *)
(* the first NUL in it.  Both ways of computing the length (strlen for a   *)
(* minimal block, size - 1 otherwise; the counter of a resizable string),  *)
(* the growth of append_c and the rollback of append_str must agree.       *)
(***************************************************************************)
LengthIsStrLen ==
  \A o \in Usable :
    LET cells == heap[object[o].raw]
    IN  /\ DOMAIN cells = 0..(object[o].size - 1)
        /\ Length(o) \in DOMAIN cells /\ cells[Length(o)] = NUL
        /\ \A i \in 0..(Length(o) - 1) : cells[i] \notin {NUL, Junk}

(***************************************************************************)
(* Every block has one owner: an object, or the caller that took it with   *)
(* base_string_raw_destructive.  So nothing is freed twice, used after it  *)
(* was freed or lost, whatever clone, move, realloc and delete did before. *)
(***************************************************************************)
OneOwner ==
  LET raws == {object[o].raw : o \in Usable}
  IN  /\ \A o, p \in Usable : object[o].raw = object[p].raw => o = p
      /\ raws \cap kept = {}
      /\ DOMAIN heap = raws \cup kept

-----------------------------------------------------------------------------
(***************************************************************************)
(* What the objects stand for.                                             *)
(***************************************************************************)
T == INSTANCE Text WITH
       Handles <- Blocks,
       Texts <- Texts \cup {<<c>> : c \in Letters},
       Moved <- NULL,
       text <- [o \in DOMAIN object |->
                  IF o \notin Usable THEN NULL ELSE CString(heap[object[o].raw])],
       kept <- [b \in kept |-> CString(heap[b])]

\* The strings keep the promise of my_string.h: in particular an append that finds no memory
\* halfway leaves the text as it was, and no operation on one object shows in another.
ImplementsText == T!Spec
===============================================================================
