----------------------------- MODULE Strings_proof -----------------------------
(***************************************************************************)
(* For any number of objects and blocks, any texts, and any allocations    *)
(* that fail or move a block: every block of the strings has one owner;    *)
(* the length of a string is that of the text in its block; and the        *)
(* strings implement the texts of Text.tla.  The owners come first, since  *)
(* no operation on one string shows in another only because no two share   *)
(* a block.  What is appended a character at a time is followed by         *)
(* induction over the characters.                                          *)
(***************************************************************************)
EXTENDS Strings, Induction_proof, SequenceTheorems, FiniteSetTheorems, TLAPS

(***************************************************************************)
(* Functions that gain or lose an argument.                                *)
(***************************************************************************)
LEMMA Gains ==
  ASSUME NEW f, NEW x, NEW v, x \notin DOMAIN f
  PROVE  /\ DOMAIN With(f, x, v) = DOMAIN f \cup {x}
         /\ \A y \in DOMAIN f : With(f, x, v)[y] = f[y]
         /\ With(f, x, v)[x] = v
BY DEF With

LEMMA Loses ==
  ASSUME NEW f, NEW x
  PROVE  /\ DOMAIN Without(f, x) = DOMAIN f \ {x}
         /\ \A y \in DOMAIN f \ {x} : Without(f, x)[y] = f[y]
BY DEF Without, Restrict

-----------------------------------------------------------------------------
(***************************************************************************)
(* The invariant: the owners, and that objects are records.                *)
(***************************************************************************)
Raw(o) == object[o].raw

\* OneOwner, block by block and object by object.
Owners ==
  /\ \A o, p \in DOMAIN object : Raw(o) # NULL /\ Raw(o) = Raw(p) => o = p
  /\ \A o \in DOMAIN object : Raw(o) # NULL => Raw(o) \in DOMAIN heap /\ Raw(o) \notin kept
  /\ kept \subseteq DOMAIN heap
  /\ \A b \in DOMAIN heap : b \in kept \/ \E o \in DOMAIN object : Raw(o) = b

ObjectsAreRecords ==
  /\ object = [o \in DOMAIN object |-> object[o]]
  /\ \A o \in DOMAIN object :
       object[o] = [class |-> object[o].class, raw |-> object[o].raw,
                    size |-> object[o].size, len |-> object[o].len]

OwnerInv == DOMAIN heap \subseteq Blocks /\ ObjectsAreRecords /\ Owners

LEMMA OwnersMeanOneOwner == OwnerInv => OneOwner
<1> SUFFICES ASSUME OwnerInv PROVE OneOwner
  OBVIOUS
<1>1. NULL \notin DOMAIN heap
  BY StringsAssumption DEF StringsAssumption, OwnerInv
<1>2. \A o : o \in Usable <=> o \in DOMAIN object /\ Raw(o) # NULL
  BY DEF Usable, Raw
<1> DEFINE raws == {object[o].raw : o \in Usable}
<1>3. \A b : b \in raws <=> \E o \in DOMAIN object : Raw(o) = b /\ Raw(o) # NULL
  BY <1>2 DEF Raw
<1>4. \A o, p \in Usable : object[o].raw = object[p].raw => o = p
  BY <1>2 DEF OwnerInv, Owners, Raw
<1>5. raws \cap kept = {}
  BY <1>3 DEF OwnerInv, Owners
<1>6. DOMAIN heap = raws \cup kept
  <2>1. \A b \in DOMAIN heap : b \in raws \cup kept
    BY <1>1, <1>3 DEF OwnerInv, Owners
  <2>2. \A b \in raws \cup kept : b \in DOMAIN heap
    BY <1>3 DEF OwnerInv, Owners
  <2> QED
    BY <2>1, <2>2
<1> QED
  BY <1>4, <1>5, <1>6 DEF OneOwner

-----------------------------------------------------------------------------
(***************************************************************************)
(* The steps.                                                              *)
(***************************************************************************)
\* A new object owns a block that was free.
LEMMA ConstructOwners ==
  ASSUME OwnerInv, NEW o, NEW class, NEW b, NEW cells, NEW len,
         Construct(o, class, b, cells, len)
  PROVE  OwnerInv'
<1> DEFINE x == [class |-> class, raw |-> b, size |-> Cardinality(DOMAIN cells), len |-> len]
<1>1. /\ o \notin DOMAIN object /\ b \in Blocks /\ b \notin DOMAIN heap /\ b # NULL
      /\ heap' = With(heap, b, cells) /\ object' = With(object, o, x) /\ kept' = kept
  BY StringsAssumption DEF Construct, FreeBlocks, StringsAssumption
<1> HIDE DEF x
<1>2. DOMAIN heap' = DOMAIN heap \cup {b}
  BY <1>1, Gains
<1>3. /\ DOMAIN object' = DOMAIN object \cup {o}
      /\ \A p \in DOMAIN object : object'[p] = object[p]
      /\ object'[o] = x
  BY <1>1 DEF With
<1>4. /\ x.raw = b
      /\ x = [class |-> x.class, raw |-> x.raw, size |-> x.size, len |-> x.len]
  BY DEF x
<1>5. (\A p \in DOMAIN object : Raw(p)' = Raw(p)) /\ Raw(o)' = b
  BY <1>3, <1>4 DEF Raw
<1>6. ObjectsAreRecords'
  <2>1. object' = [p \in DOMAIN object' |-> object'[p]]
    BY <1>1 DEF With
  <2> QED
    BY <1>3, <1>4, <2>1 DEF OwnerInv, ObjectsAreRecords
<1>7. Owners'
  BY <1>1, <1>2, <1>3, <1>5 DEF OwnerInv, Owners
<1> QED
  BY <1>1, <1>2, <1>6, <1>7 DEF OwnerInv

\* The block goes with the object that takes over.
LEMMA MoveOwners ==
  ASSUME OwnerInv, NEW o \in Usable, NEW p, Move(o, p)
  PROVE  OwnerInv'
<1> DEFINE f == [object EXCEPT ![o] = MovedFrom(object[o])]
<1>1. /\ o \in DOMAIN object /\ p \notin DOMAIN object /\ Raw(o) # NULL
      /\ object' = With(f, p, object[o]) /\ heap' = heap /\ kept' = kept
  BY DEF Move, Usable, Raw
<1>2. MovedFrom(object[o]) = [class |-> object[o].class, raw |-> NULL,
                              size |-> object[o].size, len |-> object[o].len]
  BY <1>1 DEF MovedFrom, OwnerInv, ObjectsAreRecords
<1>3. /\ DOMAIN f = DOMAIN object /\ f[o] = MovedFrom(object[o])
      /\ \A q \in DOMAIN object \ {o} : f[q] = object[q]
  BY <1>1 DEF OwnerInv, ObjectsAreRecords
<1> HIDE DEF f
<1>4. /\ DOMAIN object' = DOMAIN object \cup {p}
      /\ \A q \in DOMAIN object : object'[q] = f[q]
      /\ object'[p] = object[o]
  BY <1>1, <1>3 DEF With
<1>5. /\ \A q \in DOMAIN object \ {o} : Raw(q)' = Raw(q)
      /\ Raw(o)' = NULL /\ Raw(p)' = Raw(o)
  BY <1>1, <1>2, <1>3, <1>4 DEF Raw
<1>6. ObjectsAreRecords'
  <2>1. object' = [q \in DOMAIN object' |-> object'[q]]
    BY <1>1 DEF With
  <2> QED
    BY <1>1, <1>2, <1>3, <1>4, <2>1 DEF OwnerInv, ObjectsAreRecords
<1>7. Owners'
  BY <1>1, <1>4, <1>5 DEF OwnerInv, Owners
<1> QED
  BY <1>1, <1>6, <1>7 DEF OwnerInv

\* A step that changes no pointer changes no owner.
LEMMA SamePointers ==
  ASSUME OwnerInv, DOMAIN heap' = DOMAIN heap, kept' = kept, ObjectsAreRecords',
         DOMAIN object' = DOMAIN object, \A o \in DOMAIN object : Raw(o)' = Raw(o)
  PROVE  OwnerInv'
BY DEF OwnerInv, Owners

\* Clearing leaves the block where it is.
LEMMA ClearOwners ==
  ASSUME OwnerInv, NEW o \in Usable, Clear(o)
  PROVE  OwnerInv'
<1>1. o \in DOMAIN object /\ object' = [object EXCEPT ![o].len = 0] /\ kept' = kept
  BY DEF Clear, Usable
<1>2. DOMAIN heap' = DOMAIN heap
  BY DEF Clear
<1>3. /\ DOMAIN object' = DOMAIN object
      /\ \A q \in DOMAIN object \ {o} : object'[q] = object[q]
      /\ object'[o] = [class |-> object[o].class, raw |-> object[o].raw,
                        size |-> object[o].size, len |-> 0]
  BY <1>1 DEF OwnerInv, ObjectsAreRecords
<1>4. \A q \in DOMAIN object : Raw(q)' = Raw(q)
  BY <1>3 DEF Raw
<1>5. ObjectsAreRecords'
  BY <1>1, <1>3 DEF OwnerInv, ObjectsAreRecords
<1> QED
  BY <1>1, <1>2, <1>3, <1>4, <1>5, SamePointers

\* However much was appended and whether or not it all fitted: the object owns the block that
\* realloc has left it with, and the old one is gone.
LEMMA StoreOwners ==
  ASSUME OwnerInv, NEW o \in Usable, NEW y, NEW b \in Blocks, Store(o, y, b)
  PROVE  OwnerInv'
<1> PICK size, len : size = y.size /\ len = y.len
  OBVIOUS
<1>1. /\ o \in DOMAIN object /\ Raw(o) # NULL
      /\ object' = [object EXCEPT ![o] = [class |-> Resizable, raw |-> b,
                                          size |-> size, len |-> len]]
      /\ heap' = With(Without(heap, Raw(o)), b, Forget(y.cells)) /\ kept' = kept
      /\ b \notin DOMAIN heap \/ b = Raw(o)
  BY DEF Store, Usable, Raw, FreeBlocks
<1>2. DOMAIN heap' = (DOMAIN heap \ {Raw(o)}) \cup {b}
  BY <1>1, Loses DEF With
<1>3. /\ DOMAIN object' = DOMAIN object
      /\ \A q \in DOMAIN object \ {o} : object'[q] = object[q]
      /\ object'[o] = [class |-> Resizable, raw |-> b, size |-> size, len |-> len]
  BY <1>1 DEF OwnerInv, ObjectsAreRecords
<1>4. (\A q \in DOMAIN object \ {o} : Raw(q)' = Raw(q)) /\ Raw(o)' = b
  BY <1>1, <1>3 DEF Raw
<1>5. ObjectsAreRecords'
  <2>1. object' = [q \in DOMAIN object' |-> object'[q]]
    BY ONLY <1>1
  <2> QED
    BY ONLY OwnerInv, <1>1, <1>3, <2>1 DEF OwnerInv, ObjectsAreRecords
<1>6. DOMAIN heap' \subseteq Blocks
  BY <1>2 DEF OwnerInv
<1>7. Owners'
  BY <1>1, <1>2, <1>3, <1>4 DEF OwnerInv, Owners
<1> QED
  BY <1>5, <1>6, <1>7 DEF OwnerInv

\* The end of an object: its block is freed or handed out, if it still has one.
LEMMA EndOwners ==
  ASSUME OwnerInv, NEW o \in DOMAIN object, object' = Without(object, o),
         \/ heap' = Without(heap, Raw(o)) /\ kept' = kept
         \/ heap' = heap /\ kept' = kept \cup {Raw(o)} /\ Raw(o) # NULL
  PROVE  OwnerInv'
<1>1. /\ DOMAIN object' = DOMAIN object \ {o}
      /\ \A q \in DOMAIN object \ {o} : object'[q] = object[q]
  BY Loses
<1>2. \A q \in DOMAIN object \ {o} : Raw(q)' = Raw(q)
  BY <1>1 DEF Raw
<1>3. ObjectsAreRecords'
  <2>1. object' = [q \in DOMAIN object' |-> object'[q]]
    BY DEF Without, Restrict
  <2> QED
    BY <1>1, <2>1 DEF OwnerInv, ObjectsAreRecords
<1>4. \/ DOMAIN heap' = DOMAIN heap \ {Raw(o)} /\ kept' = kept
      \/ heap' = heap /\ kept' = kept \cup {Raw(o)} /\ Raw(o) # NULL
  BY Loses
<1>5. NULL \notin DOMAIN heap
  BY StringsAssumption DEF StringsAssumption, OwnerInv
<1>6. Owners'
  BY <1>1, <1>2, <1>4, <1>5 DEF OwnerInv, Owners
<1>7. DOMAIN heap' \subseteq Blocks
  BY <1>4 DEF OwnerInv
<1> QED
  BY <1>3, <1>6, <1>7 DEF OwnerInv

\* The caller frees what is its own.
LEMMA FreeOwners ==
  ASSUME OwnerInv, NEW b \in kept, Free(b)
  PROVE  OwnerInv'
<1>1. DOMAIN heap' = DOMAIN heap \ {b} /\ kept' = kept \ {b} /\ object' = object
  BY Loses DEF Free
<1>2. \A q : Raw(q)' = Raw(q)
  BY <1>1 DEF Raw
<1>3. ObjectsAreRecords'
  BY <1>1 DEF OwnerInv, ObjectsAreRecords
<1>4. Owners'
  BY <1>1, <1>2 DEF OwnerInv, Owners
<1> QED
  BY <1>1, <1>3, <1>4 DEF OwnerInv

LEMMA OwnerInvInductive ==
  /\ Init => OwnerInv
  /\ OwnerInv /\ [Next]_vars => OwnerInv'
<1>1. Init => OwnerInv
  BY DEF Init, OwnerInv, ObjectsAreRecords, Owners
<1>2. ASSUME OwnerInv, [Next]_vars PROVE OwnerInv'
  <2>1. ASSUME NEW o \in Objects, NEW b \in FreeBlocks,
               \/ \E class \in {Base, Resizable}, t \in Texts : StringNew(o, class, t, b)
               \/ \E n \in BufferLens : CharBuffer(o, n, b)
        PROVE  OwnerInv'
    BY <1>2, <2>1, ConstructOwners DEF StringNew, CharBuffer
  <2>2. ASSUME NEW o \in Usable, NEW p \in Objects, NEW b \in FreeBlocks, Clone(o, p, b)
        PROVE  OwnerInv'
    BY <1>2, <2>2, ConstructOwners DEF Clone
  <2>3. ASSUME NEW o \in Usable, NEW p \in Objects, Move(o, p)
        PROVE  OwnerInv'
    BY <1>2, <2>3, MoveOwners
  <2>4. ASSUME NEW o \in Usable, Clear(o)
        PROVE  OwnerInv'
    BY <1>2, <2>4, ClearOwners
  <2>5. ASSUME NEW o \in Usable, NEW b \in Blocks, NEW n,
               \/ \E s \in Texts : ResizableAppendStr(o, s, n, b)
               \/ \E c \in Letters : ResizableAppendC(o, c, n, b)
        PROVE  OwnerInv'
    BY <1>2, <2>5, StoreOwners DEF ResizableAppendStr, ResizableAppendC
  <2>6. ASSUME NEW o \in Usable, RawDestructive(o)
        PROVE  OwnerInv'
    BY <1>2, <2>6, EndOwners DEF RawDestructive, Usable, Raw
  <2>7. ASSUME NEW o \in DOMAIN object, Delete(o)
        PROVE  OwnerInv'
    BY <1>2, <2>7, EndOwners DEF Delete, Raw
  <2>8. ASSUME NEW b \in kept, Free(b)
        PROVE  OwnerInv'
    BY <1>2, <2>8, FreeOwners
  <2>9. CASE UNCHANGED vars
    BY <1>2, <2>9 DEF vars, OwnerInv, ObjectsAreRecords, Owners, Raw
  <2> QED
    BY <1>2, <2>1, <2>2, <2>3, <2>4, <2>5, <2>6, <2>7, <2>8, <2>9 DEF Next
<1> QED
  BY <1>1, <1>2

(***************************************************************************)
(* No block of a string is freed twice, used after it was freed, or lost,  *)
(* for any number of strings and whatever allocations fail or move.        *)
(***************************************************************************)
THEOREM BlocksHaveOneOwner == Spec => []OneOwner
BY OwnerInvInductive, OwnersMeanOneOwner, PTL DEF Spec

-----------------------------------------------------------------------------
(***************************************************************************)
(* C strings.                                                              *)
(***************************************************************************)
\* A block of this size with a text of n characters in it.
IsText(cells, size, n) ==
  /\ cells = [i \in 0..(size - 1) |-> cells[i]]
  /\ size \in Nat /\ n \in 0..(size - 1)
  /\ cells[n] = NUL /\ \A i \in 0..(n - 1) : cells[i] \in Chars

LEMMA NoNul == NUL \notin Chars /\ Junk \notin Chars
BY StringsAssumption DEF StringsAssumption

LEMMA StrLenIs ==
  ASSUME NEW cells, NEW size, NEW n, IsText(cells, size, n)
  PROVE  StrLen(cells) = n
<1> DEFINE P(m) == m \in DOMAIN cells /\ cells[m] = NUL /\ \A i \in 0..(m - 1) : cells[i] # NUL
<1>1. DOMAIN cells = 0..(size - 1) /\ size \in Nat /\ n \in 0..(size - 1)
  BY DEF IsText
<1>2. P(n)
  BY <1>1, NoNul DEF IsText
<1>3. ASSUME NEW m, P(m) PROVE m = n
  <2>1. m \in Nat /\ n \in Nat
    BY <1>1, <1>3
  <2>2. ~(m < n)
    <3> SUFFICES ASSUME m < n PROVE FALSE
      OBVIOUS
    <3>1. m \in 0..(n - 1)
      BY <2>1
    <3> QED
      BY <1>3, <3>1, NoNul DEF IsText
  <2>3. ~(n < m)
    <3> SUFFICES ASSUME n < m PROVE FALSE
      OBVIOUS
    <3>1. n \in 0..(m - 1)
      BY <2>1
    <3> QED
      BY <1>2, <1>3, <3>1
  <2> QED
    BY ONLY <2>1, <2>2, <2>3
<1>4. StrLen(cells) = CHOOSE m : P(m)
  BY DEF StrLen
<1> QED
  BY <1>2, <1>3, <1>4

\* The text itself is a sequence of characters.
LEMMA CStringIs ==
  ASSUME NEW cells, NEW size, NEW n, IsText(cells, size, n)
  PROVE  /\ CString(cells) = [i \in 1..n |-> cells[i - 1]]
         /\ CString(cells) \in Seq(Chars) /\ Len(CString(cells)) = n
<1>1. n \in Nat
  BY DEF IsText
<1>2. CString(cells) = [i \in 1..n |-> cells[i - 1]]
  BY StrLenIs DEF CString
<1>3. \A i \in 1..n : cells[i - 1] \in Chars
  <2> TAKE i \in 1..n
  <2>1. i - 1 \in 0..(n - 1)
    BY ONLY <1>1, i \in 1..n
  <2>2. \A j \in 0..(n - 1) : cells[j] \in Chars
    BY DEF IsText
  <2> QED
    BY ONLY <2>1, <2>2
<1>4. [i \in 1..n |-> cells[i - 1]] \in Seq(Chars)
  BY <1>1, <1>3
<1>5. Len([i \in 1..n |-> cells[i - 1]]) = n
  BY <1>1
<1> QED
  BY <1>2, <1>4, <1>5

\* Blocks that agree up to the end of a text hold the same text.
LEMMA SameCString ==
  ASSUME NEW cells, NEW size, NEW n, IsText(cells, size, n),
         NEW cells2, NEW size2, IsText(cells2, size2, n),
         \A i \in 0..(n - 1) : cells2[i] = cells[i]
  PROVE  CString(cells2) = CString(cells)
<1>1. n \in Nat
  BY DEF IsText
<1>2. \A i \in 1..n : cells2[i - 1] = cells[i - 1]
  BY <1>1
<1>3. /\ CString(cells) = [i \in 1..n |-> cells[i - 1]]
      /\ CString(cells2) = [i \in 1..n |-> cells2[i - 1]]
  BY CStringIs
<1> QED
  BY <1>2, <1>3

LEMMA StrcpyIsText ==
  ASSUME NEW t \in Seq(Chars), NEW size \in Nat, Len(t) < size
  PROVE  IsText(Strcpy(t, size), size, Len(t)) /\ CString(Strcpy(t, size)) = t
<1> DEFINE n == Len(t)
           cells == Strcpy(t, size)
<1>1. n \in Nat /\ n \in 0..(size - 1)
  OBVIOUS
<1>2. cells = [i \in 0..(size - 1) |-> IF i < n THEN t[i + 1] ELSE IF i = n THEN NUL ELSE Junk]
  BY DEF Strcpy
<1>3. t = [i \in 1..n |-> t[i]] /\ \A i \in 1..n : t[i] \in Chars
  OBVIOUS
<1> HIDE DEF cells, n
<1>4. cells = [i \in 0..(size - 1) |-> cells[i]] /\ cells[n] = NUL
  BY <1>1, <1>2
<1>5. \A i \in 0..(n - 1) : cells[i] = t[i + 1] /\ i + 1 \in 1..n
  BY <1>1, <1>2
<1>6. IsText(cells, size, n)
  BY <1>1, <1>3, <1>4, <1>5 DEF IsText
<1>7. CString(cells) = t
  <2>1. CString(cells) = [i \in 1..n |-> cells[i - 1]]
    BY <1>6, CStringIs
  <2>2. \A i \in 1..n : cells[i - 1] = t[i]
    BY <1>1, <1>5
  <2> QED
    BY ONLY <1>3, <2>1, <2>2
<1> QED
  BY <1>6, <1>7 DEF cells, n

\* Nothing is lost when what is behind the text is forgotten.
LEMMA ForgetIsText ==
  ASSUME NEW cells, NEW size, NEW n, IsText(cells, size, n)
  PROVE  IsText(Forget(cells), size, n) /\ CString(Forget(cells)) = CString(cells)
<1> DEFINE f == Forget(cells)
<1>1. DOMAIN cells = 0..(size - 1) /\ size \in Nat /\ n \in 0..(size - 1)
  BY DEF IsText
<1>2. \A i \in 0..n : ~ \E j \in 0..(i - 1) : cells[j] = NUL
  <2> SUFFICES ASSUME NEW i \in 0..n, NEW j \in 0..(i - 1) PROVE cells[j] # NUL
    OBVIOUS
  <2>1. j \in 0..(n - 1)
    BY <1>1
  <2> QED
    BY <2>1, NoNul DEF IsText
<1>3. f = [i \in 0..(size - 1) |-> IF \E j \in 0..(i - 1) : cells[j] = NUL THEN Junk ELSE cells[i]]
  BY <1>1 DEF Forget
<1> HIDE DEF f
<1>4. \A i \in 0..n : f[i] = cells[i]
  BY <1>1, <1>2, <1>3
<1>5. f = [i \in 0..(size - 1) |-> f[i]]
  BY <1>3
<1>6. \A i \in 0..(n - 1) : f[i] = cells[i]
  BY <1>1, <1>4
<1>7. f[n] = NUL /\ \A i \in 0..(n - 1) : f[i] \in Chars
  <2>1. n \in 0..n
    BY <1>1
  <2> QED
    BY <1>4, <1>6, <2>1 DEF IsText
<1>8. IsText(f, size, n)
  BY <1>1, <1>5, <1>7 DEF IsText
<1> QED
  BY <1>6, <1>8, SameCString DEF f

\* A character in the place of the last NUL, and a NUL behind it.
LEMMA PutIsText ==
  ASSUME NEW cells, NEW size, NEW n, IsText(cells, size, n), n + 1 < size, NEW c \in Chars
  PROVE  IsText([cells EXCEPT ![n] = c, ![n + 1] = NUL], size, n + 1)
<1> DEFINE f == [cells EXCEPT ![n] = c, ![n + 1] = NUL]
<1>1. /\ cells = [i \in 0..(size - 1) |-> cells[i]]
      /\ size \in Nat /\ n \in 0..(size - 1)
  BY DEF IsText
<1>2. n + 1 \in 0..(size - 1) /\ n \in Nat /\ n # n + 1
  BY <1>1
<1>3. /\ DOMAIN f = 0..(size - 1) /\ f = [i \in 0..(size - 1) |-> f[i]]
      /\ f[n] = c /\ f[n + 1] = NUL
      /\ \A i \in 0..(size - 1) : i # n /\ i # n + 1 => f[i] = cells[i]
  BY <1>1, <1>2
<1> HIDE DEF f
<1>4. ASSUME NEW i \in 0..((n + 1) - 1) PROVE f[i] \in Chars
  <2>1. i = n \/ i \in 0..(n - 1)
    BY <1>2
  <2>2. i \in 0..(n - 1) => i # n /\ i # n + 1 /\ i \in 0..(size - 1)
    BY <1>1
  <2> QED
    BY <1>3, <2>1, <2>2 DEF IsText
<1> QED
  BY <1>1, <1>2, <1>3, <1>4 DEF IsText, f

\* Cutting a text off at m leaves its first m characters.
LEMMA CutIsText ==
  ASSUME NEW cells, NEW size, NEW n, IsText(cells, size, n), NEW m \in 0..n
  PROVE  /\ IsText([cells EXCEPT ![m] = NUL], size, m)
         /\ \A i \in 0..(m - 1) : [cells EXCEPT ![m] = NUL][i] = cells[i]
<1> DEFINE f == [cells EXCEPT ![m] = NUL]
<1>1. DOMAIN cells = 0..(size - 1) /\ size \in Nat /\ n \in 0..(size - 1)
  BY DEF IsText
<1>2. m \in 0..(size - 1) /\ m \in Nat /\ \A i \in 0..(m - 1) : i \in 0..(n - 1) /\ i \in 0..(size - 1)
  BY <1>1
<1>3. /\ f = [i \in 0..(size - 1) |-> f[i]] /\ f[m] = NUL
      /\ \A i \in 0..(size - 1) : i # m => f[i] = cells[i]
  BY <1>1, <1>2
<1> HIDE DEF f
<1>4. ASSUME NEW i \in 0..(m - 1) PROVE f[i] = cells[i] /\ f[i] \in Chars
  <2>1. i # m
    BY <1>2
  <2> QED
    BY <1>2, <1>3, <2>1 DEF IsText
<1> QED
  BY <1>1, <1>2, <1>3, <1>4 DEF IsText, f

\* realloc(3) to a block that is not smaller.
Grown(cells, more) ==
  [i \in 0..(more - 1) |-> IF i \in DOMAIN cells THEN cells[i] ELSE Junk]

LEMMA GrowIsText ==
  ASSUME NEW cells, NEW size, NEW n, IsText(cells, size, n), NEW more \in Nat, size <= more
  PROVE  IsText(Grown(cells, more), more, n) /\ \A i \in 0..(n - 1) : Grown(cells, more)[i] = cells[i]
<1> DEFINE f == Grown(cells, more)
<1>1. DOMAIN cells = 0..(size - 1) /\ size \in Nat /\ n \in 0..(size - 1)
  BY DEF IsText
<1>2. n \in Nat /\ n \in 0..(more - 1) /\ \A i \in 0..n : i \in 0..(more - 1) /\ i \in 0..(size - 1)
  BY <1>1
<1>3. f = [i \in 0..(more - 1) |-> f[i]] /\ \A i \in 0..n : f[i] = cells[i]
  BY <1>1, <1>2 DEF Grown
<1> HIDE DEF f
<1>4. \A i \in 0..(n - 1) : i \in 0..n
  BY <1>2
<1>6. \A i \in 0..(n - 1) : f[i] = cells[i] /\ cells[i] \in Chars
  BY <1>3, <1>4 DEF IsText
<1>5. n \in 0..n /\ cells[n] = NUL
  BY <1>2 DEF IsText
<1> QED
  BY <1>2, <1>3, <1>5, <1>6 DEF IsText, f

-----------------------------------------------------------------------------
(***************************************************************************)
(* Appending.                                                              *)
(***************************************************************************)
\* A string that is being extended.
Str(cells, size, len, successes, grown, result) ==
  [cells |-> cells, size |-> size, len |-> len, successes |-> successes, grown |-> grown,
   result |-> result]

\* It has the first n characters of these cells, and behind them the first k of s.
Extends(y, cells, n, s, k) ==
  \E c, size, successes, grown, result :
    /\ y = Str(c, size, n + k, successes, grown, result)
    /\ result \in {0, ERRNO_ERROR}
    /\ MinimalSize <= size /\ IsText(c, size, n + k)
    /\ \A i \in 0..(n - 1) : c[i] = cells[i]
    /\ \A i \in 1..k : c[n + i - 1] = s[i]

LEMMA Sizes == MinimalSize \in Nat /\ MinimalSize >= 2
BY StringsAssumption DEF StringsAssumption

\* append_c: one character more than these n, or none and a failure.
OneMore(y, cells, n, c) ==
  \E cells2, size2, n2, successes2, grown2, result2 :
    /\ y = Str(cells2, size2, n2, successes2, grown2, result2)
    /\ MinimalSize <= size2 /\ IsText(cells2, size2, n2)
    /\ \A i \in 0..(n - 1) : cells2[i] = cells[i]
    /\ \/ result2 = 0 /\ n2 = n + 1 /\ cells2[n] = c
       \/ result2 = ERRNO_ERROR /\ n2 = n

LEMMA AppendCAdds ==
  ASSUME NEW cells, NEW size, NEW n, IsText(cells, size, n), MinimalSize <= size,
         NEW successes, NEW grown, NEW c \in Chars
  PROVE  OneMore(AppendC(Str(cells, size, n, successes, grown, 0), c), cells, n, c)
<1> DEFINE x == Str(cells, size, n, successes, grown, 0)
           more == NewSize(size)
           cells1 == Grown(cells, more)
           put(cs) == [cs EXCEPT ![n] = c, ![n + 1] = NUL]
<1>1. size \in Nat /\ n \in 0..(size - 1) /\ n \in Nat /\ DOMAIN cells = 0..(size - 1)
  BY DEF IsText
<1>2. c # NUL /\ ERRNO_ERROR # 0
  BY NoNul DEF ERRNO_ERROR
<1>3. more = 2 * size /\ more \in Nat /\ size <= more /\ n + 1 < more /\ MinimalSize <= more
  BY <1>1, Sizes DEF NewSize
<1>4. Full(x, c) <=> n >= size - 1
  BY <1>2 DEF Full, x, Str
<1>5. ASSUME NEW cs, NEW sz, NEW su, NEW gr
      PROVE  Put(Str(cs, sz, n, su, gr, 0), c) = Str(put(cs), sz, n + 1, su, gr, 0)
  <2> DEFINE y == Str(cs, sz, n, su, gr, 0)
             fs == put(cs)
  <2>1. y.cells = cs /\ y.len = n
    BY DEF Str
  <2>2. Put(y, c) = [y EXCEPT !.cells = fs, !.len = n + 1]
    BY <2>1 DEF Put
  <2>3. ASSUME NEW a, NEW b PROVE [y EXCEPT !.cells = a, !.len = b] = Str(a, sz, b, su, gr, 0)
    <3>1. [y EXCEPT !.cells = a] = Str(a, sz, n, su, gr, 0)
      BY DEF Str
    <3>2. [Str(a, sz, n, su, gr, 0) EXCEPT !.len = b] = Str(a, sz, b, su, gr, 0)
      BY DEF Str
    <3> QED
      BY <3>1, <3>2
  <2> QED
    BY <2>2, <2>3
<1>6. ASSUME NEW cs, NEW sz, IsText(cs, sz, n), n + 1 < sz,
             \A i \in 0..(n - 1) : cs[i] = cells[i]
      PROVE  /\ IsText(put(cs), sz, n + 1) /\ put(cs)[n] = c
             /\ \A i \in 0..(n - 1) : put(cs)[i] = cells[i]
  <2>1. DOMAIN cs = 0..(sz - 1) /\ sz \in Nat
    BY <1>6 DEF IsText
  <2>2. n \in DOMAIN cs /\ \A i \in 0..(n - 1) : i \in DOMAIN cs /\ i # n /\ i # n + 1
    BY <1>1, <1>6, <2>1
  <2>3. n # n + 1
    BY <1>1
  <2>4. put(cs)[n] = c /\ \A i \in 0..(n - 1) : put(cs)[i] = cs[i]
    BY ONLY <2>2, <2>3
  <2> QED
    BY <1>6, <2>4, PutIsText
<1>7. CASE ~(n >= size - 1)
  <2>1. n + 1 < size
    BY <1>1, <1>7
  <2>2. AppendC(x, c) = Put(x, c)
    BY <1>4, <1>7 DEF AppendC, x, Str
  <2>3. AppendC(x, c) = Str(put(cells), size, n + 1, successes, grown, 0)
    BY <1>5, <2>2 DEF x
  <2>4. /\ IsText(put(cells), size, n + 1) /\ put(cells)[n] = c
        /\ \A i \in 0..(n - 1) : put(cells)[i] = cells[i]
    BY <1>6, <2>1
  <2> HIDE DEF put
  <2> QED
    BY <2>3, <2>4 DEF x, OneMore
<1>8. CASE n >= size - 1 /\ successes = 0
  <2>1. Resize(x, more) = Str(cells, size, n, successes, grown, ERRNO_ERROR)
    BY <1>8 DEF Resize, x, Str
  <2>2. AppendC(x, c) = Resize(x, more)
    BY <1>2, <1>4, <1>8, <2>1 DEF AppendC, x, Str
  <2> QED
    BY <2>1, <2>2 DEF x, OneMore
<1>9. CASE n >= size - 1 /\ successes # 0
  <2>1. Resize(x, more) = Str(cells1, more, n, successes - 1, TRUE, 0)
    <3> HIDE DEF more
    <3> QED
      BY <1>9 DEF Resize, x, Str, Grown
  <2>2. AppendC(x, c) = Put(Resize(x, more), c)
    BY <1>4, <1>9, <2>1 DEF AppendC, x, Str
  <2>3. AppendC(x, c) = Str(put(cells1), more, n + 1, successes - 1, TRUE, 0)
    <3> HIDE DEF x, more, cells1, put
    <3> QED
      BY <1>5, <2>1, <2>2
  <2>4. IsText(cells1, more, n) /\ \A i \in 0..(n - 1) : cells1[i] = cells[i]
    <3> HIDE DEF more
    <3> QED
      BY <1>3, GrowIsText
  <2>5. /\ IsText(put(cells1), more, n + 1) /\ put(cells1)[n] = c
        /\ \A i \in 0..(n - 1) : put(cells1)[i] = cells[i]
    <3> HIDE DEF cells1, put, more
    <3> QED
      BY <1>3, <1>6, <2>4
  <2> HIDE DEF put, more, cells1
  <2> QED
    BY <1>3, <2>3, <2>5 DEF x, OneMore
<1> QED
  BY <1>7, <1>8, <1>9

\* The same, for the text that s has brought so far.
LEMMA AppendCExtends ==
  ASSUME NEW y, NEW cells, NEW n \in Nat, NEW s \in Seq(Chars), NEW k \in 0..(Len(s) - 1),
         Extends(y, cells, n, s, k), y.result = 0
  PROVE  LET z == AppendC(y, s[k + 1])
         IN  Extends(z, cells, n, s, IF z.result = 0 THEN k + 1 ELSE k)
<1>1. PICK c, size, successes, grown, result :
        /\ y = Str(c, size, n + k, successes, grown, result)
        /\ result \in {0, ERRNO_ERROR}
        /\ MinimalSize <= size /\ IsText(c, size, n + k)
        /\ \A i \in 0..(n - 1) : c[i] = cells[i]
        /\ \A i \in 1..k : c[n + i - 1] = s[i]
  BY Zenon DEF Extends
<1>2. y = Str(c, size, n + k, successes, grown, 0)
  BY <1>1 DEF Str
<1>3. s[k + 1] \in Chars /\ k \in Nat
  OBVIOUS
<1>4. PICK c2, size2, n2, successes2, grown2, result2 :
        /\ AppendC(y, s[k + 1]) = Str(c2, size2, n2, successes2, grown2, result2)
        /\ MinimalSize <= size2 /\ IsText(c2, size2, n2)
        /\ \A i \in 0..(n + k - 1) : c2[i] = c[i]
        /\ \/ result2 = 0 /\ n2 = n + k + 1 /\ c2[n + k] = s[k + 1]
           \/ result2 = ERRNO_ERROR /\ n2 = n + k
  <2> DEFINE m == n + k
             a == s[k + 1]
  <2>1. y = Str(c, size, m, successes, grown, 0) /\ IsText(c, size, m) /\ a \in Chars
    BY <1>1, <1>2, <1>3
  <2> HIDE DEF m, a
  <2>2. OneMore(AppendC(y, a), c, m, a)
    BY <1>1, <2>1, AppendCAdds
  <2> QED
    BY <2>2 DEF OneMore, m, a
<1> DEFINE z == AppendC(y, s[k + 1])
<1>5. z.result = result2
  BY <1>4 DEF Str
<1>6. \A i \in 0..(n - 1) : c2[i] = cells[i]
  <2>1. \A i \in 0..(n - 1) : i \in 0..(n + k - 1)
    BY <1>3
  <2> QED
    BY <1>1, <1>4, <2>1
<1>7. \A i \in 1..k : c2[n + i - 1] = s[i]
  <2>1. \A i \in 1..k : n + i - 1 \in 0..(n + k - 1)
    BY <1>3
  <2> QED
    BY <1>1, <1>4, <2>1
<1>8. CASE result2 = 0
  <2>1. n2 = n + (k + 1)
    BY <1>3, <1>4, <1>8 DEF ERRNO_ERROR
  <2>2. c2[n + k] = s[k + 1]
    BY <1>4, <1>8 DEF ERRNO_ERROR
  <2>3. ASSUME NEW i \in 1..(k + 1) PROVE c2[n + i - 1] = s[i]
    <3>1. CASE i = k + 1
      <4>1. n + i - 1 = n + k
        BY <1>3, <3>1
      <4> QED
        BY <2>2, <3>1, <4>1
    <3>2. CASE i # k + 1
      <4>1. i \in 1..k
        BY <1>3, <3>2
      <4> QED
        BY <1>7, <4>1
    <3> QED
      BY <3>1, <3>2
  <2>4. z = Str(c2, size2, n + (k + 1), successes2, grown2, 0)
    BY <1>4, <1>8, <2>1
  <2>5. Extends(z, cells, n, s, k + 1)
    <3> HIDE DEF z
    <3> QED
      BY <1>4, <1>6, <2>1, <2>3, <2>4 DEF Extends
  <2> QED
    BY <1>5, <1>8, <2>5
<1>9. CASE result2 # 0
  <2>1. n2 = n + k /\ result2 = ERRNO_ERROR
    BY <1>4, <1>9
  <2>2. Extends(z, cells, n, s, k)
    <3>1. z = Str(c2, size2, n + k, successes2, grown2, result2)
      BY <1>4, <2>1
    <3> HIDE DEF z
    <3> QED
      BY <1>4, <1>6, <1>7, <2>1, <3>1 DEF Extends
  <2> QED
    BY <1>5, <1>9, <2>2
<1> QED
  BY <1>8, <1>9

\* The function that AppendEach is defined by, up to n characters.
AppendNext(y, c) == IF y.result # 0 THEN y ELSE AppendC(y, c)

IsAppending(f, n, x, s) ==
  f = [i \in 0..n |-> IF i = 0 THEN x ELSE AppendNext(f[i - 1], s[i])]

LEMMA AppendingExists ==
  ASSUME NEW x, NEW s, NEW N \in Nat
  PROVE  \E f : IsAppending(f, N, x, s)
<1> DEFINE S == {n \in 0..N : \E f : IsAppending(f, n, x, s)}
<1>1. 0 \in S
  <2> DEFINE f == [i \in 0..0 |-> x]
  <2>1. IsAppending(f, 0, x, s)
    BY DEF IsAppending
  <2> QED
    BY <2>1
<1>2. ASSUME NEW n \in 0..(N - 1), n \in S PROVE n + 1 \in S
  <2>1. PICK f : IsAppending(f, n, x, s)
    BY <1>2
  <2> DEFINE g == [i \in 0..(n + 1) |-> IF i = n + 1 THEN AppendNext(f[n], s[n + 1]) ELSE f[i]]
  <2>2. ASSUME NEW i \in 0..(n + 1)
        PROVE  g[i] = IF i = 0 THEN x ELSE AppendNext(g[i - 1], s[i])
    <3>1. CASE i = n + 1
      BY <3>1
    <3>2. CASE i # n + 1
      <4>1. i \in 0..n
        BY <3>2
      <4>2. g[i] = f[i] /\ (i # 0 => g[i - 1] = f[i - 1])
        BY <4>1
      <4>3. f[i] = IF i = 0 THEN x ELSE AppendNext(f[i - 1], s[i])
        BY ONLY <2>1, <4>1 DEF IsAppending
      <4> QED
        BY ONLY <4>2, <4>3
    <3> QED
      BY <3>1, <3>2
  <2>3. IsAppending(g, n + 1, x, s)
    <3>1. g = [i \in 0..(n + 1) |-> g[i]]
      OBVIOUS
    <3> HIDE DEF g
    <3> QED
      BY ONLY <3>1, <2>2 DEF IsAppending
  <2>4. n + 1 \in 0..N
    OBVIOUS
  <2> QED
    BY <2>3, <2>4
<1>3. N \in S
  <2> HIDE DEF S
  <2> QED
    BY <1>1, <1>2, Induction
<1> QED
  BY <1>3

\* All the characters have been appended, or some of them and then one could not be.
LEMMA AppendEachExtends ==
  ASSUME NEW cells, NEW size, NEW n, IsText(cells, size, n), MinimalSize <= size,
         NEW successes, NEW grown, NEW s \in Seq(Chars)
  PROVE  LET y == AppendEach(Str(cells, size, n, successes, grown, 0), s)
         IN  \E k \in 0..Len(s) : Extends(y, cells, n, s, k) /\ (y.result = 0 => k = Len(s))
<1> DEFINE x == Str(cells, size, n, successes, grown, 0)
           N == Len(s)
           after[i \in 0..Len(s)] ==
             IF i = 0 THEN x
             ELSE IF after[i - 1].result # 0 THEN after[i - 1]
             ELSE AppendC(after[i - 1], s[i])
           Good == {i \in 0..N : \E k \in 0..i : Extends(after[i], cells, n, s, k)
                                                   /\ (after[i].result = 0 => k = i)}
<1>1. N \in Nat /\ n \in Nat
  BY DEF IsText
<1>2. IsAppending(after, N, x, s)
  <2>1. \E f : IsAppending(f, N, x, s)
    BY <1>1, AppendingExists
  <2> QED
    BY ONLY <2>1 DEF IsAppending, AppendNext
<1>3. \A i \in 0..N : after[i] = IF i = 0 THEN x ELSE AppendNext(after[i - 1], s[i])
  <2> HIDE DEF after
  <2> QED
    BY <1>2 DEF IsAppending
<1>4. AppendEach(x, s) = after[N]
  BY DEF AppendEach
<1> HIDE DEF after, x
<1>5. 0 \in Good
  <2>1. Extends(x, cells, n, s, 0)
    <3>1. x = Str(cells, size, n + 0, successes, grown, 0) /\ IsText(cells, size, n + 0)
      BY <1>1 DEF x
    <3> QED
      BY <3>1 DEF Extends
  <2>2. after[0] = x /\ 0 \in 0..N /\ 0 \in 0..0
    BY <1>1, <1>3
  <2> QED
    BY <2>1, <2>2
<1>6. ASSUME NEW i \in 0..(N - 1), i \in Good PROVE i + 1 \in Good
  <2>1. PICK k \in 0..i : Extends(after[i], cells, n, s, k) /\ (after[i].result = 0 => k = i)
    BY <1>6
  <2>2. i + 1 \in 0..N /\ (i + 1) - 1 = i /\ i \in Nat
    BY <1>1
  <2>3. after[i + 1] = AppendNext(after[i], s[i + 1])
    BY <1>3, <2>2
  <2>4. CASE after[i].result # 0
    <3>1. after[i + 1] = after[i] /\ k \in 0..(i + 1)
      BY <2>3, <2>4 DEF AppendNext
    <3> QED
      BY <2>1, <2>2, <2>4, <3>1
  <2>5. CASE after[i].result = 0
    <3> DEFINE z == AppendC(after[i], s[i + 1])
               j == IF z.result = 0 THEN i + 1 ELSE i
    <3>1. after[i + 1] = z
      BY <2>3, <2>5 DEF AppendNext
    <3>2. Extends(z, cells, n, s, j)
      <4>1. Extends(after[i], cells, n, s, i)
        BY <2>1, <2>5
      <4> QED
        BY <1>1, <2>5, <4>1, AppendCExtends
    <3>3. j \in 0..(i + 1) /\ (z.result = 0 => j = i + 1)
      BY <2>2
    <3> HIDE DEF z, j
    <3> QED
      BY <2>2, <3>1, <3>2, <3>3
  <2> QED
    BY <2>4, <2>5
<1>7. N \in Good
  <2> HIDE DEF Good
  <2> QED
    BY <1>1, <1>5, <1>6, Induction
<1> QED
  BY <1>4, <1>7 DEF x

-----------------------------------------------------------------------------
\* All of s stands behind the text of these cells, or nothing.
Appended(y, cells, s) ==
  \E c, size, n, successes, grown, result :
    /\ y = Str(c, size, n, successes, grown, result)
    /\ MinimalSize <= size /\ IsText(c, size, n)
    /\ CString(c) = CString(cells) \o s \/ CString(c) = CString(cells)

LEMMA TextBehindText ==
  ASSUME NEW cells, NEW size, NEW n, IsText(cells, size, n),
         NEW c, NEW size2, NEW s \in Seq(Chars), IsText(c, size2, n + Len(s)),
         \A i \in 0..(n - 1) : c[i] = cells[i],
         \A i \in 1..Len(s) : c[n + i - 1] = s[i]
  PROVE  CString(c) = CString(cells) \o s
<1> DEFINE t == CString(cells)
           u == CString(c)
           m == Len(s)
<1>1. n \in Nat /\ m \in Nat
  BY DEF IsText
<1>2. /\ t \in Seq(Chars) /\ Len(t) = n /\ t = [i \in 1..n |-> cells[i - 1]]
      /\ u \in Seq(Chars) /\ Len(u) = n + m /\ u = [i \in 1..(n + m) |-> c[i - 1]]
  BY CStringIs
<1> HIDE DEF t, u
<1>3. t \o s \in Seq(Chars)
  BY <1>2
<1>4. Len(t \o s) = n + m
  <2>1. Len(t \o s) = Len(t) + Len(s)
    <3>1. t \in Seq(Chars) /\ s \in Seq(Chars)
      BY <1>2
    <3> QED
      BY ONLY <3>1, ConcatProperties, Zenon
  <2> QED
    BY <1>2, <2>1
<1>5. ASSUME NEW i \in 1..(n + m) PROVE (t \o s)[i] = u[i]
  <2>1. (t \o s)[i] = IF i <= Len(t) THEN t[i] ELSE s[i - Len(t)]
    BY <1>1, <1>2, ConcatProperties
  <2>2. u[i] = c[i - 1]
    BY <1>2
  <2>3. CASE i <= n
    <3>1. i \in 1..n /\ i - 1 \in 0..(n - 1)
      BY <1>1, <2>3
    <3> QED
      BY <1>2, <2>1, <2>2, <2>3, <3>1
  <2>4. CASE ~(i <= n)
    <3>1. i - n \in 1..m /\ n + (i - n) - 1 = i - 1
      BY <1>1, <2>4
    <3>2. c[n + (i - n) - 1] = s[i - n]
      BY <3>1
    <3> QED
      BY <1>2, <2>1, <2>2, <2>4, <3>1, <3>2
  <2> QED
    BY <2>3, <2>4
<1>6. t \o s = u
  <2> DEFINE v == t \o s
  <2> HIDE DEF v
  <2>1. v \in Seq(Chars) /\ Len(v) = Len(u) /\ \A i \in 1..Len(v) : v[i] = u[i]
    BY <1>2, <1>3, <1>4, <1>5 DEF v
  <2>2. v = u
    BY <1>2, <2>1, SeqEqual
  <2> QED
    BY <2>2 DEF v
<1> QED
  BY <1>6 DEF t, u

LEMMA AppendCAppends ==
  ASSUME NEW cells, NEW size, NEW n, IsText(cells, size, n), MinimalSize <= size,
         NEW successes, NEW grown, NEW c \in Chars
  PROVE  Appended(AppendC(Str(cells, size, n, successes, grown, 0), c), cells, <<c>>)
<1> DEFINE y == AppendC(Str(cells, size, n, successes, grown, 0), c)
<1>1. OneMore(y, cells, n, c)
  BY AppendCAdds
<1> HIDE DEF y
<1>2. PICK c2, size2, n2, successes2, grown2, result2 :
        /\ y = Str(c2, size2, n2, successes2, grown2, result2)
        /\ MinimalSize <= size2 /\ IsText(c2, size2, n2)
        /\ \A i \in 0..(n - 1) : c2[i] = cells[i]
        /\ \/ result2 = 0 /\ n2 = n + 1 /\ c2[n] = c
           \/ result2 = ERRNO_ERROR /\ n2 = n
  BY <1>1, Zenon DEF OneMore
<1>3. <<c>> \in Seq(Chars) /\ Len(<<c>>) = 1 /\ <<c>>[1] = c
  OBVIOUS
<1>4. CASE n2 = n + 1 /\ c2[n] = c
  <2>1. n \in Nat
    BY DEF IsText
  <2>2. \A i \in 1..Len(<<c>>) : c2[n + i - 1] = <<c>>[i]
    <3>1. n + 1 - 1 = n /\ \A i \in 1..1 : i = 1
      BY <2>1
    <3> QED
      BY <1>3, <1>4, <3>1
  <2>3. IsText(c2, size2, n + Len(<<c>>))
    BY <1>2, <1>3, <1>4
  <2>4. CString(c2) = CString(cells) \o <<c>>
    BY <1>2, <1>3, <2>2, <2>3, TextBehindText
  <2> QED
    BY <1>2, <2>4 DEF Appended, y
<1>5. CASE n2 = n
  <2>1. CString(c2) = CString(cells)
    BY <1>2, <1>5, SameCString
  <2> QED
    BY <1>2, <2>1 DEF Appended, y
<1> QED
  BY <1>2, <1>4, <1>5

LEMMA AppendStrAppends ==
  ASSUME NEW cells, NEW size, NEW n, IsText(cells, size, n), MinimalSize <= size,
         NEW successes, NEW grown, NEW s \in Seq(Chars)
  PROVE  Appended(AppendStr(Str(cells, size, n, successes, grown, 0), s), cells, s)
<1> DEFINE x == Str(cells, size, n, successes, grown, 0)
           y == AppendEach(x, s)
<1>1. n \in Nat /\ Len(s) \in Nat /\ x.len = n
  BY DEF IsText, Str
<1>2. PICK k \in 0..Len(s) : Extends(y, cells, n, s, k) /\ (y.result = 0 => k = Len(s))
  BY AppendEachExtends
<1>3. AppendStr(x, s) = IF y.result # 0 THEN Rollback(x, y) ELSE y
  BY DEF AppendStr
<1> HIDE DEF y, x
<1>4. PICK c, size2, successes2, grown2, result2 :
        /\ y = Str(c, size2, n + k, successes2, grown2, result2)
        /\ result2 \in {0, ERRNO_ERROR}
        /\ MinimalSize <= size2 /\ IsText(c, size2, n + k)
        /\ \A i \in 0..(n - 1) : c[i] = cells[i]
        /\ \A i \in 1..k : c[n + i - 1] = s[i]
  BY <1>2, Zenon DEF Extends
<1>5. CASE y.result = 0
  <2>1. k = Len(s)
    BY <1>2, <1>5
  <2>2. CString(c) = CString(cells) \o s
    BY <1>4, <2>1, TextBehindText
  <2>3. AppendStr(x, s) = y
    BY <1>3, <1>5
  <2> QED
    BY <1>4, <2>2, <2>3 DEF Appended, x
<1>6. CASE y.result # 0
  <2> DEFINE d == [c EXCEPT ![n] = NUL]
  <2>1. n \in 0..(n + k)
    BY <1>1
  <2>2. IsText(d, size2, n) /\ \A i \in 0..(n - 1) : d[i] = c[i]
    BY <1>4, <2>1, CutIsText
  <2>3. CString(d) = CString(cells)
    <3>1. \A i \in 0..(n - 1) : d[i] = cells[i]
      BY <1>4, <2>2
    <3> HIDE DEF d
    <3> QED
      BY <2>2, <3>1, SameCString
  <2>4. Rollback(x, y) = Str(d, size2, n, successes2, grown2, result2)
    <3>1. [y EXCEPT !.len = n] = Str(c, size2, n, successes2, grown2, result2)
      BY <1>4 DEF Str
    <3>2. [Str(c, size2, n, successes2, grown2, result2) EXCEPT !.cells[n] = NUL]
            = Str(d, size2, n, successes2, grown2, result2)
      BY DEF Str
    <3> QED
      BY <1>1, <3>1, <3>2 DEF Rollback
  <2>5. AppendStr(x, s) = Str(d, size2, n, successes2, grown2, result2)
    BY <1>3, <1>6, <2>4
  <2> HIDE DEF d
  <2> QED
    BY <1>4, <2>2, <2>3, <2>5 DEF Appended, x
<1> QED
  BY <1>5, <1>6
-----------------------------------------------------------------------------
(***************************************************************************)
(* The contents of the objects.                                            *)
(***************************************************************************)
\* A record has its types, and if it has a block there is a text in it whose length the
\* record tells.
Sound(x) ==
  /\ x.class \in {Base, Resizable} /\ x.size \in Nat /\ MinimalSize <= x.size /\ x.len \in Nat

Fits(x, cells) ==
  \E n : /\ IsText(cells, x.size, n)
         /\ IF x.class = Base THEN x.size = MinimalSize \/ x.size = n + 1 ELSE x.len = n

Good(o) == Sound(object[o]) /\ (Raw(o) # NULL => Fits(object[o], heap[Raw(o)]))

TextInv ==
  /\ OwnerInv
  /\ DOMAIN object \subseteq Objects
  /\ \A o \in DOMAIN object : Good(o)

LEMMA TextInvMeansTypeOK == TextInv => TypeOK
<1> SUFFICES ASSUME TextInv PROVE TypeOK
  OBVIOUS
<1>1. DOMAIN heap \subseteq Blocks /\ kept \subseteq DOMAIN heap /\ DOMAIN object \subseteq Objects
  BY DEF TextInv, OwnerInv, Owners
<1>2. ASSUME NEW o \in DOMAIN object
      PROVE  /\ object[o].class \in {Base, Resizable}
             /\ object[o].raw \in DOMAIN heap \cup {NULL}
             /\ object[o].size \in Nat \ {0} /\ object[o].len \in Nat
  <2>1. object[o].raw \in DOMAIN heap \cup {NULL}
    BY DEF TextInv, OwnerInv, Owners, Raw
  <2>2. Sound(object[o])
    BY DEF TextInv, Good
  <2> QED
    BY <2>1, <2>2, Sizes DEF Sound
<1> QED
  BY <1>1, <1>2 DEF TypeOK

LEMMA TextInvMeansLength == TextInv => LengthIsStrLen
<1> SUFFICES ASSUME TextInv, NEW o \in Usable
    PROVE  LET cells == heap[object[o].raw]
           IN  /\ DOMAIN cells = 0..(object[o].size - 1)
               /\ Length(o) \in DOMAIN cells /\ cells[Length(o)] = NUL
               /\ \A i \in 0..(Length(o) - 1) : cells[i] \notin {NUL, Junk}
  BY DEF LengthIsStrLen
<1> DEFINE cells == heap[object[o].raw]
           x == object[o]
<1>1. Sound(x) /\ Fits(x, cells)
  BY DEF TextInv, Good, Usable, Raw
<1>2. Length(o) = IF x.class = Base THEN BaseLen(x.size, cells) ELSE x.len
  BY DEF Length
<1> HIDE DEF cells, x
<1>3. PICK n : /\ IsText(cells, x.size, n)
               /\ IF x.class = Base THEN x.size = MinimalSize \/ x.size = n + 1 ELSE x.len = n
  BY <1>1 DEF Fits
<1>4. /\ DOMAIN cells = 0..(x.size - 1) /\ n \in 0..(x.size - 1) /\ cells[n] = NUL
      /\ \A i \in 0..(n - 1) : cells[i] \in Chars
  BY <1>3 DEF IsText
<1>5. Length(o) = n
  <2>1. StrLen(cells) = n
    BY <1>3, StrLenIs
  <2>2. x.size = n + 1 => x.size - 1 = n
    BY <1>4
  <2> QED
    BY <1>2, <1>3, <2>1, <2>2 DEF BaseLen
<1> QED
  BY <1>4, <1>5, NoNul DEF cells, x

(***************************************************************************)
(* The texts that the objects and the callers have, as Text.tla sees them. *)
(***************************************************************************)
TextOf(o) == IF Raw(o) = NULL THEN NULL ELSE CString(heap[Raw(o)])

TextMap == [o \in DOMAIN object |-> TextOf(o)]
KeptMap == [b \in kept |-> CString(heap[b])]

\* What nobody has touched is as it was.
LEMMA Untouched ==
  ASSUME NEW q, object'[q] = object[q], Raw(q) # NULL => heap'[Raw(q)] = heap[Raw(q)]
  PROVE  Raw(q)' = Raw(q) /\ TextOf(q)' = TextOf(q) /\ (Good(q) => Good(q)')
BY DEF Raw, TextOf, Good

LEMMA UntouchedKept ==
  ASSUME kept' = kept, \A b \in kept : heap'[b] = heap[b]
  PROVE  KeptMap' = KeptMap
BY DEF KeptMap

\* A text is not the mark of an object that was moved.
LEMMA TextIsNotNull ==
  ASSUME NEW cells, NEW size, NEW n, IsText(cells, size, n)
  PROVE  CString(cells) # NULL
BY CStringIs, StringsAssumption DEF StringsAssumption

LEMMA UsableHasText ==
  ASSUME TextInv, NEW o \in Usable
  PROVE  /\ o \in DOMAIN object /\ Raw(o) # NULL /\ Raw(o) \in DOMAIN heap /\ Raw(o) \notin kept
         /\ Sound(object[o]) /\ Fits(object[o], heap[Raw(o)])
         /\ TextOf(o) = CString(heap[Raw(o)]) /\ TextOf(o) # NULL
<1>1. o \in DOMAIN object /\ Raw(o) # NULL
  BY DEF Usable, Raw
<1>2. Raw(o) \in DOMAIN heap /\ Raw(o) \notin kept
  BY <1>1 DEF TextInv, OwnerInv, Owners
<1>3. Sound(object[o]) /\ Fits(object[o], heap[Raw(o)])
  BY <1>1 DEF TextInv, Good
<1>4. TextOf(o) = CString(heap[Raw(o)])
  BY <1>1 DEF TextOf
<1>5. CString(heap[Raw(o)]) # NULL
  BY <1>3, TextIsNotNull DEF Fits
<1> QED
  BY <1>1, <1>2, <1>3, <1>4, <1>5

-----------------------------------------------------------------------------
(***************************************************************************)
(* The steps, seen from the texts.                                         *)
(***************************************************************************)
LEMMA ConstructTexts ==
  ASSUME TextInv, NEW o \in Objects, NEW class \in {Base, Resizable}, NEW b, NEW cells,
         NEW len \in Nat, NEW size, NEW n, IsText(cells, size, n), MinimalSize <= size,
         IF class = Base THEN size = MinimalSize \/ size = n + 1 ELSE len = n,
         Construct(o, class, b, cells, len)
  PROVE  /\ TextInv'
         /\ o \notin DOMAIN TextMap
         /\ TextMap' = With(TextMap, o, CString(cells)) /\ KeptMap' = KeptMap
<1> DEFINE x == [class |-> class, raw |-> b, size |-> Cardinality(DOMAIN cells), len |-> len]
<1>1. /\ o \notin DOMAIN object /\ b \in Blocks /\ b \notin DOMAIN heap /\ b # NULL
      /\ heap' = With(heap, b, cells) /\ object' = With(object, o, x) /\ kept' = kept
  BY StringsAssumption DEF Construct, FreeBlocks, StringsAssumption
<1>2. OwnerInv'
  BY ConstructOwners DEF TextInv
<1>3. size \in Nat /\ DOMAIN cells = 0..(size - 1) /\ Cardinality(DOMAIN cells) = size
  <2>1. size \in Nat /\ DOMAIN cells = 0..(size - 1)
    BY DEF IsText
  <2>2. Cardinality(0..(size - 1)) = IF 0 > size - 1 THEN 0 ELSE (size - 1) - 0 + 1
    <3>1. 0 \in Int /\ size - 1 \in Int
      BY <2>1
    <3> QED
      BY <3>1, FS_Interval
  <2>3. (IF 0 > size - 1 THEN 0 ELSE (size - 1) - 0 + 1) = size
    BY <2>1
  <2> QED
    BY <2>1, <2>2, <2>3
<1>4. x = [class |-> class, raw |-> b, size |-> size, len |-> len]
  BY <1>3
<1> HIDE DEF x
<1>5. /\ DOMAIN object' = DOMAIN object \cup {o}
      /\ \A q \in DOMAIN object : object'[q] = object[q]
      /\ object'[o] = x
      /\ \A a \in DOMAIN heap : heap'[a] = heap[a]
      /\ heap'[b] = cells
  BY <1>1 DEF With
<1>6. \A q \in DOMAIN object : Raw(q) # NULL => heap'[Raw(q)] = heap[Raw(q)]
  BY <1>5 DEF TextInv, OwnerInv, Owners
<1>7. \A q \in DOMAIN object : TextOf(q)' = TextOf(q) /\ Good(q)'
  BY <1>5, <1>6, Untouched DEF TextInv
<1>8. Raw(o)' = b
  BY <1>4, <1>5 DEF Raw
<1>9. Good(o)'
  <2>1. Sound(x)
    BY <1>3, <1>4 DEF Sound
  <2>2. Fits(x, cells)
    BY <1>4 DEF Fits
  <2> QED
    BY <1>5, <1>8, <2>1, <2>2 DEF Good
<1>10. TextOf(o)' = CString(cells)
  BY <1>1, <1>5, <1>8 DEF TextOf
<1>11. TextMap' = With(TextMap, o, CString(cells))
  <2> HIDE DEF TextInv
  <2>1. TextMap' = [q \in DOMAIN object \cup {o} |-> IF q = o THEN CString(cells) ELSE TextOf(q)]
    BY <1>1, <1>5, <1>7, <1>10 DEF TextMap
  <2> QED
    BY <2>1 DEF With, TextMap
<1>12. KeptMap' = KeptMap
  <2>1. \A a \in kept : heap'[a] = heap[a]
    BY <1>5 DEF TextInv, OwnerInv, Owners
  <2> QED
    BY <1>1, <2>1, UntouchedKept
<1>13. DOMAIN object' \subseteq Objects
  BY <1>5 DEF TextInv
<1>14. o \notin DOMAIN TextMap
  BY <1>1 DEF TextMap
<1> QED
  BY <1>2, <1>5, <1>7, <1>9, <1>11, <1>12, <1>13, <1>14 DEF TextInv
\* The text goes over to p, and o is left without.
LEMMA MoveTexts ==
  ASSUME TextInv, NEW o \in Usable, NEW p \in Objects, Move(o, p)
  PROVE  /\ TextInv'
         /\ o \in DOMAIN TextMap /\ p \notin DOMAIN TextMap
         /\ TextMap' = With([TextMap EXCEPT ![o] = NULL], p, TextMap[o]) /\ KeptMap' = KeptMap
<1> DEFINE f == [object EXCEPT ![o] = MovedFrom(object[o])]
           x == [class |-> object[o].class, raw |-> NULL,
                 size |-> object[o].size, len |-> object[o].len]
<1>1. /\ o \in DOMAIN object /\ p \notin DOMAIN object /\ Raw(o) # NULL
      /\ object' = With(f, p, object[o]) /\ heap' = heap /\ kept' = kept
  BY DEF Move, Usable, Raw
<1>2. OwnerInv'
  BY MoveOwners DEF TextInv
<1>3. MovedFrom(object[o]) = x
  BY <1>1 DEF MovedFrom, TextInv, OwnerInv, ObjectsAreRecords
<1>4. /\ DOMAIN f = DOMAIN object /\ f[o] = x
      /\ \A q \in DOMAIN object \ {o} : f[q] = object[q]
  BY <1>1, <1>3 DEF TextInv, OwnerInv, ObjectsAreRecords
<1> HIDE DEF f
<1>5. /\ DOMAIN object' = DOMAIN object \cup {p}
      /\ \A q \in DOMAIN object \ {o} : object'[q] = object[q]
      /\ object'[o] = x /\ object'[p] = object[o]
  BY <1>1, <1>4 DEF With
<1>6. \A q \in DOMAIN object \ {o} : TextOf(q)' = TextOf(q) /\ Good(q)'
  BY <1>1, <1>5, Untouched DEF TextInv
<1>7. Raw(o)' = NULL /\ Raw(p)' = Raw(o)
  BY <1>5 DEF Raw
<1>8. TextOf(o)' = NULL /\ TextOf(p)' = TextOf(o)
  BY <1>1, <1>7 DEF TextOf
<1>9. Sound(object[o]) /\ Fits(object[o], heap[Raw(o)])
  BY UsableHasText
<1>10. Good(o)'
  <2>1. Sound(x)
    BY <1>9 DEF Sound
  <2> HIDE DEF x
  <2> QED
    BY <1>5, <1>7, <2>1 DEF Good
<1>11. Good(p)'
  BY <1>1, <1>5, <1>7, <1>9 DEF Good
<1>12. TextMap' = With([TextMap EXCEPT ![o] = NULL], p, TextMap[o])
  <2>1. TextMap' = [q \in DOMAIN object \cup {p} |->
                      IF q = p THEN TextOf(o) ELSE IF q = o THEN NULL ELSE TextOf(q)]
    BY <1>1, <1>5, <1>6, <1>8 DEF TextMap
  <2>2. [TextMap EXCEPT ![o] = NULL] = [q \in DOMAIN object |-> IF q = o THEN NULL ELSE TextOf(q)]
    BY <1>1 DEF TextMap
  <2>3. TextMap[o] = TextOf(o)
    BY <1>1 DEF TextMap
  <2> QED
    BY <1>1, <2>1, <2>2, <2>3 DEF With
<1>13. KeptMap' = KeptMap
  BY <1>1, UntouchedKept
<1>14. o \in DOMAIN TextMap /\ p \notin DOMAIN TextMap
  BY <1>1 DEF TextMap
<1>15. DOMAIN object' \subseteq Objects
  BY <1>5 DEF TextInv
<1> QED
  BY <1>2, <1>5, <1>6, <1>10, <1>11, <1>12, <1>13, <1>14, <1>15 DEF TextInv

\* The record of o becomes x, and its block b, with these cells.
Overwrites(o, x, b, cells) ==
  /\ object' = [object EXCEPT ![o] = x] /\ kept' = kept
  /\ x.raw = b /\ b # NULL /\ heap'[b] = cells
  /\ \A a \in DOMAIN heap \ {Raw(o)} : heap'[a] = heap[a]
  /\ Sound(x) /\ Fits(x, cells)

TextBecomes(o, t) ==
  /\ o \in DOMAIN TextMap
  /\ TextMap' = [TextMap EXCEPT ![o] = t] /\ KeptMap' = KeptMap

\* A text is written over: only its own object shows it.
LEMMA OverwriteTexts ==
  ASSUME TextInv, OwnerInv', NEW o \in Usable, NEW x, NEW b, NEW cells, Overwrites(o, x, b, cells)
  PROVE  TextInv' /\ TextBecomes(o, CString(cells))
<1> USE DEF Overwrites
<1>1. o \in DOMAIN object /\ Raw(o) # NULL /\ Raw(o) \notin kept
  BY UsableHasText
<1>2. /\ DOMAIN object' = DOMAIN object
      /\ \A q \in DOMAIN object \ {o} : object'[q] = object[q]
      /\ object'[o] = x
  BY <1>1
<1>3. \A q \in DOMAIN object \ {o} : Raw(q) # NULL => heap'[Raw(q)] = heap[Raw(q)]
  BY <1>1 DEF TextInv, OwnerInv, Owners
<1>4. \A q \in DOMAIN object \ {o} : TextOf(q)' = TextOf(q) /\ Good(q)'
  BY <1>2, <1>3, Untouched DEF TextInv
<1>5. Raw(o)' = b
  BY <1>2 DEF Raw
<1>6. Good(o)' /\ TextOf(o)' = CString(cells)
  BY <1>2, <1>5 DEF Good, TextOf
<1>7. TextMap' = [TextMap EXCEPT ![o] = CString(cells)]
  <2>1. TextMap' = [q \in DOMAIN object |-> IF q = o THEN CString(cells) ELSE TextOf(q)]
    BY <1>1, <1>2, <1>4, <1>6 DEF TextMap
  <2> QED
    BY <1>1, <2>1 DEF TextMap
<1>8. KeptMap' = KeptMap
  <2>1. \A a \in kept : heap'[a] = heap[a]
    BY <1>1 DEF TextInv, OwnerInv, Owners
  <2> QED
    BY <2>1, UntouchedKept
<1>9. o \in DOMAIN TextMap
  BY <1>1 DEF TextMap
<1> QED
  BY <1>2, <1>4, <1>6, <1>7, <1>8, <1>9 DEF TextInv, TextBecomes

\* Clearing leaves an empty text.
LEMMA ClearTexts ==
  ASSUME TextInv, NEW o \in Usable, Clear(o)
  PROVE  TextInv' /\ TextBecomes(o, << >>)
<1> DEFINE x == [class |-> object[o].class, raw |-> Raw(o), size |-> object[o].size, len |-> 0]
           cells == heap[Raw(o)]
           cleared == [cells EXCEPT ![0] = NUL]
<1>1. /\ o \in DOMAIN object /\ Raw(o) # NULL /\ Raw(o) \in DOMAIN heap
      /\ Sound(object[o]) /\ Fits(object[o], cells)
  BY UsableHasText
<1>2. /\ object[o].class = Resizable /\ object' = [object EXCEPT ![o].len = 0]
      /\ heap' = [heap EXCEPT ![Raw(o)] = Forget(cleared)] /\ kept' = kept
  BY DEF Clear, Raw
<1>3. [object[o] EXCEPT !.len = 0] = x
  BY <1>1 DEF TextInv, OwnerInv, ObjectsAreRecords, Raw
<1>4. object' = [object EXCEPT ![o] = x]
  BY <1>2, <1>3
<1>5. PICK n : IsText(cells, object[o].size, n)
  BY <1>1 DEF Fits
<1>6. IsText(cleared, object[o].size, 0)
  <2>1. 0 \in 0..n
    BY <1>5 DEF IsText
  <2> QED
    BY <1>5, <2>1, CutIsText
<1> HIDE DEF cleared, cells
<1>7. IsText(Forget(cleared), object[o].size, 0)
  BY <1>6, ForgetIsText
<1>8. CString(Forget(cleared)) = << >>
  BY <1>7, CStringIs, EmptySeq
<1>9. Sound(x) /\ Fits(x, Forget(cleared)) /\ x.raw = Raw(o)
  <2>1. Sound(x) /\ x.raw = Raw(o) /\ x.size = object[o].size /\ x.len = 0 /\ x.class # Base
    BY <1>1, <1>2 DEF Sound, Base, Resizable
  <2> QED
    BY <1>7, <2>1 DEF Fits
<1>10. OwnerInv'
  BY ClearOwners DEF TextInv
<1>11. heap'[Raw(o)] = Forget(cleared) /\ \A a \in DOMAIN heap \ {Raw(o)} : heap'[a] = heap[a]
  BY <1>1, <1>2
<1> HIDE DEF x
<1>12. Overwrites(o, x, Raw(o), Forget(cleared))
  BY <1>1, <1>2, <1>4, <1>9, <1>11 DEF Overwrites
<1>13. TextInv' /\ TextBecomes(o, CString(Forget(cleared)))
  BY <1>10, <1>12, OverwriteTexts
<1> QED
  BY <1>8, <1>13
\* An appended string takes the place of the old one, in the same block or another.
LEMMA StoreTexts ==
  ASSUME TextInv, NEW o \in Usable, NEW s, NEW y, NEW b \in Blocks,
         Appended(y, heap[Raw(o)], s), Store(o, y, b)
  PROVE  /\ TextInv'
         /\ TextBecomes(o, TextOf(o) \o s) \/ TextBecomes(o, TextOf(o))
<1>1. PICK c, size, n, successes, grown, result :
        /\ y = Str(c, size, n, successes, grown, result)
        /\ MinimalSize <= size /\ IsText(c, size, n)
        /\ CString(c) = CString(heap[Raw(o)]) \o s \/ CString(c) = CString(heap[Raw(o)])
  BY Zenon DEF Appended
<1> DEFINE x == [class |-> Resizable, raw |-> b, size |-> size, len |-> n]
<1>2. y.size = size /\ y.len = n /\ y.cells = c
  BY <1>1 DEF Str
<1>3. /\ object' = [object EXCEPT ![o] = x] /\ kept' = kept
      /\ heap' = With(Without(heap, Raw(o)), b, Forget(c))
      /\ b \notin DOMAIN heap \/ b = Raw(o)
  BY <1>2 DEF Store, Raw, FreeBlocks
<1>4. b # NULL
  BY StringsAssumption DEF StringsAssumption
<1>5. heap'[b] = Forget(c) /\ \A a \in DOMAIN heap \ {Raw(o)} : heap'[a] = heap[a]
  <2>1. heap'[b] = Forget(c)
    BY <1>3 DEF With
  <2>2. ASSUME NEW a \in DOMAIN heap \ {Raw(o)} PROVE heap'[a] = heap[a]
    <3>1. a # b
      BY <1>3
    <3>2. a \in DOMAIN Without(heap, Raw(o)) /\ Without(heap, Raw(o))[a] = heap[a]
      BY Loses
    <3> QED
      BY <1>3, <3>1, <3>2 DEF With
  <2> QED
    BY <2>1, <2>2
<1>6. IsText(Forget(c), size, n) /\ CString(Forget(c)) = CString(c)
  BY <1>1, ForgetIsText
<1>7. Sound(x) /\ Fits(x, Forget(c)) /\ x.raw = b
  <2>1. size \in Nat /\ n \in Nat
    BY <1>1 DEF IsText
  <2>2. Sound(x)
    BY <1>1, <2>1 DEF Sound
  <2>3. x.size = size /\ x.len = n /\ x.class # Base /\ x.raw = b
    BY DEF Base, Resizable
  <2> HIDE DEF x
  <2> QED
    BY <1>6, <2>2, <2>3 DEF Fits
<1>8. OwnerInv'
  BY StoreOwners DEF TextInv
<1> HIDE DEF x
<1>9. Overwrites(o, x, b, Forget(c))
  BY <1>3, <1>4, <1>5, <1>7 DEF Overwrites
<1>10. TextInv' /\ TextBecomes(o, CString(Forget(c)))
  BY <1>8, <1>9, OverwriteTexts
<1>11. TextOf(o) = CString(heap[Raw(o)])
  BY UsableHasText
<1>12. CString(Forget(c)) = TextOf(o) \o s \/ CString(Forget(c)) = TextOf(o)
  BY <1>1, <1>6, <1>11
<1> QED
  BY <1>10, <1>12

\* The string that append_c and append_str begin with.
LEMMA ExtendedIs ==
  ASSUME TextInv, NEW o \in Usable, object[o].class = Resizable, NEW successes
  PROVE  \E size, n : /\ Extended(o, successes) = Str(heap[Raw(o)], size, n, successes, FALSE, 0)
                      /\ IsText(heap[Raw(o)], size, n) /\ MinimalSize <= size
<1>1. Sound(object[o]) /\ Fits(object[o], heap[Raw(o)])
  BY UsableHasText
<1>2. PICK n : IsText(heap[Raw(o)], object[o].size, n) /\ object[o].len = n
  BY <1>1 DEF Fits, Base, Resizable
<1>3. Extended(o, successes) = Str(heap[Raw(o)], object[o].size, n, successes, FALSE, 0)
  BY <1>2 DEF Extended, Str, Raw
<1> QED
  BY <1>1, <1>2, <1>3 DEF Sound

LEMMA AppendStrTexts ==
  ASSUME TextInv, NEW o \in Usable, NEW b \in Blocks, NEW successes, NEW s \in Texts,
         ResizableAppendStr(o, s, successes, b)
  PROVE  TextInv' /\ (TextBecomes(o, TextOf(o) \o s) \/ TextBecomes(o, TextOf(o)))
<1>1. s \in Seq(Chars)
  BY StringsAssumption DEF StringsAssumption
<1>2. object[o].class = Resizable /\ Store(o, AppendStr(Extended(o, successes), s), b)
  BY DEF ResizableAppendStr
<1>3. Appended(AppendStr(Extended(o, successes), s), heap[Raw(o)], s)
  BY <1>1, <1>2, ExtendedIs, AppendStrAppends
<1> PICK y : y = AppendStr(Extended(o, successes), s)
  OBVIOUS
<1> QED
  BY <1>2, <1>3, StoreTexts

LEMMA AppendCTexts ==
  ASSUME TextInv, NEW o \in Usable, NEW b \in Blocks, NEW successes, NEW c \in Letters,
         ResizableAppendC(o, c, successes, b)
  PROVE  TextInv' /\ (TextBecomes(o, TextOf(o) \o <<c>>) \/ TextBecomes(o, TextOf(o)))
<1>1. c \in Chars
  BY DEF Chars
<1>2. object[o].class = Resizable /\ Store(o, AppendC(Extended(o, successes), c), b)
  BY DEF ResizableAppendC
<1>3. Appended(AppendC(Extended(o, successes), c), heap[Raw(o)], <<c>>)
  BY <1>1, <1>2, ExtendedIs, AppendCAppends
<1> PICK y, s : y = AppendC(Extended(o, successes), c) /\ s = <<c>>
  OBVIOUS
<1> QED
  BY <1>2, <1>3, StoreTexts

\* An object goes, and so does its text or it stays with the caller.
LEMMA EndTexts ==
  ASSUME TextInv, NEW o \in DOMAIN object, object' = Without(object, o),
         \/ heap' = Without(heap, Raw(o)) /\ kept' = kept
         \/ heap' = heap /\ kept' = kept \cup {Raw(o)} /\ Raw(o) # NULL
  PROVE  TextInv' /\ TextMap' = Without(TextMap, o)
<1>1. /\ DOMAIN object' = DOMAIN object \ {o}
      /\ \A q \in DOMAIN object \ {o} : object'[q] = object[q]
  BY Loses
<1>2. \A q \in DOMAIN object \ {o} : Raw(q) # NULL => Raw(q) \in DOMAIN heap \ {Raw(o)}
  BY DEF TextInv, OwnerInv, Owners
<1>3. \A q \in DOMAIN object \ {o} : Raw(q) # NULL => heap'[Raw(q)] = heap[Raw(q)]
  <2>1. \A a \in DOMAIN heap \ {Raw(o)} : Without(heap, Raw(o))[a] = heap[a]
    BY Loses
  <2> QED
    BY <1>2, <2>1
<1>4. \A q \in DOMAIN object \ {o} : TextOf(q)' = TextOf(q) /\ Good(q)'
  BY <1>1, <1>3, Untouched DEF TextInv
<1>5. OwnerInv'
  BY EndOwners DEF TextInv
<1>6. TextMap' = Without(TextMap, o)
  <2>1. TextMap' = [q \in DOMAIN object \ {o} |-> TextOf(q)]
    BY <1>1, <1>4 DEF TextMap
  <2>2. DOMAIN TextMap = DOMAIN object
    BY DEF TextMap
  <2>3. Without(TextMap, o) = [q \in DOMAIN object \ {o} |-> TextMap[q]]
    BY <2>2 DEF Without, Restrict
  <2>4. \A q \in DOMAIN object \ {o} : TextMap[q] = TextOf(q)
    BY DEF TextMap
  <2> QED
    BY <2>1, <2>3, <2>4
<1> QED
  BY <1>1, <1>4, <1>5, <1>6 DEF TextInv

LEMMA DeleteTexts ==
  ASSUME TextInv, NEW o \in DOMAIN object, Delete(o)
  PROVE  TextInv' /\ TextMap' = Without(TextMap, o) /\ KeptMap' = KeptMap
<1>1. /\ object' = Without(object, o) /\ heap' = Without(heap, Raw(o)) /\ kept' = kept
  BY DEF Delete, Raw
<1>2. TextInv' /\ TextMap' = Without(TextMap, o)
  BY <1>1, EndTexts
<1>3. \A b \in kept : b \in DOMAIN heap \ {Raw(o)}
  <2>1. NULL \notin DOMAIN heap
    BY StringsAssumption DEF StringsAssumption, TextInv, OwnerInv
  <2> QED
    BY <2>1 DEF TextInv, OwnerInv, Owners
<1>4. \A b \in kept : heap'[b] = heap[b]
  BY <1>1, <1>3, Loses
<1> QED
  BY <1>1, <1>2, <1>4, UntouchedKept

LEMMA RawDestructiveTexts ==
  ASSUME TextInv, NEW o \in Usable, RawDestructive(o)
  PROVE  /\ TextInv' /\ TextMap' = Without(TextMap, o)
         /\ Raw(o) \in Blocks \ DOMAIN KeptMap /\ KeptMap' = With(KeptMap, Raw(o), TextOf(o))
<1>1. /\ o \in DOMAIN object /\ Raw(o) # NULL /\ Raw(o) \in DOMAIN heap /\ Raw(o) \notin kept
      /\ TextOf(o) = CString(heap[Raw(o)])
  BY UsableHasText
<1>2. object' = Without(object, o) /\ heap' = heap /\ kept' = kept \cup {Raw(o)}
  BY DEF RawDestructive, Raw
<1>3. TextInv' /\ TextMap' = Without(TextMap, o)
  BY <1>1, <1>2, EndTexts
<1>4. Raw(o) \in Blocks \ DOMAIN KeptMap
  BY <1>1 DEF KeptMap, TextInv, OwnerInv
<1>5. KeptMap' = With(KeptMap, Raw(o), TextOf(o))
  BY <1>1, <1>2 DEF KeptMap, With
<1> QED
  BY <1>3, <1>4, <1>5

LEMMA FreeTexts ==
  ASSUME TextInv, NEW b \in kept, Free(b)
  PROVE  /\ TextInv' /\ TextMap' = TextMap
         /\ b \in Blocks /\ b \in DOMAIN KeptMap /\ KeptMap' = Without(KeptMap, b)
<1>1. heap' = Without(heap, b) /\ kept' = kept \ {b} /\ object' = object
  BY DEF Free
<1>2. \A q \in DOMAIN object : Raw(q) # NULL => Raw(q) \in DOMAIN heap \ {b}
  BY DEF TextInv, OwnerInv, Owners
<1>3. \A q \in DOMAIN object : Raw(q) # NULL => heap'[Raw(q)] = heap[Raw(q)]
  BY <1>1, <1>2, Loses
<1>4. \A q \in DOMAIN object : TextOf(q)' = TextOf(q) /\ Good(q)'
  BY <1>1, <1>3, Untouched DEF TextInv
<1>5. TextMap' = TextMap
  BY <1>1, <1>4 DEF TextMap
<1>6. OwnerInv'
  BY FreeOwners DEF TextInv
<1>7. b \in Blocks /\ b \in DOMAIN KeptMap
  BY DEF KeptMap, TextInv, OwnerInv, Owners
<1>8. KeptMap' = Without(KeptMap, b)
  <2>1. \A a \in kept \ {b} : a \in DOMAIN heap \ {b}
    BY DEF TextInv, OwnerInv, Owners
  <2>2. \A a \in kept \ {b} : heap'[a] = heap[a]
    BY <1>1, <2>1, Loses
  <2>3. KeptMap' = [a \in kept \ {b} |-> CString(heap[a])]
    BY <1>1, <2>2 DEF KeptMap
  <2>4. Without(KeptMap, b) = [a \in kept \ {b} |-> KeptMap[a]]
    BY DEF KeptMap, Without, Restrict
  <2>5. \A a \in kept \ {b} : KeptMap[a] = CString(heap[a])
    BY DEF KeptMap
  <2> QED
    BY <2>3, <2>4, <2>5
<1> QED
  BY <1>1, <1>4, <1>5, <1>6, <1>7, <1>8 DEF TextInv
-----------------------------------------------------------------------------
(***************************************************************************)
(* The steps together.                                                     *)
(***************************************************************************)
\* The two maps are what Strings.tla puts for the variables of Text.tla.
Mapped ==
  /\ TextMap = [o \in DOMAIN object |->
                  IF o \notin Usable THEN NULL ELSE CString(heap[object[o].raw])]
  /\ KeptMap = [b \in kept |-> CString(heap[b])]

LEMMA MapsAreMapped == Mapped /\ Mapped'
<1>1. Mapped
  BY DEF Mapped, TextMap, KeptMap, TextOf, Usable, Raw
<1> QED
  BY <1>1, PTL

\* So a step of Text.tla can be told from the two maps.
LEMMA StepsOfMaps ==
  ASSUME NEW o, NEW p, NEW t, NEW b
  PROVE  /\ T!Create(o, t) <=> /\ o \in Objects \ DOMAIN TextMap
                               /\ TextMap' = With(TextMap, o, t) /\ KeptMap' = KeptMap
         /\ T!Copy(o, p) <=> /\ o \in DOMAIN TextMap /\ TextMap[o] # NULL
                             /\ p \in Objects \ DOMAIN TextMap
                             /\ TextMap' = With(TextMap, p, TextMap[o]) /\ KeptMap' = KeptMap
         /\ T!Transfer(o, p) <=> /\ o \in DOMAIN TextMap /\ TextMap[o] # NULL
                                 /\ p \in Objects \ DOMAIN TextMap
                                 /\ TextMap' = With([TextMap EXCEPT ![o] = NULL], p, TextMap[o])
                                 /\ KeptMap' = KeptMap
         /\ T!Empty(o) <=> /\ o \in DOMAIN TextMap /\ TextMap[o] # NULL
                           /\ TextMap' = [TextMap EXCEPT ![o] = << >>] /\ KeptMap' = KeptMap
         /\ T!Extend(o, t) <=> /\ o \in DOMAIN TextMap /\ TextMap[o] # NULL
                               /\ TextMap' = [TextMap EXCEPT ![o] = TextMap[o] \o t]
                               /\ KeptMap' = KeptMap
         /\ T!Remove(o) <=> /\ o \in DOMAIN TextMap
                            /\ TextMap' = Without(TextMap, o) /\ KeptMap' = KeptMap
         /\ T!HandOut(o, b) <=> /\ o \in DOMAIN TextMap /\ TextMap[o] # NULL
                                /\ b \in Blocks \ DOMAIN KeptMap
                                /\ TextMap' = Without(TextMap, o)
                                /\ KeptMap' = With(KeptMap, b, TextMap[o])
         /\ T!Dispose(b) <=> /\ b \in DOMAIN KeptMap
                             /\ KeptMap' = Without(KeptMap, b) /\ TextMap' = TextMap
<1> DEFINE tm == [q \in DOMAIN object |->
                  IF q \notin Usable THEN NULL ELSE CString(heap[object[q].raw])]
           km == [a \in kept |-> CString(heap[a])]
<1>1. TextMap = tm /\ KeptMap = km /\ TextMap' = tm' /\ KeptMap' = km'
  BY MapsAreMapped DEF Mapped
<1>2. T!Create(o, t) <=> /\ o \in Objects \ DOMAIN tm /\ tm' = With(tm, o, t) /\ km' = km
  BY DEF T!Create, T!Fresh, T!With, With
<1>3. T!Copy(o, p) <=> /\ o \in DOMAIN tm /\ tm[o] # NULL /\ p \in Objects \ DOMAIN tm
                       /\ tm' = With(tm, p, tm[o]) /\ km' = km
  BY DEF T!Copy, T!Usable, T!Create, T!Fresh, T!With, With
<1>4. T!Transfer(o, p) <=> /\ o \in DOMAIN tm /\ tm[o] # NULL
                           /\ p \in Objects \ DOMAIN tm
                           /\ tm' = With([tm EXCEPT ![o] = NULL], p, tm[o]) /\ km' = km
  BY DEF T!Transfer, T!Usable, T!Fresh, T!With, With
<1>5. T!Empty(o) <=> /\ o \in DOMAIN tm /\ tm[o] # NULL
                     /\ tm' = [tm EXCEPT ![o] = << >>] /\ km' = km
  BY DEF T!Empty, T!Usable
<1>6. T!Extend(o, t) <=> /\ o \in DOMAIN tm /\ tm[o] # NULL
                         /\ tm' = [tm EXCEPT ![o] = tm[o] \o t] /\ km' = km
  BY DEF T!Extend, T!Usable
<1>7. T!Remove(o) <=> o \in DOMAIN tm /\ tm' = Without(tm, o) /\ km' = km
  BY DEF T!Remove, T!Without, Without, T!Restrict, Restrict
<1>8. T!HandOut(o, b) <=> /\ o \in DOMAIN tm /\ tm[o] # NULL /\ b \in Blocks \ DOMAIN km
                          /\ tm' = Without(tm, o) /\ km' = With(km, b, tm[o])
  BY DEF T!HandOut, T!Usable, T!With, T!Without, With, Without, T!Restrict, Restrict
<1>9. T!Dispose(b) <=> b \in DOMAIN km /\ km' = Without(km, b) /\ tm' = tm
  BY DEF T!Dispose, T!Without, Without, T!Restrict, Restrict
<1> HIDE DEF tm, km
<1>10. T!Create(o, t) <=> /\ o \in Objects \ DOMAIN TextMap
                        /\ TextMap' = With(TextMap, o, t) /\ KeptMap' = KeptMap
  BY <1>1, <1>2
<1>11. T!Copy(o, p) <=> /\ o \in DOMAIN TextMap /\ TextMap[o] # NULL
                      /\ p \in Objects \ DOMAIN TextMap
                      /\ TextMap' = With(TextMap, p, TextMap[o]) /\ KeptMap' = KeptMap
  BY <1>1, <1>3
<1>12. T!Transfer(o, p) <=> /\ o \in DOMAIN TextMap /\ TextMap[o] # NULL
                          /\ p \in Objects \ DOMAIN TextMap
                          /\ TextMap' = With([TextMap EXCEPT ![o] = NULL], p, TextMap[o])
                          /\ KeptMap' = KeptMap
  BY <1>1, <1>4
<1>13. T!Empty(o) <=> /\ o \in DOMAIN TextMap /\ TextMap[o] # NULL
                    /\ TextMap' = [TextMap EXCEPT ![o] = << >>] /\ KeptMap' = KeptMap
  BY <1>1, <1>5
<1>14. T!Extend(o, t) <=> /\ o \in DOMAIN TextMap /\ TextMap[o] # NULL
                        /\ TextMap' = [TextMap EXCEPT ![o] = TextMap[o] \o t]
                        /\ KeptMap' = KeptMap
  BY <1>1, <1>6
<1>15. T!Remove(o) <=> /\ o \in DOMAIN TextMap
                     /\ TextMap' = Without(TextMap, o) /\ KeptMap' = KeptMap
  BY <1>1, <1>7
<1>16. T!HandOut(o, b) <=> /\ o \in DOMAIN TextMap /\ TextMap[o] # NULL
                         /\ b \in Blocks \ DOMAIN KeptMap
                         /\ TextMap' = Without(TextMap, o)
                         /\ KeptMap' = With(KeptMap, b, TextMap[o])
  BY <1>1, <1>8
<1>17. T!Dispose(b) <=> /\ b \in DOMAIN KeptMap
                      /\ KeptMap' = Without(KeptMap, b) /\ TextMap' = TextMap
  BY <1>1, <1>9
<1> QED
  BY ONLY <1>10, <1>11, <1>12, <1>13, <1>14, <1>15, <1>16, <1>17
\* The text of an object changes to t, or stays if that is what it was.
LEMMA TextStays ==
  ASSUME NEW o, TextBecomes(o, TextOf(o))
  PROVE  TextMap' = TextMap /\ KeptMap' = KeptMap
BY DEF TextBecomes, TextMap

LEMMA StuttersOfMaps ==
  ASSUME TextMap' = TextMap, KeptMap' = KeptMap
  PROVE  UNCHANGED T!vars
BY MapsAreMapped DEF Mapped, T!vars

LEMMA ExtendsOfMaps ==
  ASSUME TextInv, NEW o \in Usable, NEW s, TextBecomes(o, TextOf(o) \o s)
  PROVE  T!Extend(o, s)
<1>1. o \in DOMAIN TextMap /\ TextMap[o] = TextOf(o) /\ TextOf(o) # NULL
  BY UsableHasText DEF TextMap
<1>2. TextMap' = [TextMap EXCEPT ![o] = TextMap[o] \o s] /\ KeptMap' = KeptMap
  BY <1>1 DEF TextBecomes
<1> QED
  BY <1>1, <1>2, StepsOfMaps

\* What a constructor writes is the text it was given.
LEMMA NewIsCreate ==
  ASSUME TextInv, NEW o \in Objects, NEW b, NEW class \in {Base, Resizable}, NEW t \in Texts,
         StringNew(o, class, t, b)
  PROVE  TextInv' /\ T!Create(o, t)
<1> DEFINE size == SizeFor(Len(t))
           cells == Strcpy(t, size)
           len == IF class = Base THEN 0 ELSE BaseLen(size, cells)
<1>1. t \in Seq(Chars) /\ Len(t) \in Nat
  BY StringsAssumption DEF StringsAssumption
<1>2. size \in Nat /\ Len(t) < size /\ MinimalSize <= size /\ (size = MinimalSize \/ size = Len(t) + 1)
  BY <1>1, Sizes DEF SizeFor
<1>3. Construct(o, class, b, cells, len)
  BY DEF StringNew
<1> HIDE DEF size
<1>4. IsText(cells, size, Len(t)) /\ CString(cells) = t
  BY <1>1, <1>2, StrcpyIsText
<1> HIDE DEF cells
<1>5. BaseLen(size, cells) = Len(t)
  <2>1. StrLen(cells) = Len(t)
    BY <1>4, StrLenIs
  <2> QED
    BY <1>1, <1>2, <2>1 DEF BaseLen
<1>6. len \in Nat /\ (class # Base => len = Len(t))
  BY <1>1, <1>5
<1> HIDE DEF len
<1>7. /\ TextInv' /\ o \notin DOMAIN TextMap
      /\ TextMap' = With(TextMap, o, CString(cells)) /\ KeptMap' = KeptMap
  <2>1. IF class = Base THEN size = MinimalSize \/ size = Len(t) + 1 ELSE len = Len(t)
    BY <1>2, <1>6
  <2> QED
    BY <1>2, <1>3, <1>4, <1>6, <2>1, ConstructTexts
<1> QED
  BY <1>4, <1>7, StepsOfMaps

\* resizable_char_buffer leaves an empty text.
LEMMA BufferIsCreate ==
  ASSUME TextInv, NEW o \in Objects, NEW b, NEW n \in BufferLens, CharBuffer(o, n, b)
  PROVE  TextInv' /\ T!Create(o, << >>)
<1> DEFINE size == SizeFor(n)
           junk == [i \in 1..n |-> Junk]
           cells == [Strcpy(junk, size) EXCEPT ![0] = NUL]
<1>1. n \in Nat /\ size \in Nat /\ MinimalSize <= size /\ 0 \in 0..(size - 1)
  BY StringsAssumption, Sizes DEF StringsAssumption, SizeFor
<1>2. Construct(o, Resizable, b, Forget(cells), 0)
  BY DEF CharBuffer
<1> HIDE DEF size, junk
<1>3. IsText(cells, size, 0)
  <2>1. DOMAIN Strcpy(junk, size) = 0..(size - 1)
    BY DEF Strcpy
  <2>2. cells = [i \in 0..(size - 1) |-> cells[i]] /\ cells[0] = NUL
    BY <1>1, <2>1
  <2> HIDE DEF cells
  <2>3. \A i \in 0..(0 - 1) : FALSE
    OBVIOUS
  <2> QED
    BY <1>1, <2>2, <2>3 DEF IsText
<1> HIDE DEF cells
<1>4. IsText(Forget(cells), size, 0)
  BY <1>3, ForgetIsText
<1>5. CString(Forget(cells)) = << >>
  BY <1>4, CStringIs, EmptySeq
<1>6. /\ TextInv' /\ o \notin DOMAIN TextMap
      /\ TextMap' = With(TextMap, o, CString(Forget(cells))) /\ KeptMap' = KeptMap
  <2>1. Resizable \in {Base, Resizable} /\ Resizable # Base
    BY DEF Base, Resizable
  <2> QED
    BY <1>1, <1>2, <1>4, <2>1, ConstructTexts
<1> QED
  BY <1>5, <1>6, StepsOfMaps

\* A clone has the text of its original.
LEMMA CloneIsCopy ==
  ASSUME TextInv, NEW o \in Usable, NEW p \in Objects, NEW b, Clone(o, p, b)
  PROVE  TextInv' /\ T!Copy(o, p)
<1> DEFINE x == object[o]
           t == CString(heap[Raw(o)])
           cells == Strcpy(t, x.size)
<1>1. /\ o \in DOMAIN object /\ Sound(x) /\ Fits(x, heap[Raw(o)])
      /\ TextOf(o) = t /\ TextOf(o) # NULL
  BY UsableHasText
<1>2. Construct(p, x.class, b, cells, x.len)
  BY DEF Clone, Raw
<1>3. PICK n : /\ IsText(heap[Raw(o)], x.size, n)
               /\ IF x.class = Base THEN x.size = MinimalSize \/ x.size = n + 1 ELSE x.len = n
  BY <1>1 DEF Fits
<1>4. t \in Seq(Chars) /\ Len(t) = n
  BY <1>3, CStringIs
<1> HIDE DEF t
<1>5. x.size \in Nat /\ n < x.size
  BY <1>3 DEF IsText
<1> HIDE DEF x
<1>6. IsText(cells, x.size, n) /\ CString(cells) = t
  BY <1>4, <1>5, StrcpyIsText
<1> HIDE DEF cells
<1>7. /\ TextInv' /\ p \notin DOMAIN TextMap
      /\ TextMap' = With(TextMap, p, CString(cells)) /\ KeptMap' = KeptMap
  <2> PICK class, size, len : class = x.class /\ size = x.size /\ len = x.len
    OBVIOUS
  <2>1. /\ class \in {Base, Resizable} /\ len \in Nat /\ MinimalSize <= size
        /\ Construct(p, class, b, cells, len) /\ IsText(cells, size, n)
        /\ IF class = Base THEN size = MinimalSize \/ size = n + 1 ELSE len = n
    BY <1>1, <1>2, <1>3, <1>6 DEF Sound
  <2> QED
    BY <2>1, ConstructTexts
<1>8. o \in DOMAIN TextMap /\ TextMap[o] = t
  BY <1>1 DEF TextMap
<1> QED
  BY <1>1, <1>6, <1>7, <1>8, StepsOfMaps

\* The actions of Text.tla.
LEMMA NextOfMaps ==
  /\ \A o \in Objects, t \in Texts \cup {<<c>> : c \in Letters} :
       T!Create(o, t) \/ T!Extend(o, t) => T!Next
  /\ \A o, p \in Objects : T!Copy(o, p) \/ T!Transfer(o, p) => T!Next
  /\ \A o \in Objects : T!Empty(o) \/ T!Remove(o) => T!Next
  /\ \A o \in Objects, b \in Blocks : T!HandOut(o, b) => T!Next
  /\ \A b \in Blocks : T!Dispose(b) => T!Next
BY DEF T!Next

LEMMA TextInvInductive ==
  /\ Init => TextInv /\ T!Init
  /\ TextInv /\ [Next]_vars => TextInv' /\ [T!Next]_(T!vars)
<1>1. Init => TextInv
  BY OwnerInvInductive DEF Init, TextInv
<1>2. Init => T!Init
  BY DEF Init, T!Init
<1>3. ASSUME TextInv, [Next]_vars PROVE TextInv' /\ [T!Next]_(T!vars)
  <2>1. ASSUME NEW o \in Objects, NEW b \in FreeBlocks,
               NEW class \in {Base, Resizable}, NEW t \in Texts, StringNew(o, class, t, b)
        PROVE  TextInv' /\ T!Create(o, t)
    BY <1>3, <2>1, NewIsCreate
  <2>2. ASSUME NEW o \in Objects, NEW b \in FreeBlocks, NEW n \in BufferLens, CharBuffer(o, n, b)
        PROVE  TextInv' /\ T!Create(o, << >>)
    BY <1>3, <2>2, BufferIsCreate
  <2>3. ASSUME NEW o \in Usable, NEW p \in Objects, NEW b \in FreeBlocks, Clone(o, p, b)
        PROVE  TextInv' /\ T!Copy(o, p)
    BY <1>3, <2>3, CloneIsCopy
  <2>4. ASSUME NEW o \in Usable, NEW p \in Objects, Move(o, p)
        PROVE  TextInv' /\ T!Transfer(o, p)
    <3>1. /\ TextInv' /\ o \in DOMAIN TextMap /\ p \notin DOMAIN TextMap
          /\ TextMap' = With([TextMap EXCEPT ![o] = NULL], p, TextMap[o]) /\ KeptMap' = KeptMap
      BY <1>3, <2>4, MoveTexts
    <3>2. TextMap[o] # NULL
      BY <1>3, UsableHasText DEF TextMap
    <3> QED
      BY <3>1, <3>2, StepsOfMaps
  <2>5. ASSUME NEW o \in Usable, Clear(o)
        PROVE  TextInv' /\ T!Empty(o)
    <3>1. TextInv' /\ TextBecomes(o, << >>)
      BY <1>3, <2>5, ClearTexts
    <3>2. TextMap[o] # NULL
      BY <1>3, UsableHasText DEF TextMap
    <3> QED
      BY <3>1, <3>2, StepsOfMaps DEF TextBecomes
  <2>6. ASSUME NEW o \in Usable, NEW s \in Texts, NEW n \in Successes, NEW b \in Blocks,
               ResizableAppendStr(o, s, n, b)
        PROVE  TextInv' /\ (T!Extend(o, s) \/ UNCHANGED T!vars)
    BY <1>3, <2>6, AppendStrTexts, ExtendsOfMaps, TextStays, StuttersOfMaps
  <2>7. ASSUME NEW o \in Usable, NEW c \in Letters, NEW n \in {0, 1}, NEW b \in Blocks,
               ResizableAppendC(o, c, n, b)
        PROVE  TextInv' /\ (T!Extend(o, <<c>>) \/ UNCHANGED T!vars)
    BY <1>3, <2>7, AppendCTexts, ExtendsOfMaps, TextStays, StuttersOfMaps
  <2>8. ASSUME NEW o \in Usable, RawDestructive(o)
        PROVE  TextInv' /\ \E b \in Blocks : T!HandOut(o, b)
    <3>1. /\ TextInv' /\ TextMap' = Without(TextMap, o)
          /\ Raw(o) \in Blocks \ DOMAIN KeptMap /\ KeptMap' = With(KeptMap, Raw(o), TextOf(o))
      BY <1>3, <2>8, RawDestructiveTexts
    <3>2. o \in DOMAIN TextMap /\ TextMap[o] # NULL /\ TextMap[o] = TextOf(o)
      BY <1>3, UsableHasText DEF TextMap
    <3> PICK b : b = Raw(o)
      OBVIOUS
    <3>3. b \in Blocks /\ T!HandOut(o, b)
      BY <3>1, <3>2, StepsOfMaps
    <3> QED
      BY <3>1, <3>3
  <2>9. ASSUME NEW o \in DOMAIN object, Delete(o)
        PROVE  TextInv' /\ T!Remove(o)
    <3>1. TextInv' /\ TextMap' = Without(TextMap, o) /\ KeptMap' = KeptMap
      BY <1>3, <2>9, DeleteTexts
    <3>2. o \in DOMAIN TextMap
      BY DEF TextMap
    <3> QED
      BY <3>1, <3>2, StepsOfMaps
  <2>10. ASSUME NEW b \in kept, Free(b)
         PROVE  TextInv' /\ T!Dispose(b) /\ b \in Blocks
    <3>1. /\ TextInv' /\ TextMap' = TextMap
          /\ b \in Blocks /\ b \in DOMAIN KeptMap /\ KeptMap' = Without(KeptMap, b)
      BY <1>3, <2>10, FreeTexts
    <3> QED
      BY <3>1, StepsOfMaps
  <2>11. CASE UNCHANGED vars
    <3>1. TextInv'
      BY <1>3, <2>11 DEF vars, TextInv, OwnerInv, ObjectsAreRecords, Owners, Good, Raw
    <3>2. TextMap' = TextMap /\ KeptMap' = KeptMap
      BY <2>11 DEF vars, TextMap, KeptMap, TextOf, Raw
    <3> QED
      BY <3>1, <3>2, StuttersOfMaps
  <2>12. Usable \subseteq Objects /\ DOMAIN object \subseteq Objects
    BY <1>3 DEF TextInv, Usable
  <2>13. << >> \in Texts
    BY StringsAssumption DEF StringsAssumption
  <2>14. ASSUME NEW o \in Objects, NEW b \in FreeBlocks,
                \/ \E class \in {Base, Resizable}, t \in Texts : StringNew(o, class, t, b)
                \/ \E n \in BufferLens : CharBuffer(o, n, b)
         PROVE  TextInv' /\ T!Next
    BY <2>1, <2>2, <2>13, <2>14, NextOfMaps
  <2>15. ASSUME NEW o \in Usable, NEW p \in Objects,
                (\E b \in FreeBlocks : Clone(o, p, b)) \/ Move(o, p)
         PROVE  TextInv' /\ T!Next
    BY <2>3, <2>4, <2>12, <2>15, NextOfMaps
  <2>16. ASSUME NEW o \in Usable, Clear(o) \/ RawDestructive(o)
         PROVE  TextInv' /\ T!Next
    BY <2>5, <2>8, <2>12, <2>16, NextOfMaps
  <2>17. ASSUME NEW o \in Usable, NEW b \in Blocks,
                \/ \E s \in Texts, n \in Successes : ResizableAppendStr(o, s, n, b)
                \/ \E c \in Letters, n \in {0, 1} : ResizableAppendC(o, c, n, b)
         PROVE  TextInv' /\ (T!Next \/ UNCHANGED T!vars)
    BY <2>6, <2>7, <2>12, <2>17, NextOfMaps
  <2>18. ASSUME NEW o \in DOMAIN object, Delete(o)
         PROVE  TextInv' /\ T!Next
    BY <2>9, <2>12, <2>18, NextOfMaps
  <2>19. ASSUME NEW b \in kept, Free(b)
         PROVE  TextInv' /\ T!Next
    BY <2>10, <2>19, NextOfMaps
  <2> QED
    BY <1>3, <2>11, <2>14, <2>15, <2>16, <2>17, <2>18, <2>19 DEF Next
<1> QED
  BY <1>1, <1>2, <1>3
(***************************************************************************)
(* A string's fields have their types, and its pointer is a block in use   *)
(* or the null pointer.                                                    *)
(***************************************************************************)
THEOREM TypeCorrect == Spec => []TypeOK
BY TextInvInductive, TextInvMeansTypeOK, PTL DEF Spec

(***************************************************************************)
(* base_string_len is what strlen finds, in a block of `size' bytes, for   *)
(* strings of any length, after any appends that grow, move or fail.       *)
(***************************************************************************)
THEOREM LengthsAgree == Spec => []LengthIsStrLen
BY TextInvInductive, TextInvMeansLength, PTL DEF Spec

(***************************************************************************)
(* The strings implement Text.tla: append_str gives the whole text or, if  *)
(* any of its reallocations fails, the old one; and an operation on one    *)
(* string, block or clone never shows in another.                          *)
(***************************************************************************)
THEOREM StringsAreTexts == Spec => ImplementsText
<1>1. Init => T!Init
  BY TextInvInductive
<1>2. TextInv /\ [Next]_vars => [T!Next]_(T!vars)
  BY TextInvInductive
<1>3. Init => TextInv
  BY TextInvInductive
<1>4. TextInv /\ [Next]_vars => TextInv'
  BY TextInvInductive
<1> QED
  BY <1>1, <1>2, <1>3, <1>4, PTL DEF Spec, ImplementsText, T!Spec
===============================================================================
