----------------------------- MODULE FlatBuffers -----------------------------
(***************************************************************************)
(* The part of the flatbuffers library that the generated contracts use: a *)
(* builder that fills a buffer from its end, and the reading of tables.    *)
(*                                                                         *)
(* A location is its distance from the end of the buffer.  `heap` is what  *)
(* is at each location that an offset may name; the bytes in between are   *)
(* counted in `used`, padding and vtables included, so that the length of  *)
(* a finished buffer is exact.  A string is [len, text]: how many bytes,   *)
(* and which string it is.                                                 *)
(***************************************************************************)
EXTENDS Integers, Sequences, SequencesExt, FiniteSetsExt

CONSTANT None          \* an optional value that is absent

Padding(n, alignment) == (alignment - (n % alignment)) % alignment

NewBuilder == [used |-> 0, min_align |-> 1, vtables |-> {}, heap |-> << >>, last |-> 0]

\* Pads so that what follows, of length n, starts aligned.
AlignFor(b, n, alignment) ==
    [b EXCEPT !.used = @ + Padding(@ + n, alignment),
              !.min_align = Max({@, alignment})]

Push(b, size, alignment) ==
    LET a == AlignFor(b, size, alignment)
    IN  [a EXCEPT !.used = @ + size]

\* The object just written is `obj`; `last` is the offset the caller gets.
Remember(b, obj) ==
    [b EXCEPT !.last = b.used,
              !.heap = [l \in DOMAIN @ \cup {b.used} |-> IF l = b.used THEN obj ELSE @[l]]]

\* create_string: the bytes, a terminating zero and a length.
CreateString(b, s) ==
    LET a == AlignFor(b, s.len + 1, 4)
    IN  Remember(Push([a EXCEPT !.used = @ + s.len + 1], 4, 4), s)

\* create_vector of elements that have this size and alignment.
CreateVector(b, elements, size, alignment) ==
    LET n == size * Len(elements)
        a == AlignFor(b, n, Max({alignment, 4}))
    IN  Remember(Push([a EXCEPT !.used = @ + n], 4, 4), elements)

\* One field: a scalar is left out when it has its default, an offset or a
\* struct only when it is absent.
AddField(acc, f, size, alignment, isScalar, value) ==
    IF value = None \/ (isScalar /\ value = 0) THEN acc
    ELSE LET b == Push(acc.b, size, alignment)
         IN  [b |-> b, slots |-> acc.slots \cup {[slot |-> f.slot, at |-> b.used, value |-> value]}]

\* end_table: the table's offset to its vtable, and the vtable itself unless
\* the buffer has one like it.
EndTable(start, acc) ==
    LET b == Push(acc.b, 4, 4)
        length == IF acc.slots = {} THEN 4 ELSE Max({s.slot : s \in acc.slots}) + 2
        vtable == [length |-> length,
                   object |-> b.used - start,
                   fields |-> {<<s.slot, b.used - s.at>> : s \in acc.slots}]
        table == [slot \in {s.slot : s \in acc.slots} |->
                     (CHOOSE s \in acc.slots : s.slot = slot).value]
        done == Remember(b, table)
    IN  IF vtable \in b.vtables THEN done
        ELSE [done EXCEPT !.used = @ + length, !.vtables = @ \cup {vtable}]

\* finish: the identifier and the offset of the root, aligned for the whole.
Finish(b, identifier) ==
    LET a == AlignFor(b, 8, Max({b.min_align, 4}))
    IN  [len |-> a.used + 8, root |-> b.last, identifier |-> identifier, heap |-> b.heap]

\* Table::get: what is in a slot, or the default.
GetSlot(table, slot, default) == IF slot \in DOMAIN table THEN table[slot] ELSE default
=============================================================================
