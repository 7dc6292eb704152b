------------------------------- MODULE DynArray -------------------------------
(***************************************************************************)
(* The growing arrays of words of src/containers/dynarray.c, which hold    *)
(* code, data segments, the values of maps and the texts of segments.      *)
(* reserved words are allocated; size is one more than the highest index   *)
(* that was set.  A word outside the allocated memory keeps nothing.       *)
(***************************************************************************)
EXTENDS Integers

CONSTANTS
  Granule,  \* DYNARRAY_GRANUL: the words that an array grows by
  NULL      \* the word that fills new memory: NULL, and no value

ASSUME GranuleAssumption == Granule \in Nat \ {0}

dynarray_init == [reserved |-> 0, size |-> 0, data |-> [i \in {} |-> NULL]]

\* dynarray_reserve: realloc, and zeroes in the new words.
dynarray_reserve(d, new_size) ==
  IF new_size <= d.reserved THEN d
  ELSE [d EXCEPT !.reserved = new_size,
                 !.data = [i \in 0 .. new_size - 1 |->
                             IF i < d.reserved THEN d.data[i] ELSE NULL]]

\* DYNARRAY_QUANTIZE: the first multiple of the granule above the index.
Quantize(x) == ((x + Granule) \div Granule) * Granule

dynarray_set(d, index, v) ==
  LET e == IF d.reserved <= index THEN dynarray_reserve(d, Quantize(index)) ELSE d
  IN  [e EXCEPT !.size = IF @ <= index THEN index + 1 ELSE @,
                !.data = [i \in DOMAIN @ |-> IF i = index THEN v ELSE @[i]]]

dynarray_get(d, index) ==
  IF index < d.size /\ index \in DOMAIN d.data THEN d.data[index] ELSE NULL

\* d->data[index], which most of the machine uses: no check of any size.
Word(d, index, wild) == IF index \in DOMAIN d.data THEN d.data[index] ELSE wild
===============================================================================
