----------------------------- MODULE TextSegments -----------------------------
(***************************************************************************)
(* Maps, the environment of the machine and their symbol tables: a text    *)
(* segment (src/vm/text_seg.c) numbers the names, and two words of a       *)
(* dynamic array hold the type and the datum of the value of each number   *)
(* (src/ops/containers.c).  The segment keeps every name twice, in an      *)
(* array by number and in a hash table by text; the tables must agree, and *)
(* a copy or a reloaded image must give the same numbers.                  *)
(*                                                                         *)
(* Both words of a value are written as the value itself.  Managed values  *)
(* are in RefCounts.                                                       *)
(***************************************************************************)
EXTENDS DynArray, HashTable, Sequences

CONSTANTS
  Texts,      \* the names that programs use
  EmptyText,  \* ""
  Values,
  Wild,       \* what lies outside the memory of an array
  MapStep,    \* 128: the words that mapSet adds to a map at once
  Reclones    \* whether a clone is cloned again

ASSUME TextsAssumption ==
  /\ EmptyText \notin Texts
  /\ Hash \in [Texts \cup {EmptyText} -> Rows]
  /\ MapStep \in Nat /\ MapStep > 2 /\ MapStep % 2 = 0
  /\ Reclones \in BOOLEAN

VARIABLES
  symbols,  \* env->symbols: by_index and by_text
  data,     \* env->data
  cloned    \* history: the map is a clone

map == <<symbols, data, cloned>>

-------------------------------------------------------------------------------
(* Text segments *)

\* text_seg_find_by_text: adds the text, unless the table knows it under a
\* number other than zero.
text_seg_find_by_text(ts, str) ==
  IF hash_find(ts.by_text, str) # HASH_NOVAL THEN ts
  ELSE [by_index |-> dynarray_set(ts.by_index, ts.by_index.size, str),
        by_text |-> hash_addelem(ts.by_text, str, ts.by_index.size)]

text_seg_init ==
  text_seg_find_by_text([by_index |-> dynarray_init, by_text |-> init_hashtab], EmptyText)

text_seg_text_to_index(ts, str) ==
  IF Holds(ts.by_text, str) THEN hash_find_e(ts.by_text, str).e ELSE -1

text_seg_find_by_index(ts, i) ==
  IF i >= ts.by_index.size THEN NULL ELSE dynarray_get(ts.by_index, i)

\* The names in the order of their numbers.
NamesOf(ts) == [i \in 1 .. ts.by_index.size |-> text_seg_find_by_index(ts, i - 1)]

\* The texts of a sequence, one after the other.
AddAll(ts, texts) ==
  LET after[i \in 0 .. Len(texts)] ==
        IF i = 0 THEN ts ELSE text_seg_find_by_text(after[i - 1], texts[i])
  IN  after[Len(texts)]

\* Mutant: a copy that begins with name 0, which the new segment has.
CopyAll(dest, src) == AddAll(dest, NamesOf(src))

text_seg_copy(dest, src) == AddAll(dest, Tail(NamesOf(src)))

\* text_seg_serialize: how many names, then the names.
text_seg_serialize(ts) == [tot |-> ts.by_index.size, strings |-> NamesOf(ts)]

\* Mutant: the first string is taken like the others.
UnserializeAll(ts, image) == AddAll(ts, image.strings)

\* text_seg_unserialize, into a new segment: the first string must be "".
text_seg_unserialize(ts, image) ==
  AddAll([ts EXCEPT !.by_index = dynarray_reserve(@, image.tot)], Tail(image.strings))

-------------------------------------------------------------------------------
(* Maps *)

\* vm_env_new: one word of the array is set.
NewData == dynarray_set(dynarray_init, 0, NULL)

MapInit ==
  /\ symbols = text_seg_init
  /\ data = NewData
  /\ cloned = FALSE

\* The two words of value number i are written in place ...
InPlace(d, i, v) ==
  [d EXCEPT !.data = [j \in DOMAIN @ |-> IF j \in {2 * i, 2 * i + 1} THEN v ELSE @[j]]]

\* ... after mapSet has made room; its assertion fails if one step is not
\* enough.
Grown(d, i) ==
  IF 2 * i < d.size THEN d
  ELSE [dynarray_reserve(d, d.size + MapStep) EXCEPT !.size = 2 * i + 2]

MapSet ==
  \E t \in Texts, v \in Values :
    LET known == text_seg_text_to_index(symbols, t) # -1
        ts == IF known THEN symbols ELSE text_seg_find_by_text(symbols, t)
        i == text_seg_text_to_index(ts, t)
    IN  /\ 2 * i < data.size + MapStep
        /\ symbols' = ts
        /\ data' = InPlace(Grown(data, i), i, v)
        /\ UNCHANGED cloned

EnvAdd ==
  \E t \in Texts, v \in Values :
    LET ts == text_seg_find_by_text(symbols, t)
        i == text_seg_text_to_index(ts, t)
    IN  /\ symbols' = ts
        /\ data' = dynarray_set(dynarray_set(data, 2 * i + 1, v), 2 * i, v)
        /\ UNCHANGED cloned

\* The argument of envSet:EnvSym is the number that the compiler found.
EnvSet ==
  \E i \in 1 .. symbols.by_index.size - 1, v \in Values :
    /\ data' = dynarray_set(dynarray_set(data, 2 * i, v), 2 * i + 1, v)
    /\ UNCHANGED <<symbols, cloned>>

\* vm_da_copy: the words of the source up to its size; the size of the
\* copy stays what it was.
CopiedData(dest, src) ==
  LET d == dynarray_reserve(dest, src.size)
  IN  [d EXCEPT !.data = [j \in DOMAIN @ |->
         IF j < src.size + (src.size % 2) THEN Word(src, j, Wild) ELSE @[j]]]

Clone ==
  /\ cloned => Reclones
  /\ symbols' = text_seg_copy(text_seg_init, symbols)
  /\ data' = CopiedData(NewData, data)
  /\ cloned' = TRUE

MapNext == MapSet \/ EnvAdd \/ EnvSet \/ Clone

MapSpec == MapInit /\ [][MapNext]_map

-------------------------------------------------------------------------------
\* mapGet: the value of a name, read without a look at the size of the array;
\* Wild if the two words are not of one value.
ValueOf(t) ==
  LET i == text_seg_text_to_index(symbols, t)
  IN  IF i = -1 THEN NULL
      ELSE IF Word(data, 2 * i, Wild) = Word(data, 2 * i + 1, Wild)
           THEN Word(data, 2 * i, Wild)
           ELSE Wild

Table == INSTANCE NameTable WITH
  names <- NamesOf(symbols), value <- [t \in Texts |-> ValueOf(t)]

\* A map is a table of names: whatever mixture of mapSet, envAdd and envSet
\* fills it, a name keeps its number, in clones and reloaded images too, and
\* is read as it was written last.
ImplementsNames == Table!Spec

\* The names of the environment, and the strings, libraries and requirements
\* of a program, are saved as text segments, and code is saved with their
\* numbers: what is read back gives every text its number.
ImagesKeepNames ==
  LET ts == text_seg_unserialize(text_seg_init, text_seg_serialize(symbols))
  IN  /\ NamesOf(ts) = NamesOf(symbols)
      /\ \A t \in Texts :
           text_seg_text_to_index(ts, t) = text_seg_text_to_index(symbols, t)
===============================================================================
