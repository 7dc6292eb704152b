------------------------------ MODULE HashTable ------------------------------
(***************************************************************************)
(* The hash tables of include/hashtab.h: a row per hash, a chain of        *)
(* entries per row, the newest first.  Nothing stops a key from being      *)
(* added twice: the older entry is hidden.                                 *)
(***************************************************************************)
EXTENDS Integers, Sequences

CONSTANTS
  Rows,  \* 0 .. HASH_SIZE - 1
  Hash   \* the row of a key: hash_str of texts, hash_ptr of addresses

HASH_NOVAL == 0

init_hashtab == [r \in Rows |-> <<>>]

hash_addelem(tab, key, elem) ==
  [tab EXCEPT ![Hash[key]] = <<[key |-> key, e |-> elem]>> \o @]

\* Whether the chain of the key has an entry of it.
Holds(tab, key) == \E i \in DOMAIN tab[Hash[key]] : tab[Hash[key]][i].key = key

\* hash_find_e: the entry of the key that comes first in its chain.
hash_find_e(tab, key) ==
  LET chain == tab[Hash[key]]
  IN  chain[CHOOSE i \in DOMAIN chain :
              chain[i].key = key /\ \A j \in 1 .. i - 1 : chain[j].key # key]

\* hash_find: an element zero and no element are the same.
hash_find(tab, key) == IF Holds(tab, key) THEN hash_find_e(tab, key).e ELSE HASH_NOVAL
===============================================================================
