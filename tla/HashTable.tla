------------------------------ MODULE HashTable -----------------------------
(***************************************************************************)
(* The hash table of src/server/common/src/ds/hashmap.c: an array of       *)
(* chains, doubled when it is three quarters full.  A key may have several *)
(* entries; the calls speak of the one that comes first in its chain.      *)
(* Its user gives the hash function.                                       *)
(***************************************************************************)
EXTENDS Naturals, SequencesExt

CONSTANT hash_function(_, _)   \* the index of a key in an array of a size

\* old is the array that rechain still takes nodes from.
ht_create(size) ==
  [hash_table |-> [i \in 0 .. size - 1 |-> <<>>], hash_table_size |-> size,
   num_elements |-> 0, old |-> <<>>]

\* load_factor >= 0.75
Loaded(hash) == 4 * hash.num_elements >= 3 * hash.hash_table_size

Double(hash) ==
  [hash EXCEPT !.hash_table_size = 2 * @,
               !.hash_table = [i \in 0 .. 2 * hash.hash_table_size - 1 |-> <<>>],
               !.old = hash.hash_table]

Unmoved(hash) == {i \in DOMAIN hash.old : hash.old[i] # <<>>}

\* One round of rechain: a node goes to the head of its new chain, so that the
\* order of a chain turns round.
Move(hash, i, index) ==
  [hash EXCEPT !.old[i] = Tail(@), !.hash_table[index] = <<Head(hash.old[i])>> \o @]

(* A doubling that leaves the chains where they are.                       *)
RechainInPlace(hash) ==
  LET i == Min(Unmoved(hash)) IN Move(hash, i, i)

rechain(hash) ==
  LET i == Min(Unmoved(hash))
  IN Move(hash, i, hash_function(Head(hash.old[i]).key, hash.hash_table_size))

Index(hash, key) == hash_function(key, hash.hash_table_size)
Chain(hash, key) == hash.hash_table[Index(hash, key)]

\* The place of the first entry of key in its chain, 0 if there is none.
Find(hash, key) == SelectInSeq(Chain(hash, key), LAMBDA n : n.key = key)
Found(hash, key) == Find(hash, key) # 0

ht_insert(hash, key, value) ==
  [hash EXCEPT !.hash_table[Index(hash, key)] = <<[key |-> key, value |-> value]>> \o @,
               !.num_elements = @ + 1, !.old = <<>>]

ht_remove(hash, key) ==
  IF ~Found(hash, key) THEN hash
  ELSE [hash EXCEPT !.hash_table[Index(hash, key)] = RemoveAt(@, Find(hash, key)),
                    !.num_elements = @ - 1]

ht_get(hash, key) == Chain(hash, key)[Find(hash, key)].value

\* The values of key in the order in which they would be found, those that have
\* been moved before the others.
ValuesIn(chain, key) ==
  LET own == {i \in DOMAIN chain : chain[i].key = key}
      Nth(k) == CHOOSE i \in own : Cardinality({j \in own : j <= i}) = k
  IN [k \in 1 .. Cardinality(own) |-> chain[Nth(k)].value]

ValuesOf(hash, key) ==
  ValuesIn(Chain(hash, key), key) \o
  (IF hash.old = <<>> THEN <<>>
   ELSE ValuesIn(hash.old[hash_function(key, hash.hash_table_size \div 2)], key))
=============================================================================
