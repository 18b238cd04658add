------------------------------ MODULE VerticalMap ------------------------------
(***************************************************************************)
(* The map from sets of columns that the searches keep their findings in:  *)
(* a trie with one level per column of a key, in ascending order           *)
(* (VerticalMap and its SetTrie).                                          *)
(*                                                                         *)
(* A node of the trie is the set of columns on the way to it, and values   *)
(* are left out: entries are the nodes with one.                           *)
(***************************************************************************)
EXTENDS Integers, FiniteSetsExt

CONSTANT Dimension   \* the number of columns of the schema

VARIABLES
  trie,      \* its nodes and entries
  size,      \* size_
  promised   \* the keys a map would have after the same calls

mapVars == <<trie, size, promised>>

Npos == Dimension
Keys == SUBSET (0..Dimension - 1)
Root == {}

-----------------------------------------------------------------------------
(* SetTrie. *)

\* offset_ of a node: the columns of its subtries are not below it.
Offset(node) == IF node = Root THEN 0 ELSE Max(node) + 1

Subtries(node, t) == {c \in Offset(node)..Dimension - 1 : node \cup {c} \in t.nodes}

\* The next column of the key that is not below bit.
NextBit(key, bit) ==
  LET ahead == {c \in key : c >= bit} IN IF ahead = {} THEN Npos ELSE Min(ahead)

\* Mutant of IsEmpty: a node without a value is erased, and all below it.
IsEmptyOfValues(node, t) == node \notin t.entries

\* A node counts as empty when it has a value and no subtries.
IsEmpty(node, t) == node \in t.entries /\ Subtries(node, t) = {}

\* The way to the key is created, and the value set.
Associate(key, t) ==
  [nodes |-> t.nodes \cup {{c \in key : c < bit} : bit \in 0..Dimension},
   entries |-> t.entries \cup {key}]

\* The value is taken away at the end of the way; on the way back an empty node
\* is erased.
RECURSIVE RemoveFrom(_, _, _)
RemoveFrom(node, key, t) ==
  LET bit == NextBit(key, Offset(node))
      subtrie == node \cup {bit}
      left == RemoveFrom(subtrie, key, t)
  IN IF bit = Npos THEN [t EXCEPT !.entries = @ \ {node}]
     ELSE IF subtrie \notin t.nodes THEN t
     ELSE IF ~IsEmpty(subtrie, left) THEN left
     ELSE [nodes |-> {n \in left.nodes : ~(subtrie \subseteq n)},
           entries |-> {n \in left.entries : ~(subtrie \subseteq n)}]

Here(node, t) == {node} \cap t.entries

RECURSIVE CollectSubsetKeys(_, _, _)
CollectSubsetKeys(node, key, t) ==
  Here(node, t) \cup
  UNION {CollectSubsetKeys(node \cup {c}, key, t) : c \in Subtries(node, t) \cap key}

\* Below its own column a bit of the key has been met.
PastBit(next) == next + 1

\* CollectRestrictedSupersetKeys; without a blacklist, CollectSupersetKeys.
RECURSIVE CollectSupersetKeys(_, _, _, _, _)
CollectSupersetKeys(node, key, blacklist, bit, t) ==
  LET next == IF bit = Npos THEN Npos ELSE NextBit(key, bit)
      between == {c \in Subtries(node, t) \ blacklist : c < next}
  IN (IF next = Npos THEN Here(node, t) ELSE {}) \cup
     UNION {CollectSupersetKeys(node \cup {c}, key, blacklist, next, t) : c \in between} \cup
     (IF next \in Subtries(node, t)
      THEN CollectSupersetKeys(node \cup {next}, key, blacklist, PastBit(next), t) ELSE {})

SubsetKeys(key) == CollectSubsetKeys(Root, key, trie)
RestrictedSupersetKeys(key, blacklist) == CollectSupersetKeys(Root, key, blacklist, 0, trie)
SupersetKeys(key) == RestrictedSupersetKeys(key, {})

-----------------------------------------------------------------------------
(* The calls.  Keys are removed that are there, or that have just been. *)

Put(key) ==
  /\ trie' = Associate(key, trie)
  /\ size' = IF key \in trie.entries THEN size ELSE size + 1
  /\ promised' = promised \cup {key}

\* Remove, of a key after the other.
RemoveAll(keys) ==
  /\ trie' = FoldSet(LAMBDA key, t : RemoveFrom(Root, key, t), trie, keys)
  /\ size' = size - Cardinality(keys \cap trie.entries)
  /\ promised' = promised \ keys

\* PollLaunchPad takes a key out, and once more when it is implied by another.
RemoveTwice(key) ==
  /\ key \in trie.entries
  /\ trie' = RemoveFrom(Root, key, RemoveFrom(Root, key, trie))
  /\ size' = size - 1
  /\ promised' = promised \ {key}

RemoveSupersetEntries(key) == SupersetKeys(key) # {} /\ RemoveAll(SupersetKeys(key))
RemoveSubsetEntries(key) == SubsetKeys(key) # {} /\ RemoveAll(SubsetKeys(key))

MapInit ==
  /\ trie = [nodes |-> {Root}, entries |-> {}]
  /\ size = 0
  /\ promised = {}

MapNext ==
  \E key \in Keys :
    \/ Put(key)
    \/ RemoveTwice(key)
    \/ RemoveSupersetEntries(key)
    \/ RemoveSubsetEntries(key)

MapSpec == MapInit /\ [][MapNext]_mapVars

-----------------------------------------------------------------------------
(* Properties. *)

\* Although an entry without subtries counts as empty and no other node does,
\* the trie is the map: it has its keys and their number, and answers about subsets,
\* supersets and supersets without some columns as the definition does.
TrieIsMap ==
  /\ trie.entries = promised
  /\ size = Cardinality(promised)
  /\ \A key \in Keys :
       /\ SubsetKeys(key) = {X \in promised : X \subseteq key}
       /\ \A blacklist \in SUBSET ((0..Dimension - 1) \ key) :
            RestrictedSupersetKeys(key, blacklist) =
              {X \in promised : key \subseteq X /\ X \cap blacklist = {}}
=============================================================================
